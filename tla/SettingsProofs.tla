--------------------------- MODULE SettingsProofs ---------------------------
(***************************************************************************)
(* Proofs about modules Settings and AutoStart, for any number of handlers *)
(* and decks, any names and any patches: what was answered is registered,  *)
(* written and kept, nothing runs that was switched off, and no            *)
(* advertisement is forgotten.                                             *)
(***************************************************************************)
EXTENDS Settings, TLAPS

-----------------------------------------------------------------------------
(* The inductive invariant.                                                *)

\* Of auto-start: a call that nobody gets in the way of is the only one, and
\* one that has been answered is the last.
Registering ==
    /\ ~mixed => \A c, d \in Callers : UnderWay(c) /\ UnderWay(d) => c = d
    /\ word # "none" => \A c \in Callers : ~UnderWay(c)
    /\ \A c \in Callers : /\ svc[c] = "create" => plat = "windows"
                          /\ svc[c] = "rule" /\ ~mixed => unit /\ enabled
    /\ AnsweredTakesEffect

\* Whoever takes an advertisement out of the slot, or has put one on the
\* network, has it in its hands until it is withdrawn or in the slot.
Holding ==
    /\ \A t \in Threads : step[t] \notin {"stop", "replace", "retire"} => held[t] = None
    /\ \A ad \in live : ad = slot \/ \E t \in Threads : held[t] = ad
    /\ daemon = "down" => slot = None
    /\ step[Main] \in {"idle", "start", "replace", "retire"}

AsksOff == \A h \in offs : InCall(h) /\ ~next[h]["shell"]

\* As long as requests come one after the other: how far one of them has come.
Progress(h) ==
    /\ step[h] \in {"service", "tmp", "rename"} => disk = kept /\ mem = kept
    /\ step[h] = "rename" => tmp = next[h]
    /\ step[h] = "memory" => disk = next[h] /\ mem = kept
    /\ step[h] \in {"take", "stop", "start", "replace", "retire", "answer"}
         => disk = next[h] /\ mem = next[h]
    /\ step[h] \in {"service", "tmp", "rename", "memory"} /\ ~renamed[h]
         => next[h]["name"] = mem["name"]

OneAtATime == \A t, u \in Threads : step[t] # "idle" /\ step[u] # "idle" => t = u

Settled == (\A h \in Handlers : ~InCall(h)) => disk = kept /\ (daemon # "down" => mem = kept)

SwitchedOff == shellWord = "off"
    => ~disk["shell"] /\ ~mem["shell"] /\ \A h \in Handlers : InCall(h) => ~next[h]["shell"]

Named ==
    /\ slot # None => slot.name = mem["name"] \/ \E h \in Handlers : step[h] = "take"
    /\ \A t \in Threads : /\ step[t] \in {"stop", "start", "replace"} => slot = None
                          /\ step[t] = "replace" => held[t].name = mem["name"]

InOrder == /\ OneAtATime /\ (\A h \in Handlers : Progress(h)) /\ Settled /\ SwitchedOff /\ Named
           /\ \A d \in Decks : run[d] # "off"

SettingsInv == TypeOK /\ Registering /\ Holding /\ AsksOff /\ (~overlapped => InOrder)

-----------------------------------------------------------------------------
(* The type invariant in parts that a step leaves alone or changes whole.  *)

SvcSteps == {"idle", "create", "unload", "write", "load", "reload", "enable",
             "rule", "look", "delete", "disable", "remove", "ok", "failed"}
AutoTypes ==
    /\ plat \in Platforms /\ unit \in BOOLEAN /\ enabled \in BOOLEAN
    /\ daemon \in {"down", "manual", "managed"}
    /\ svc \in [Callers -> SvcSteps]
    /\ mixed \in BOOLEAN /\ word \in {"none", "on", "off"}

StepNames == {"idle", "service", "tmp", "rename", "memory", "answer",
              "take", "stop", "start", "replace", "retire"}
EngineTypes ==
    /\ mem \in Record /\ disk \in Record /\ tmp \in Record \cup {None}
    /\ step \in [Threads -> StepNames]
    /\ patch \in [Handlers -> Patches \cup {NoPatch}]
    /\ next \in [Handlers -> Record \cup {None}]
    /\ renamed \in [Handlers -> BOOLEAN]
    /\ offs \in SUBSET Handlers
AdTypes ==
    /\ slot \in Ad \cup {None} /\ live \in SUBSET Ad
    /\ held \in [Threads -> Ad \cup {None}]
HistoryTypes ==
    /\ kept \in Record /\ shellWord \in {"none", "off"} /\ overlapped \in BOOLEAN
RunTypes == run \in [Decks -> {"idle", "none", "off"}]
Linked ==
    /\ \A h \in Handlers : InCall(h) <=> next[h] # None
    /\ daemon = "down" => Quiet

LEMMA TypeParts ==
  TypeOK <=> /\ AutoTypes /\ EngineTypes /\ AdTypes /\ HistoryTypes /\ RunTypes
             /\ sets \in 0 .. MaxSets /\ Linked
  BY DEF TypeOK, AutoTypes, SvcSteps, EngineTypes, StepNames, AdTypes, HistoryTypes, RunTypes, Linked

LEMMA RecordFields ==
  ASSUME NEW s \in Record
  PROVE  s["shell"] \in BOOLEAN /\ s["name"] \in Names /\ s["autostart"] \in BOOLEAN
  BY DEF Record, Keys, Value

\* What is made from a record and a patch is a record, with the keys of the patch.
LEMMA PatchedRecord ==
  ASSUME NEW s \in Record, NEW p \in Patches
  PROVE  /\ Patched(s, p) \in Record
         /\ Patched(s, p)["shell"] = IF "shell" \in DOMAIN p THEN p["shell"] ELSE s["shell"]
<1>1. \A k \in Keys : Value[k] \subseteq BOOLEAN \cup Names
  BY DEF Keys, Value
<1>2. \A k \in Keys : Patched(s, p)[k] = (IF k \in DOMAIN p THEN p[k] ELSE s[k])
  BY DEF Patched
<1>3. \A k \in Keys : Patched(s, p)[k] \in Value[k]
  BY <1>2, PatchesAssumption DEF Record
<1>4. Patched(s, p) \in [Keys -> BOOLEAN \cup Names]
  BY <1>1, <1>2, <1>3 DEF Patched
<1> QED
  BY <1>2, <1>3, <1>4 DEF Record, Keys

LEMMA DefaultRecord == Default \in Record
<1>1. /\ Default["shell"] = FALSE /\ Default["name"] = FirstName /\ Default["autostart"] = TRUE
  BY DEF Default
<1>2. DOMAIN Default = Keys
  BY DEF Default, Keys
<1>3. Default = [k \in Keys |-> Default[k]]
  BY DEF Default, Keys
<1>4. \A k \in Keys : Default[k] \in BOOLEAN \cup Names
  BY <1>1, SettingsAssumption DEF Keys
<1>5. Default \in [Keys -> BOOLEAN \cup Names]
  BY <1>3, <1>4
<1>6. \A k \in Keys : Default[k] \in Value[k]
  <2>1. Value["shell"] = BOOLEAN /\ Value["name"] = Names /\ Value["autostart"] = BOOLEAN
    BY DEF Value
  <2> QED
    BY <1>1, <2>1, SettingsAssumption DEF Keys
<1> QED
  BY <1>5, <1>6 DEF Record

-----------------------------------------------------------------------------
(* Auto-start.                                                             *)

LEMMA ServiceTypes ==
  ASSUME AutoTypes, NEW c \in Callers, ServiceStep(c)
  PROVE  AutoTypes'
<1> USE DEF AutoTypes, SvcSteps
<1>1. CASE Create(c) \/ WriteUnit(c) \/ Load(c) \/ Reload(c) \/ Enable(c) \/ WriteRule(c)
  BY <1>1 DEF ServiceStep, Create, WriteUnit, Load, Reload, Enable, WriteRule,
     At, Goto, Done, Failed, Continue, Up
<1>2. CASE Look(c) \/ QueryFails(c) \/ Delete(c) \/ RemoveUnit(c)
  BY <1>2 DEF ServiceStep, Look, QueryFails, Delete, RemoveUnit, At, Goto, Done, Failed, Continue
<1>3. CASE Unload(c) \/ Disable(c)
  BY <1>3 DEF ServiceStep, Unload, Disable, At, Goto, Continue, StopsManaged
<1> QED
  BY <1>1, <1>2, <1>3 DEF ServiceStep

\* A step of a call is a step of its own caller, and of no other while the
\* platform does not stop the daemon; no caller is under way that was not.
LEMMA ServiceMoves ==
  ASSUME AutoTypes, NEW c \in Callers, ServiceStep(c)
  PROVE  /\ UnderWay(c)
         /\ \A d \in Callers \ {c} : svc'[d] = svc[d] \/ svc'[d] = "idle"
         /\ svc'[c] # "create"
         /\ plat' = plat /\ mixed' = mixed
<1> USE DEF AutoTypes, SvcSteps, UnderWay
<1>1. CASE Create(c) \/ WriteUnit(c) \/ Load(c) \/ Reload(c) \/ Enable(c) \/ WriteRule(c)
  BY <1>1 DEF ServiceStep, Create, WriteUnit, Load, Reload, Enable, WriteRule,
     At, Goto, Done, Failed, Continue, Up
<1>2. CASE Look(c) \/ QueryFails(c) \/ Delete(c) \/ RemoveUnit(c)
  BY <1>2 DEF ServiceStep, Look, QueryFails, Delete, RemoveUnit, At, Goto, Done, Failed, Continue
<1>3. CASE Unload(c) \/ Disable(c)
  BY <1>3 DEF ServiceStep, Unload, Disable, At, Goto, Continue, StopsManaged
<1> QED
  BY <1>1, <1>2, <1>3 DEF ServiceStep

\* What a step promises is so when it promises it, and a step that leads to
\* the udev rule leaves the unit enabled.
LEMMA ServicePromise ==
  ASSUME AutoTypes, Registering, NEW c \in Callers, ServiceStep(c), ~mixed
  PROVE  /\ word = "none"
         /\ word' # "none" => svc'[c] = "ok"
         /\ word' = "on"  => StartsAtLogon'
         /\ word' = "off" => ~StartsAtLogon'
         /\ svc'[c] = "rule" => unit' /\ enabled'
<1>1. word = "none"
  BY ServiceMoves DEF Registering
<1> USE <1>1 DEF AutoTypes, SvcSteps, StartsAtLogon, Platforms
<1>2. CASE Create(c) \/ WriteUnit(c) \/ Reload(c)
  BY <1>2 DEF ServiceStep, Create, WriteUnit, Reload, At, Goto, Done, Failed, Continue, Registering
<1>3. CASE Load(c) \/ Enable(c)
  BY <1>3 DEF ServiceStep, Load, Enable, At, Goto, Done, Failed, Continue
<1>4. CASE WriteRule(c)
  BY <1>4 DEF ServiceStep, WriteRule, At, Goto, Done, Failed, Registering
<1>5. CASE Look(c) \/ QueryFails(c) \/ Delete(c) \/ RemoveUnit(c)
  BY <1>5 DEF ServiceStep, Look, Status, QueryFails, Delete, RemoveUnit,
     At, Goto, Done, Failed, Continue
<1>6. CASE Unload(c) \/ Disable(c)
  BY <1>6 DEF ServiceStep, Unload, Disable, At, Goto, Continue, StopsManaged
<1> QED
  BY <1>2, <1>3, <1>4, <1>5, <1>6 DEF ServiceStep

LEMMA ServiceKeeps ==
  ASSUME AutoTypes, Registering, NEW c \in Callers, ServiceStep(c)
  PROVE  Registering'
<1>1. /\ UnderWay(c) /\ svc'[c] # "create" /\ plat' = plat /\ mixed' = mixed
      /\ \A d \in Callers \ {c} : svc'[d] = svc[d] \/ svc'[d] = "idle"
  BY ServiceMoves
<1>2. \A d \in Callers \ {c} : UnderWay(d)' => UnderWay(d)
  BY <1>1 DEF UnderWay
<1>3. CASE mixed
  <2>1. word' = "none"
    BY <1>1, <1>3 DEF ServiceStep, Create, Unload, WriteUnit, Load, Reload, Enable, WriteRule,
       Look, QueryFails, Delete, Disable, RemoveUnit, Done, Failed, Continue, Registering
  <2> QED
    BY <1>1, <1>3, <2>1 DEF Registering, AnsweredTakesEffect
<1>4. CASE ~mixed
  <2>1. \A d \in Callers \ {c} : ~UnderWay(d) /\ ~UnderWay(d)' /\ svc'[d] # "rule"
    BY <1>1, <1>2, <1>4 DEF Registering, UnderWay
  <2>2. word' # "none" => ~UnderWay(c)'
    BY <1>4, ServicePromise DEF UnderWay
  <2>3. \A d \in Callers : svc'[d] = "create" => plat' = "windows"
    BY <1>1, <2>1 DEF Registering
  <2>4. \A d \in Callers : svc'[d] = "rule" => unit' /\ enabled'
    BY <1>4, <2>1, ServicePromise
  <2>5. AnsweredTakesEffect'
    BY <1>4, ServicePromise DEF AnsweredTakesEffect
  <2>6. (~mixed => \A d, e \in Callers : UnderWay(d) /\ UnderWay(e) => d = e)'
    BY <2>1
  <2>7. (word # "none" => \A d \in Callers : ~UnderWay(d))'
    BY <2>1, <2>2
  <2> QED
    BY <2>3, <2>4, <2>5, <2>6, <2>7 DEF Registering
<1> QED
  BY <1>3, <1>4

\* A call begins.
LEMMA BeginKeeps ==
  ASSUME AutoTypes, Registering, NEW c \in Callers, NEW s \in {InstallFrom, UninstallFrom},
         Begin(c, s), UNCHANGED <<plat, unit, enabled, daemon>>
  PROVE  AutoTypes' /\ Registering'
<1>1. s \in {"create", "unload", "write", "look"} /\ (s = "create" => plat = "windows")
  BY DEF InstallFrom, UninstallFrom
<1>2. /\ svc' = [svc EXCEPT ![c] = s] /\ word' = "none"
      /\ mixed' = \E d \in Callers \ {c} : UnderWay(d)
  BY DEF Begin, Goto
<1>3. AutoTypes'
  <2>1. mixed' \in BOOLEAN
    <3> DEFINE o == \E d \in Callers \ {c} : UnderWay(d)
    <3>1. o = TRUE \/ o = FALSE
      OBVIOUS
    <3>2. mixed' = o
      BY <1>2, Zenon
    <3> HIDE DEF o
    <3> QED
      BY <3>1, <3>2
  <2>2. svc' \in [Callers -> SvcSteps]
    BY <1>1, <1>2 DEF AutoTypes, SvcSteps
  <2> QED
    BY <1>2, <2>1, <2>2 DEF AutoTypes
<1>4. \A d \in Callers \ {c} : svc'[d] = svc[d] /\ (UnderWay(d)' <=> UnderWay(d))
  BY <1>2 DEF AutoTypes, UnderWay
<1>5. ~mixed' => \A d \in Callers \ {c} : ~UnderWay(d)
  BY <1>2, Zenon
<1>6. svc'[c] = s
  BY <1>2 DEF AutoTypes
<1>7. \A d \in Callers : svc'[d] = "create" => plat' = "windows"
  BY <1>1, <1>4, <1>6 DEF Registering
<1>8. \A d \in Callers : svc'[d] = "rule" /\ ~mixed' => unit' /\ enabled'
  BY <1>1, <1>4, <1>5, <1>6 DEF UnderWay
<1>9. (~mixed => \A d, e \in Callers : UnderWay(d) /\ UnderWay(e) => d = e)'
  BY <1>4, <1>5
<1> QED
  BY <1>2, <1>3, <1>7, <1>8, <1>9 DEF Registering, AnsweredTakesEffect

\* A call ends, or the daemon dies with the calls of its handlers.
LEMMA EndsKeep ==
  ASSUME AutoTypes, Registering, UNCHANGED <<plat, unit, enabled, mixed, word>>,
         daemon' \in {"down", "manual", "managed"}, svc' \in [Callers -> SvcSteps],
         \A c \in Callers : svc'[c] = svc[c] \/ svc'[c] = "idle"
  PROVE  AutoTypes' /\ Registering'
<1>1. AutoTypes'
  BY DEF AutoTypes
<1>2. \A c \in Callers : UnderWay(c)' => UnderWay(c)
  BY DEF UnderWay
<1>3. \A c \in Callers : /\ svc'[c] = "create" => svc[c] = "create"
                         /\ svc'[c] = "rule" => svc[c] = "rule"
  OBVIOUS
<1>4. AnsweredTakesEffect'
  BY DEF Registering, AnsweredTakesEffect, StartsAtLogon
<1> QED
  BY <1>1, <1>2, <1>3, <1>4 DEF Registering

-----------------------------------------------------------------------------
(* Types, action by action.                                                *)

LEMMA StepTyped ==
  ASSUME EngineTypes, NEW t \in Threads, NEW s \in StepNames, Step(t, s)
  PROVE  /\ step' \in [Threads -> StepNames] /\ step'[t] = s
         /\ \A u \in Threads \ {t} : step'[u] = step[u]
  BY DEF EngineTypes, Step

\* A request that ends is nobody's any more.
LEMMA AnswerMoves ==
  ASSUME EngineTypes, NEW h \in Handlers, Answer(h)
  PROVE  /\ step' \in [Threads -> StepNames] /\ patch' \in [Handlers -> Patches \cup {NoPatch}]
         /\ next' \in [Handlers -> Record \cup {None}] /\ renamed' \in [Handlers -> BOOLEAN]
         /\ offs' \in SUBSET Handlers
         /\ step'[h] = "idle" /\ next'[h] = None /\ offs' = offs \ {h}
         /\ \A u \in Threads \ {h} : step'[u] = step[u]
         /\ \A g \in Handlers \ {h} : next'[g] = next[g] /\ renamed'[g] = renamed[g]
<1>1. h \in Threads
  BY DEF Threads
<1>2. /\ step' \in [Threads -> StepNames] /\ step'[h] = "idle"
      /\ \A u \in Threads \ {h} : step'[u] = step[u]
  BY <1>1, StepTyped DEF Answer, StepNames
<1>3. patch' \in [Handlers -> Patches \cup {NoPatch}] /\ offs' \in SUBSET Handlers
  BY DEF Answer, EngineTypes
<1>4. /\ next' \in [Handlers -> Record \cup {None}] /\ next'[h] = None
      /\ \A g \in Handlers \ {h} : next'[g] = next[g]
  BY DEF Answer, EngineTypes
<1>5. /\ renamed' \in [Handlers -> BOOLEAN]
      /\ \A g \in Handlers \ {h} : renamed'[g] = renamed[g]
  BY DEF Answer, EngineTypes
<1> QED
  BY <1>2, <1>3, <1>4, <1>5 DEF Answer

\* What the daemon's death leaves: the files, and nobody at anything.
LEMMA GoneTypes ==
  ASSUME EngineTypes, HistoryTypes, DaemonGone
  PROVE  /\ EngineTypes' /\ AdTypes' /\ HistoryTypes' /\ RunTypes'
         /\ \A t \in Threads : step'[t] = "idle" /\ held'[t] = None
         /\ \A h \in Handlers : next'[h] = None
<1>1. EngineTypes'
  BY DEF DaemonGone, EngineTypes, StepNames
<1>2. AdTypes' /\ RunTypes'
  BY DEF DaemonGone, AdTypes, RunTypes
<1>3. HistoryTypes'
  <2>1. kept' \in Record /\ shellWord' \in {"none", "off"}
    BY DEF DaemonGone, EngineTypes, HistoryTypes
  <2> QED
    BY <2>1 DEF DaemonGone, HistoryTypes
<1> QED
  BY <1>1, <1>2, <1>3 DEF DaemonGone

LEMMA UpTypes ==
  ASSUME EngineTypes, DaemonUp
  PROVE  /\ EngineTypes' /\ step'[Main] = "start" /\ next' = next
         /\ \A h \in Handlers : step'[h] = step[h]
<1>1. Main \in Threads /\ \A h \in Handlers : h \in Threads /\ h # Main
  BY SettingsAssumption DEF Threads, Callers
<1>2. step' \in [Threads -> StepNames] /\ step'[Main] = "start" /\ \A h \in Handlers : step'[h] = step[h]
  BY <1>1, StepTyped DEF DaemonUp, StepNames
<1> QED
  BY <1>2 DEF DaemonUp, EngineTypes, request


-----------------------------------------------------------------------------
(* The engine: each action keeps its part of the invariant.                *)

Parts == EngineTypes /\ AdTypes /\ HistoryTypes /\ RunTypes /\ sets \in 0 .. MaxSets /\ Linked
EngineInv == Parts /\ Holding /\ AsksOff /\ (~overlapped => InOrder)

LEMMA ThreadFacts ==
  /\ Main \in Threads /\ Main \notin Handlers
  /\ \A h \in Handlers : h \in Threads /\ h # Main /\ h \in Callers
  /\ \A t \in Threads : t = Main \/ t \in Handlers
  BY SettingsAssumption DEF Threads, Callers

LEMMA OneMoves ==
  ASSUME NEW t \in Threads, step[t] # "idle", OneAtATime,
         \A u \in Threads \ {t} : step'[u] = step[u]
  PROVE  OneAtATime' /\ \A u \in Threads \ {t} : step[u] = "idle" /\ step'[u] = "idle"
  BY DEF OneAtATime

\* While only the actor's step changes, nobody else's progress does.
LEMMA IdleProgress ==
  ASSUME NEW h \in Handlers, step[h] = "idle"
  PROVE  Progress(h)
  BY DEF Progress

\* The daemon dies.
LEMMA GoneKeeps ==
  ASSUME EngineInv, DaemonGone, daemon' = "down"
  PROVE  EngineInv'
<1> USE ThreadFacts
<1>1. /\ EngineTypes' /\ AdTypes' /\ HistoryTypes' /\ RunTypes'
      /\ \A t \in Threads : step'[t] = "idle" /\ held'[t] = None
      /\ \A h \in Handlers : next'[h] = None
  BY GoneTypes DEF EngineInv, Parts
<1>2. Linked'
  BY <1>1 DEF Linked, InCall, Quiet
<1>3. Parts'
  BY <1>1, <1>2 DEF EngineInv, Parts, DaemonGone
<1>4. Holding'
  BY <1>1 DEF DaemonGone, Holding
<1>5. AsksOff'
  BY DEF DaemonGone, AsksOff
<1>6. InOrder'
  <2>1. OneAtATime' /\ \A h \in Handlers : Progress(h)'
    BY <1>1 DEF OneAtATime, Progress
  <2>2. Settled'
    BY DEF DaemonGone, Settled, EngineInv, InOrder
  <2>3. SwitchedOff'
    BY <1>1 DEF DaemonGone, SwitchedOff, EngineInv, InOrder, InCall
  <2>4. Named'
    BY <1>1 DEF DaemonGone, Named
  <2>5. \A d \in Decks : run'[d] # "off"
    BY DEF DaemonGone
  <2> QED
    BY <2>1, <2>2, <2>3, <2>4, <2>5 DEF InOrder
<1> QED
  BY <1>3, <1>4, <1>5, <1>6 DEF EngineInv

\* The daemon comes up.
LEMMA UpKeeps ==
  ASSUME EngineInv, daemon = "down", DaemonUp, daemon' # "down"
  PROVE  EngineInv'
<1> USE ThreadFacts
<1>1. \A t \in Threads : step[t] = "idle"
  BY DEF EngineInv, Parts, Linked, Quiet
<1>2. /\ EngineTypes' /\ step'[Main] = "start" /\ next' = next
      /\ \A h \in Handlers : step'[h] = "idle"
  BY <1>1, UpTypes DEF EngineInv, Parts
<1>3. UNCHANGED <<disk, slot, live, held, run, sets, kept, shellWord, overlapped, offs>> /\ mem' = disk
  BY DEF DaemonUp, adVars, history, request
<1>4. Parts'
  <2>1. AdTypes' /\ HistoryTypes' /\ RunTypes' /\ sets' \in 0 .. MaxSets
    BY <1>3 DEF EngineInv, Parts, AdTypes, HistoryTypes, RunTypes
  <2>2. Linked'
    BY <1>1, <1>2 DEF EngineInv, Parts, Linked, InCall
  <2> QED
    BY <1>2, <2>1, <2>2 DEF Parts
<1>5. slot = None /\ \A t \in Threads : held[t] = None
  BY <1>1 DEF EngineInv, Holding
<1>6. Holding'
  BY <1>1, <1>2, <1>3, <1>5 DEF EngineInv, Holding
<1>7. AsksOff'
  <2>1. offs = {}
    BY <1>1 DEF EngineInv, Parts, EngineTypes, AsksOff, InCall
  <2> QED
    BY <1>3, <2>1 DEF AsksOff
<1>8. ASSUME InOrder PROVE InOrder'
  <2>1. OneAtATime' /\ \A h \in Handlers : Progress(h)'
    BY <1>2 DEF OneAtATime, Progress
  <2>2. Settled'
    BY <1>1, <1>3, <1>8 DEF Settled, InOrder, InCall
  <2>3. SwitchedOff'
    BY <1>2, <1>3, <1>8 DEF SwitchedOff, InOrder, InCall
  <2>4. Named'
    BY <1>2, <1>3, <1>5 DEF Named
  <2>5. \A d \in Decks : run'[d] # "off"
    BY <1>3, <1>8 DEF InOrder
  <2> QED
    BY <2>1, <2>2, <2>3, <2>4, <2>5 DEF InOrder
<1> QED
  BY <1>3, <1>4, <1>6, <1>7, <1>8 DEF EngineInv

LEMMA EngineStays ==
  ASSUME EngineInv, UNCHANGED <<engineVars, adVars, run, sets, history>>,
         daemon' = "down" <=> daemon = "down"
  PROVE  EngineInv'
  BY DEF EngineInv, Parts, EngineTypes, AdTypes, HistoryTypes, RunTypes, Linked, InCall, Quiet,
     Holding, AsksOff, InOrder, OneAtATime, Progress, Settled, SwitchedOff, Named,
     engineVars, adVars, history, request

\* A request begins.
LEMMA ReceiveKeeps ==
  ASSUME EngineInv, NEW h \in Handlers, NEW p \in Patches, Receive(h, p)
  PROVE  EngineInv'
<1> USE ThreadFacts
<1>1. /\ daemon' = daemon /\ daemon # "down" /\ step[h] = "idle"
      /\ UNCHANGED <<mem, disk, tmp, slot, live, held, run, kept>>
  BY DEF Receive, adVars, InCall
<1>2. /\ step' \in [Threads -> StepNames] /\ step'[h] \in {"tmp", "service"}
      /\ \A u \in Threads \ {h} : step'[u] = step[u]
  <2>1. Step(h, "tmp") \/ Step(h, "service")
    BY DEF Receive
  <2> QED
    BY <2>1, StepTyped DEF EngineInv, Parts, StepNames
<1>3. Patched(mem, p) \in Record
  BY PatchedRecord DEF EngineInv, Parts, EngineTypes
<1>4. /\ next' \in [Handlers -> Record \cup {None}] /\ next'[h] = Patched(mem, p)
      /\ \A g \in Handlers \ {h} : next'[g] = next[g]
  BY <1>3 DEF Receive, EngineInv, Parts, EngineTypes
<1>5. /\ renamed' \in [Handlers -> BOOLEAN]
      /\ ~renamed'[h] => next'[h]["name"] = mem["name"]
  <2> DEFINE o == Patched(mem, p)["name"] # mem["name"]
  <2>1. o = TRUE \/ o = FALSE
    OBVIOUS
  <2>2. renamed' = [renamed EXCEPT ![h] = o]
    BY Zenon DEF Receive
  <2>3. o = FALSE => Patched(mem, p)["name"] = mem["name"]
    OBVIOUS
  <2> HIDE DEF o
  <2> QED
    BY <1>4, <2>1, <2>2, <2>3 DEF EngineInv, Parts, EngineTypes
<1>6. patch' \in [Handlers -> Patches \cup {NoPatch}] /\ offs' \in SUBSET Handlers
  BY DEF Receive, EngineInv, Parts, EngineTypes
<1>7. /\ shellWord' \in {"none", "off"} /\ overlapped' \in BOOLEAN
      /\ ~overlapped' => ~overlapped /\ \A u \in Threads \ {h} : step[u] = "idle"
  <2> DEFINE o == overlapped \/ \E t \in Threads \ {h} : step[t] # "idle"
  <2>1. o = TRUE \/ o = FALSE
    OBVIOUS
  <2>2. overlapped' = o
    BY Zenon DEF Receive
  <2>3. o = FALSE => ~overlapped /\ \A u \in Threads \ {h} : step[u] = "idle"
    OBVIOUS
  <2> HIDE DEF o
  <2>4. shellWord' \in {"none", "off"}
    BY DEF Receive, EngineInv, Parts, HistoryTypes
  <2> QED
    BY <2>1, <2>2, <2>3, <2>4
<1>8. Parts'
  <2>1. EngineTypes' /\ AdTypes' /\ HistoryTypes' /\ RunTypes'
    BY <1>1, <1>2, <1>4, <1>5, <1>6, <1>7 DEF EngineInv, Parts, EngineTypes, AdTypes, HistoryTypes, RunTypes
  <2>2. sets' \in 0 .. MaxSets
    BY SettingsAssumption DEF Receive, EngineInv, Parts
  <2>3. Linked'
    BY <1>1, <1>2, <1>3, <1>4, PatchesAssumption DEF EngineInv, Parts, Linked, InCall
  <2> QED
    BY <2>1, <2>2, <2>3 DEF Parts
<1>9. Holding'
  BY <1>1, <1>2 DEF EngineInv, Holding
<1>10. AsksOff'
  <2>1. \A g \in offs : g # h /\ step'[g] # "idle" /\ ~next'[g]["shell"]
    <3>1. \A g \in offs : g \in Handlers /\ InCall(g) /\ ~next[g]["shell"]
      BY DEF EngineInv, Parts, EngineTypes, AsksOff
    <3> QED
      BY <1>1, <1>2, <1>4, <3>1 DEF InCall
  <2>2. CASE AsksOn(p)
    BY <2>2 DEF Receive, AsksOff
  <2>3. CASE ~AsksOn(p) /\ "shell" \in DOMAIN p
    <3>1. offs' \subseteq offs \cup {h}
      BY <2>3 DEF Receive
    <3>2. ~next'[h]["shell"]
      BY <1>4, <2>3, PatchedRecord DEF AsksOn, EngineInv, Parts, EngineTypes
    <3> QED
      BY <1>2, <2>1, <3>1, <3>2 DEF AsksOff, InCall
  <2>4. CASE "shell" \notin DOMAIN p
    <3>1. offs' \subseteq offs
      BY <2>4 DEF Receive, AsksOn
    <3> QED
      BY <2>1, <3>1 DEF AsksOff, InCall
  <2> QED
    BY <2>2, <2>3, <2>4
<1>11. ASSUME ~overlapped' PROVE InOrder'
  <2>1. InOrder /\ \A u \in Threads \ {h} : step[u] = "idle" /\ step'[u] = "idle"
    BY <1>2, <1>7, <1>11 DEF EngineInv
  <2>2. \A g \in Handlers : ~InCall(g)
    BY <1>1, <2>1 DEF InCall
  <2>3. disk = kept /\ mem = kept
    BY <1>1, <2>1, <2>2 DEF InOrder, Settled
  <2>4. OneAtATime'
    BY <2>1 DEF OneAtATime
  <2>5. \A g \in Handlers : Progress(g)'
    <3>1. Progress(h)'
      BY <1>1, <1>2, <1>5, <2>3 DEF Progress
    <3> QED
      BY <2>1, <3>1 DEF Progress
  <2>6. Settled'
    BY <1>2 DEF Settled, InCall
  <2>7. SwitchedOff'
    <3>1. ASSUME shellWord' = "off"
          PROVE  ~disk["shell"] /\ ~mem["shell"] /\ ~next'[h]["shell"]
      <4>1. ~AsksOn(p) /\ shellWord = "off"
        BY <3>1 DEF Receive
      <4>2. ~disk["shell"] /\ ~mem["shell"]
        BY <2>1, <4>1 DEF InOrder, SwitchedOff
      <4> QED
        BY <1>4, <4>1, <4>2, PatchedRecord DEF AsksOn, EngineInv, Parts, EngineTypes
    <3> QED
      BY <1>1, <2>1, <3>1 DEF SwitchedOff, InCall
  <2>8. Named'
    BY <1>1, <1>2, <2>1 DEF Named, InOrder
  <2>9. \A d \in Decks : run'[d] # "off"
    BY <1>1, <2>1 DEF InOrder
  <2> QED
    BY <2>4, <2>5, <2>6, <2>7, <2>8, <2>9 DEF InOrder
<1> QED
  BY <1>8, <1>9, <1>10, <1>11 DEF EngineInv

\* A request ends, for whatever reason: settled, and the advertisement is not
\* in its hands.
LEMMA AnswerKeeps ==
  ASSUME EngineInv, NEW h \in Handlers, Answer(h),
         step[h] \in {"service", "tmp", "rename", "answer"},
         UNCHANGED <<daemon, mem, disk, adVars, run, sets, overlapped>>,
         tmp' \in Record \cup {None}, kept' \in Record, shellWord' \in {"none", "off"},
         ~overlapped => disk = kept' /\ mem = kept',
         ~overlapped /\ shellWord' = "off" => ~disk["shell"] /\ ~mem["shell"]
  PROVE  EngineInv'
<1> USE ThreadFacts DEF adVars
<1>1. /\ step' \in [Threads -> StepNames] /\ patch' \in [Handlers -> Patches \cup {NoPatch}]
      /\ next' \in [Handlers -> Record \cup {None}] /\ renamed' \in [Handlers -> BOOLEAN]
      /\ offs' \in SUBSET Handlers
      /\ step'[h] = "idle" /\ next'[h] = None /\ offs' = offs \ {h}
      /\ \A u \in Threads \ {h} : step'[u] = step[u]
      /\ \A g \in Handlers \ {h} : next'[g] = next[g] /\ renamed'[g] = renamed[g]
  BY AnswerMoves DEF EngineInv, Parts
<1>2. Parts'
  <2>1. EngineTypes' /\ AdTypes' /\ HistoryTypes' /\ RunTypes' /\ sets' \in 0 .. MaxSets
    BY <1>1 DEF EngineInv, Parts, EngineTypes, AdTypes, HistoryTypes, RunTypes
  <2>2. Linked'
    BY <1>1 DEF EngineInv, Parts, Linked, InCall, Quiet
  <2> QED
    BY <2>1, <2>2 DEF Parts
<1>3. Holding'
  BY <1>1 DEF EngineInv, Holding
<1>4. AsksOff'
  BY <1>1 DEF EngineInv, Parts, EngineTypes, AsksOff, InCall
<1>5. ASSUME ~overlapped PROVE InOrder'
  <2>1. InOrder
    BY <1>5 DEF EngineInv
  <2>2. OneAtATime' /\ \A u \in Threads \ {h} : step[u] = "idle" /\ step'[u] = "idle"
    BY <1>1, <2>1, OneMoves DEF InOrder
  <2>3. \A t \in Threads : step'[t] = "idle"
    BY <1>1, <2>2
  <2>4. \A g \in Handlers : Progress(g)'
    BY <2>3 DEF Progress
  <2>5. Settled'
    BY <1>5 DEF Settled
  <2>6. SwitchedOff'
    BY <1>5, <2>3 DEF SwitchedOff, InCall
  <2>7. Named'
    BY <2>1, <2>2, <2>3 DEF InOrder, Named
  <2>8. \A d \in Decks : run'[d] # "off"
    BY <2>1 DEF InOrder
  <2> QED
    BY <2>2, <2>4, <2>5, <2>6, <2>7, <2>8 DEF InOrder
<1> QED
  BY <1>2, <1>3, <1>4, <1>5 DEF EngineInv

\* Until the rename, an error leaves everything as it was.
LEMMA RefusedKeeps ==
  ASSUME EngineInv, NEW h \in Handlers, Answer(h), step[h] \in {"service", "tmp", "rename"},
         UNCHANGED <<daemon, mem, disk, tmp, adVars, run, sets, history>>
  PROVE  EngineInv'
<1> USE DEF history
<1>1. /\ tmp' \in Record \cup {None} /\ kept' \in Record /\ shellWord' \in {"none", "off"}
  BY DEF EngineInv, Parts, EngineTypes, HistoryTypes
<1>2. ~overlapped => disk = kept' /\ mem = kept'
  BY DEF EngineInv, InOrder, Progress
<1>3. ~overlapped /\ shellWord' = "off" => ~disk["shell"] /\ ~mem["shell"]
  BY DEF EngineInv, InOrder, SwitchedOff
<1> QED
  BY <1>1, <1>2, <1>3, AnswerKeeps

LEMMA RespondKeeps ==
  ASSUME EngineInv, NEW h \in Handlers, Respond(h)
  PROVE  EngineInv'
<1>1. next[h] \in Record
  BY ThreadFacts DEF Respond, EngineInv, Parts, Linked, InCall, EngineTypes
<1>2. ~overlapped => disk = next[h] /\ mem = next[h]
  BY DEF Respond, EngineInv, InOrder, Progress
<1>3. /\ tmp' \in Record \cup {None} /\ kept' \in Record /\ shellWord' \in {"none", "off"}
  BY <1>1 DEF Respond, EngineInv, Parts, EngineTypes, HistoryTypes
<1>4. ~overlapped /\ shellWord' = "off" => ~disk["shell"] /\ ~mem["shell"]
  BY <1>2 DEF Respond, EngineInv, InOrder, SwitchedOff, AsksOff
<1>5. /\ Answer(h) /\ step[h] = "answer" /\ kept' = next[h]
      /\ UNCHANGED <<daemon, mem, disk, adVars, run, sets, overlapped>>
  BY DEF Respond, autoVars
<1> QED
  BY <1>2, <1>3, <1>4, <1>5, AnswerKeeps

\* A request goes a step further on the files and the memory.
LEMMA FurtherKeeps ==
  ASSUME EngineInv, NEW h \in Handlers, NEW s \in {"tmp", "rename", "memory", "take", "answer"},
         Step(h, s), step[h] \in {"service", "tmp", "rename", "memory"},
         UNCHANGED <<daemon, request, adVars, run, sets, history>>,
         mem' \in Record, disk' \in Record, tmp' \in Record \cup {None},
         ASSUME InOrder PROVE Progress(h)',
         ASSUME InOrder, shellWord = "off" PROVE ~disk'["shell"] /\ ~mem'["shell"],
         ASSUME InOrder, slot # None PROVE slot.name = mem'["name"] \/ s = "take"
  PROVE  EngineInv'
<1> USE ThreadFacts DEF adVars, history, request
<1>1. /\ step' \in [Threads -> StepNames] /\ step'[h] = s
      /\ \A u \in Threads \ {h} : step'[u] = step[u]
  <2>1. s \in StepNames
    BY DEF StepNames
  <2> QED
    BY <2>1, StepTyped DEF EngineInv, Parts
<1>2. Parts'
  <2>1. EngineTypes' /\ AdTypes' /\ HistoryTypes' /\ RunTypes' /\ sets' \in 0 .. MaxSets
    BY <1>1 DEF EngineInv, Parts, EngineTypes, AdTypes, HistoryTypes, RunTypes
  <2>2. Linked'
    BY <1>1 DEF EngineInv, Parts, Linked, InCall, Quiet
  <2> QED
    BY <2>1, <2>2 DEF Parts
<1>3. Holding'
  BY <1>1 DEF EngineInv, Holding
<1>4. AsksOff'
  BY <1>1 DEF EngineInv, Parts, EngineTypes, AsksOff, InCall
<1>5. ASSUME ~overlapped PROVE InOrder'
  <2>1. InOrder
    BY <1>5 DEF EngineInv
  <2>2. OneAtATime' /\ \A u \in Threads \ {h} : step[u] = "idle" /\ step'[u] = "idle"
    BY <1>1, <2>1, OneMoves DEF InOrder
  <2>3. \A g \in Handlers : Progress(g)'
    BY <2>1, <2>2 DEF Progress
  <2>4. Settled'
    BY <1>1 DEF Settled, InCall
  <2>5. SwitchedOff'
    BY <1>1, <2>1 DEF SwitchedOff, InOrder, InCall
  <2>6. Named'
    BY <1>1, <2>1, <2>2 DEF InOrder, Named
  <2>7. \A d \in Decks : run'[d] # "off"
    BY <2>1 DEF InOrder
  <2> QED
    BY <2>2, <2>3, <2>4, <2>5, <2>6, <2>7 DEF InOrder
<1> QED
  BY <1>2, <1>3, <1>4, <1>5 DEF EngineInv

LEMMA RegisteredKeeps ==
  ASSUME EngineInv, NEW h \in Handlers, Registered(h)
  PROVE  EngineInv'
<1>1. /\ step[h] = "service"
      /\ UNCHANGED <<daemon, mem, disk, tmp, adVars, run, sets, history>>
      /\ (Step(h, "tmp") /\ UNCHANGED request) \/ Answer(h)
  BY DEF Registered
<1>2. CASE Step(h, "tmp") /\ UNCHANGED request
  <2>1. mem' \in Record /\ disk' \in Record /\ tmp' \in Record \cup {None}
    BY <1>1 DEF EngineInv, Parts, EngineTypes
  <2>2. step'[h] = "tmp"
    BY <1>2, ThreadFacts, StepTyped DEF EngineInv, Parts, StepNames
  <2>3. ASSUME InOrder PROVE Progress(h)'
    BY <1>1, <1>2, <2>2, <2>3 DEF InOrder, Progress, request, history
  <2>4. ASSUME InOrder, shellWord = "off" PROVE ~disk'["shell"] /\ ~mem'["shell"]
    BY <1>1, <2>4 DEF InOrder, SwitchedOff
  <2>5. ASSUME InOrder, slot # None PROVE slot.name = mem'["name"]
    <3>1. \A g \in Handlers : step[g] # "take"
      BY <1>1, <2>5, ThreadFacts DEF InOrder, OneAtATime
    <3> QED
      BY <1>1, <2>5, <3>1 DEF InOrder, Named
  <2> QED
    BY <1>1, <1>2, <2>1, <2>3, <2>4, <2>5, FurtherKeeps
<1>3. CASE Answer(h)
  BY <1>1, <1>3, RefusedKeeps
<1> QED
  BY <1>1, <1>2, <1>3

\* What a request has in its hands is a record; nobody else is at "take".
LEMMA AtFiles ==
  ASSUME EngineInv, NEW h \in Handlers, step[h] \in {"tmp", "rename", "memory"}
  PROVE  /\ next[h] \in Record
         /\ mem \in Record /\ disk \in Record /\ tmp \in Record \cup {None}
         /\ InOrder /\ slot # None => slot.name = mem["name"]
         /\ InOrder /\ shellWord = "off" => ~disk["shell"] /\ ~mem["shell"] /\ ~next[h]["shell"]
         /\ \A s \in StepNames : Step(h, s) => step'[h] = s
<1> USE ThreadFacts
<1>1. next[h] \in Record
  BY DEF EngineInv, Parts, EngineTypes, Linked, InCall
<1>2. InOrder /\ slot # None => slot.name = mem["name"]
  <2>1. InOrder => \A g \in Handlers : step[g] # "take"
    BY DEF InOrder, OneAtATime
  <2> QED
    BY <2>1 DEF InOrder, Named
<1>3. InOrder /\ shellWord = "off" => ~disk["shell"] /\ ~mem["shell"] /\ ~next[h]["shell"]
  BY DEF InOrder, SwitchedOff, InCall
<1>4. \A s \in StepNames : Step(h, s) => step'[h] = s
  BY StepTyped DEF EngineInv, Parts
<1> QED
  BY <1>1, <1>2, <1>3, <1>4 DEF EngineInv, Parts, EngineTypes

LEMMA WriteTmpKeeps ==
  ASSUME EngineInv, NEW h \in Handlers, WriteTmp(h)
  PROVE  EngineInv'
<1>1. /\ step[h] = "tmp"
      /\ UNCHANGED <<daemon, mem, disk, adVars, run, sets, history>>
      /\ \/ tmp' = next[h] /\ Step(h, "rename") /\ UNCHANGED request
         \/ Answer(h) /\ UNCHANGED tmp
  BY DEF WriteTmp, autoVars
<1>2. CASE tmp' = next[h] /\ Step(h, "rename") /\ UNCHANGED request
  <2>1. step'[h] = "rename"
    BY <1>1, <1>2, AtFiles DEF StepNames
  <2>2. mem' \in Record /\ disk' \in Record /\ tmp' \in Record \cup {None}
    BY <1>1, <1>2, AtFiles
  <2>3. ASSUME InOrder PROVE Progress(h)'
    BY <1>1, <1>2, <2>1, <2>3 DEF InOrder, Progress, request, history
  <2>4. ASSUME InOrder, shellWord = "off" PROVE ~disk'["shell"] /\ ~mem'["shell"]
    BY <1>1, <2>4, AtFiles
  <2>5. ASSUME InOrder, slot # None PROVE slot.name = mem'["name"]
    BY <1>1, <2>5, AtFiles
  <2> QED
    BY <1>1, <1>2, <2>2, <2>3, <2>4, <2>5, FurtherKeeps
<1>3. CASE Answer(h) /\ UNCHANGED tmp
  BY <1>1, <1>3, RefusedKeeps
<1> QED
  BY <1>1, <1>2, <1>3

LEMMA RenameKeeps ==
  ASSUME EngineInv, NEW h \in Handlers, Rename(h)
  PROVE  EngineInv'
<1>1. /\ step[h] = "rename"
      /\ UNCHANGED <<daemon, mem, adVars, run, sets, history>>
      /\ \/ tmp # None /\ disk' = tmp /\ tmp' = None /\ Step(h, "memory") /\ UNCHANGED request
         \/ Answer(h) /\ UNCHANGED <<disk, tmp>>
  BY DEF Rename, autoVars
<1>2. CASE tmp # None /\ disk' = tmp /\ tmp' = None /\ Step(h, "memory") /\ UNCHANGED request
  <2>1. step'[h] = "memory"
    BY <1>1, <1>2, AtFiles DEF StepNames
  <2>2. mem' \in Record /\ disk' \in Record /\ tmp' \in Record \cup {None}
    BY <1>1, <1>2, AtFiles
  <2>3. InOrder => disk' = next[h]
    BY <1>1, <1>2 DEF InOrder, Progress
  <2>4. ASSUME InOrder PROVE Progress(h)'
    BY <1>1, <1>2, <2>1, <2>3, <2>4 DEF InOrder, Progress, request, history
  <2>5. ASSUME InOrder, shellWord = "off" PROVE ~disk'["shell"] /\ ~mem'["shell"]
    BY <1>1, <2>3, <2>5, AtFiles
  <2>6. ASSUME InOrder, slot # None PROVE slot.name = mem'["name"]
    BY <1>1, <2>6, AtFiles
  <2> QED
    BY <1>1, <1>2, <2>2, <2>4, <2>5, <2>6, FurtherKeeps
<1>3. CASE Answer(h) /\ UNCHANGED <<disk, tmp>>
  BY <1>1, <1>3, RefusedKeeps
<1> QED
  BY <1>1, <1>2, <1>3

LEMMA SetMemoryKeeps ==
  ASSUME EngineInv, NEW h \in Handlers, SetMemory(h)
  PROVE  EngineInv'
<1>1. /\ step[h] = "memory" /\ mem' = next[h]
      /\ UNCHANGED <<daemon, disk, tmp, request, adVars, run, sets, history>>
      /\ Step(h, IF renamed[h] THEN "take" ELSE "answer")
  BY DEF SetMemory, autoVars
<1> DEFINE s == IF renamed[h] THEN "take" ELSE "answer"
<1>2. s \in {"take", "answer"} /\ (~renamed[h] \/ s = "take")
  OBVIOUS
<1>3. Step(h, s)
  BY <1>1
<1> HIDE DEF s
<1>4. step'[h] = s
  BY <1>1, <1>2, <1>3, AtFiles DEF StepNames
<1>5. mem' \in Record /\ disk' \in Record /\ tmp' \in Record \cup {None}
  BY <1>1, AtFiles
<1>6. ASSUME InOrder PROVE Progress(h)'
  BY <1>1, <1>2, <1>4, <1>6 DEF InOrder, Progress, request
<1>7. ASSUME InOrder, shellWord = "off" PROVE ~disk'["shell"] /\ ~mem'["shell"]
  BY <1>1, <1>7, AtFiles
<1>8. ASSUME InOrder, slot # None PROVE slot.name = mem'["name"] \/ s = "take"
  BY <1>1, <1>2, <1>8, AtFiles DEF InOrder, Progress
<1> QED
  BY <1>1, <1>2, <1>3, <1>5, <1>6, <1>7, <1>8, FurtherKeeps

\* Advertising: the thread's own step and what it holds change, and the slot
\* and the network in ways that lose no advertisement.
LEMMA AdKeeps ==
  ASSUME EngineInv, NEW t \in Threads, NEW s \in StepNames \ {"service", "tmp", "rename", "memory"},
         step[t] \in {"take", "stop", "start", "replace", "retire"}, Step(t, s),
         s = "idle" => t = Main, t = Main => s \in {"idle", "start", "replace", "retire"},
         UNCHANGED <<daemon, mem, disk, tmp, request, run, sets, history>>,
         AdTypes', \A u \in Threads \ {t} : held'[u] = held[u],
         s \notin {"stop", "replace", "retire"} => held'[t] = None,
         \A ad \in live' : ad = slot' \/ \E u \in Threads : held'[u] = ad,
         ASSUME InOrder
         PROVE  /\ slot' # None => s # "stop" /\ s # "start" /\ s # "replace"
                /\ slot' # None => slot'.name = mem["name"] \/ s = "take"
                /\ s = "replace" => held'[t].name = mem["name"]
  PROVE  EngineInv'
<1> USE ThreadFacts DEF history, request
<1>1. /\ step' \in [Threads -> StepNames] /\ step'[t] = s
      /\ \A u \in Threads \ {t} : step'[u] = step[u]
  BY StepTyped DEF EngineInv, Parts
<1>2. Parts'
  <2>1. EngineTypes' /\ HistoryTypes' /\ RunTypes' /\ sets' \in 0 .. MaxSets
    BY <1>1 DEF EngineInv, Parts, EngineTypes, HistoryTypes, RunTypes
  <2>2. \A h \in Handlers : InCall(h)' <=> InCall(h)
    BY <1>1 DEF InCall
  <2>3. Linked'
    BY <2>2 DEF EngineInv, Parts, Linked, Quiet
  <2> QED
    BY <2>1, <2>3 DEF Parts
<1>3. Holding'
  <2>1. daemon' # "down"
    BY DEF EngineInv, Parts, Linked, Quiet
  <2>2. \A u \in Threads : step'[u] \notin {"stop", "replace", "retire"} => held'[u] = None
    BY <1>1 DEF EngineInv, Holding
  <2>3. step'[Main] \in {"idle", "start", "replace", "retire"}
    BY <1>1 DEF EngineInv, Holding
  <2> QED
    BY <2>1, <2>2, <2>3 DEF Holding
<1>4. AsksOff'
  BY <1>1 DEF EngineInv, Parts, EngineTypes, AsksOff, InCall
<1>5. ASSUME ~overlapped PROVE InOrder'
  <2>1. InOrder
    BY <1>5 DEF EngineInv
  <2>2. OneAtATime' /\ \A u \in Threads \ {t} : step[u] = "idle" /\ step'[u] = "idle"
    BY <1>1, <2>1, OneMoves DEF InOrder
  <2>3. \A h \in Handlers : Progress(h)'
    <3>1. \A h \in Handlers : Progress(h)
      BY <2>1 DEF InOrder
    <3>2. \A h \in Handlers \ {t} : Progress(h)'
      BY <2>2 DEF Progress
    <3>3. t \in Handlers => Progress(t)'
      BY <1>1, <3>1 DEF Progress, StepNames
    <3> QED
      BY <3>2, <3>3
  <2>4. Settled'
    BY <1>1, <2>1 DEF InOrder, Settled, InCall
  <2>5. SwitchedOff'
    BY <1>1, <2>1 DEF InOrder, SwitchedOff, InCall
  <2>6. Named'
    <3>1. \A u \in Threads \ {t} : step'[u] = "idle"
      BY <2>2
    <3>2. s = "take" => t \in Handlers
      OBVIOUS
    <3> QED
      BY <1>1, <2>1, <3>1, <3>2 DEF Named
  <2>7. \A d \in Decks : run'[d] # "off"
    BY <2>1 DEF InOrder
  <2> QED
    BY <2>2, <2>3, <2>4, <2>5, <2>6, <2>7 DEF InOrder
<1> QED
  BY <1>2, <1>3, <1>4, <1>5 DEF EngineInv

\* What a thread holds before and after an exchange.
LEMMA HeldTyped ==
  ASSUME EngineInv, NEW t \in Threads, NEW x \in Ad \cup {None}, held' = [held EXCEPT ![t] = x]
  PROVE  /\ held' \in [Threads -> Ad \cup {None}] /\ held'[t] = x
         /\ \A u \in Threads \ {t} : held'[u] = held[u]
         /\ None \notin live
  BY PatchesAssumption DEF EngineInv, Parts, AdTypes

LEMMA TakeKeeps ==
  ASSUME EngineInv, NEW t \in Threads, Take(t)
  PROVE  EngineInv'
<1>1. /\ step[t] = "take" /\ t # Main /\ held[t] = None
      /\ held' = [held EXCEPT ![t] = slot] /\ slot' = None /\ live' = live
      /\ UNCHANGED <<daemon, mem, disk, tmp, request, run, sets, history>>
  BY DEF Take, autoVars, EngineInv, Holding
<1> DEFINE s == IF slot = None THEN "start" ELSE "stop"
<1>2. /\ s \in StepNames \ {"service", "tmp", "rename", "memory"} /\ s \in {"start", "stop"}
      /\ s # "stop" => slot = None
  BY DEF StepNames
<1>3. Step(t, s)
  BY DEF Take
<1> HIDE DEF s
<1>4. slot \in Ad \cup {None}
  BY DEF EngineInv, Parts, AdTypes
<1>5. /\ held' \in [Threads -> Ad \cup {None}] /\ held'[t] = slot
      /\ \A u \in Threads \ {t} : held'[u] = held[u]
      /\ None \notin live
  BY <1>1, <1>4, HeldTyped
<1>6. AdTypes'
  BY <1>1, <1>5 DEF EngineInv, Parts, AdTypes
<1>7. \A ad \in live' : ad = slot' \/ \E u \in Threads : held'[u] = ad
  <2> SUFFICES ASSUME NEW ad \in live PROVE \E u \in Threads : held'[u] = ad
    BY <1>1
  <2>1. ad = slot \/ \E u \in Threads \ {t} : held[u] = ad
    BY <1>1, <1>5 DEF EngineInv, Holding
  <2> QED
    BY <1>5, <2>1
<1> QED
  BY <1>1, <1>2, <1>3, <1>5, <1>6, <1>7, AdKeeps

LEMMA WithdrawKeeps ==
  ASSUME EngineInv, NEW t \in Threads, Withdraw(t)
  PROVE  EngineInv'
<1>1. /\ step[t] \in {"stop", "retire"} /\ (t = Main => step[t] = "retire")
      /\ held' = [held EXCEPT ![t] = None] /\ slot' = slot /\ live' = live \ {held[t]}
      /\ UNCHANGED <<daemon, mem, disk, tmp, request, run, sets, history>>
  BY DEF Withdraw, autoVars, EngineInv, Holding
<1> DEFINE s == IF step[t] = "stop" THEN "start" ELSE Advertised(t)
<1>2. /\ s \in StepNames \ {"service", "tmp", "rename", "memory"}
      /\ s \in {"start", "idle", "answer"} /\ (s = "idle" => t = Main) /\ (t = Main => s = "idle")
      /\ s = "start" => step[t] = "stop"
  BY <1>1 DEF StepNames, Advertised
<1>3. Step(t, s)
  BY DEF Withdraw
<1> HIDE DEF s
<1>4. /\ held' \in [Threads -> Ad \cup {None}] /\ held'[t] = None
      /\ \A u \in Threads \ {t} : held'[u] = held[u]
  BY <1>1, HeldTyped
<1>5. AdTypes'
  BY <1>1, <1>4 DEF EngineInv, Parts, AdTypes
<1>6. \A ad \in live' : ad = slot' \/ \E u \in Threads : held'[u] = ad
  BY <1>1, <1>4 DEF EngineInv, Holding
<1>7. ASSUME InOrder
      PROVE  /\ slot' # None => s # "stop" /\ s # "start" /\ s # "replace"
             /\ slot' # None => slot'.name = mem["name"] \/ s = "take"
  <2>1. \A h \in Handlers : step[h] # "take"
    BY <1>1, <1>7, ThreadFacts DEF InOrder, OneAtATime
  <2> QED
    BY <1>1, <1>2, <1>7, <2>1 DEF InOrder, Named
<1> QED
  BY <1>1, <1>2, <1>3, <1>4, <1>5, <1>6, <1>7, AdKeeps

LEMMA StartAdKeeps ==
  ASSUME EngineInv, NEW t \in Threads, StartAd(t)
  PROVE  EngineInv'
<1>1. PICK n \in 1 .. MaxAds : LET ad == [n |-> n, name |-> mem["name"]] IN
        live' = live \cup {ad} /\ held' = [held EXCEPT ![t] = ad]
  BY DEF StartAd
<1> DEFINE ad == [n |-> n, name |-> mem["name"]]
<1>2. ad \in Ad /\ ad.name = mem["name"]
  BY RecordFields DEF Ad, EngineInv, Parts, EngineTypes
<1>3. live' = live \cup {ad} /\ held' = [held EXCEPT ![t] = ad]
  BY <1>1
<1> HIDE DEF ad
<1>4. /\ step[t] = "start" /\ held[t] = None /\ Step(t, "replace") /\ slot' = slot
      /\ UNCHANGED <<daemon, mem, disk, tmp, request, run, sets, history>>
  BY DEF StartAd, autoVars, EngineInv, Holding
<1>5. /\ held' \in [Threads -> Ad \cup {None}] /\ held'[t] = ad
      /\ \A u \in Threads \ {t} : held'[u] = held[u]
      /\ None \notin live
  BY <1>2, <1>3, HeldTyped
<1>6. AdTypes'
  BY <1>2, <1>3, <1>4, <1>5 DEF EngineInv, Parts, AdTypes
<1>7. \A a \in live' : a = slot' \/ \E u \in Threads : held'[u] = a
  <2> SUFFICES ASSUME NEW a \in live PROVE a = slot \/ \E u \in Threads \ {t} : held[u] = a
    BY <1>3, <1>4, <1>5
  <2> QED
    BY <1>4, <1>5 DEF EngineInv, Holding
<1>8. ASSUME InOrder PROVE slot' = None /\ held'[t].name = mem["name"]
  BY <1>2, <1>4, <1>5, <1>8 DEF InOrder, Named
<1> QED
  BY <1>4, <1>5, <1>6, <1>7, <1>8, AdKeeps DEF StepNames

LEMMA AdFailsKeeps ==
  ASSUME EngineInv, NEW t \in Threads, AdFails(t)
  PROVE  EngineInv'
<1>1. CASE t = Main
  BY <1>1, GoneKeeps DEF AdFails
<1>2. CASE t # Main
  <2>1. /\ step[t] = "start" /\ Step(t, "answer") /\ held[t] = None
        /\ UNCHANGED <<daemon, mem, disk, tmp, request, run, sets, history>>
        /\ UNCHANGED <<slot, live, held>>
    BY <1>2 DEF AdFails, autoVars, adVars, EngineInv, Holding
  <2>2. AdTypes'
    BY <2>1 DEF EngineInv, Parts, AdTypes
  <2>3. \A a \in live' : a = slot' \/ \E u \in Threads : held'[u] = a
    BY <2>1 DEF EngineInv, Holding
  <2>4. ASSUME InOrder PROVE slot' = None
    BY <2>1, <2>4 DEF InOrder, Named
  <2> QED
    BY <1>2, <2>1, <2>2, <2>3, <2>4, AdKeeps DEF StepNames
<1> QED
  BY <1>1, <1>2

LEMMA ReplaceKeeps ==
  ASSUME EngineInv, NEW t \in Threads, Replace(t)
  PROVE  EngineInv'
<1>1. /\ step[t] = "replace" /\ slot' = held[t] /\ live' = live
      /\ held' = [held EXCEPT ![t] = slot]
      /\ UNCHANGED <<daemon, mem, disk, tmp, request, run, sets, history>>
  BY DEF Replace, autoVars
<1> DEFINE s == IF slot = None THEN Advertised(t) ELSE "retire"
<1>2. /\ s \in StepNames \ {"service", "tmp", "rename", "memory"}
      /\ s \in {"idle", "answer", "retire"} /\ (s = "idle" => t = Main)
      /\ (t = Main => s \in {"idle", "retire"})
      /\ s # "retire" => slot = None
  BY DEF StepNames, Advertised
<1>3. Step(t, s)
  BY DEF Replace
<1> HIDE DEF s
<1>4. slot \in Ad \cup {None} /\ held[t] \in Ad \cup {None}
  BY DEF EngineInv, Parts, AdTypes
<1>5. /\ held' \in [Threads -> Ad \cup {None}] /\ held'[t] = slot
      /\ \A u \in Threads \ {t} : held'[u] = held[u]
  BY <1>1, <1>4, HeldTyped
<1>6. AdTypes'
  BY <1>1, <1>4, <1>5 DEF EngineInv, Parts, AdTypes
<1>7. \A a \in live' : a = slot' \/ \E u \in Threads : held'[u] = a
  <2> SUFFICES ASSUME NEW a \in live PROVE a = held[t] \/ \E u \in Threads : held'[u] = a
    BY <1>1
  <2>1. a = slot \/ a = held[t] \/ \E u \in Threads \ {t} : held[u] = a
    BY DEF EngineInv, Holding
  <2> QED
    BY <1>5, <2>1
<1>8. ASSUME InOrder PROVE slot'.name = mem["name"]
  BY <1>1, <1>8 DEF InOrder, Named
<1> QED
  BY <1>1, <1>2, <1>3, <1>5, <1>6, <1>7, <1>8, AdKeeps

\* A press is let through only while the memory says so, and it does not say
\* so after "off" was answered.
LEMMA RunKeeps ==
  ASSUME EngineInv, NEW d \in Decks, RunAction(d) \/ Spawn(d)
  PROVE  EngineInv'
<1>1. UNCHANGED <<daemon, engineVars, adVars, sets, history>>
  BY DEF RunAction, Spawn, autoVars
<1>2. RunTypes' /\ (InOrder => \A e \in Decks : run'[e] # "off")
  <2>1. CASE RunAction(d)
    <3>1. InOrder => shellWord = "none"
      BY <2>1 DEF RunAction, InOrder, SwitchedOff, EngineInv, Parts, HistoryTypes
    <3> QED
      BY <2>1, <3>1 DEF RunAction, EngineInv, Parts, RunTypes, HistoryTypes, InOrder
  <2>2. CASE Spawn(d)
    BY <2>2 DEF Spawn, EngineInv, Parts, RunTypes, InOrder
  <2> QED
    BY <2>1, <2>2
<1> QED
  BY <1>1, <1>2 DEF EngineInv, Parts, EngineTypes, AdTypes, HistoryTypes, Linked, InCall, Quiet,
     Holding, AsksOff, InOrder, OneAtATime, Progress, Settled, SwitchedOff, Named,
     engineVars, adVars, history, request

LEMMA CommandKeeps ==
  ASSUME EngineInv, Command
  PROVE  EngineInv'
<1>1. /\ UNCHANGED <<daemon, engineVars, adVars, run, history>> /\ sets' \in 0 .. MaxSets
  BY SettingsAssumption DEF Command, EngineInv, Parts
<1> QED
  BY <1>1 DEF EngineInv, Parts, EngineTypes, AdTypes, HistoryTypes, RunTypes, Linked, InCall, Quiet,
     Holding, AsksOff, InOrder, OneAtATime, Progress, Settled, SwitchedOff, Named,
     engineVars, adVars, history, request

-----------------------------------------------------------------------------
(* The invariant of the specification.                                     *)

LEMMA InvParts == SettingsInv <=> AutoTypes /\ Registering /\ EngineInv
  BY TypeParts DEF SettingsInv, EngineInv, Parts

LEMMA InitInv == Init => SettingsInv
<1> SUFFICES ASSUME Init PROVE AutoTypes /\ Registering /\ EngineInv
  BY InvParts
<1> USE ThreadFacts
<1>1. AutoTypes
  BY DEF Init, AutoStartInit, AutoTypes, SvcSteps, Platforms
<1>2. Registering
  BY DEF Init, AutoStartInit, Registering, UnderWay, AnsweredTakesEffect
<1>3. /\ step \in [Threads -> StepNames] /\ step[Main] = "start" /\ daemon = "manual"
      /\ \A h \in Handlers : step[h] = "idle" /\ next[h] = None
      /\ \A t \in Threads : held[t] = None
  BY DEF Init, AutoStartInit, StepNames
<1>4. EngineTypes
  BY <1>3, DefaultRecord DEF Init, EngineTypes
<1>5. AdTypes /\ HistoryTypes /\ RunTypes /\ sets \in 0 .. MaxSets
  <2>1. AdTypes /\ RunTypes
    BY DEF Init, AdTypes, RunTypes
  <2>2. HistoryTypes
    BY DefaultRecord DEF Init, HistoryTypes
  <2>3. sets \in 0 .. MaxSets
    BY SettingsAssumption DEF Init
  <2> QED
    BY <2>1, <2>2, <2>3
<1>6. Linked
  BY <1>3 DEF Linked, InCall
<1>7. Holding /\ AsksOff
  BY <1>3 DEF Init, Holding, AsksOff
<1>8. InOrder
  BY <1>3 DEF Init, InOrder, OneAtATime, Progress, Settled, SwitchedOff, Named
<1> QED
  BY <1>1, <1>2, <1>4, <1>5, <1>6, <1>7, <1>8 DEF EngineInv, Parts

\* The calls of the daemon's handlers die with it.
LEMMA DiesKeep ==
  ASSUME AutoTypes, Registering, daemon' = "down",
         svc' = [c \in Callers |-> IF c \in Handlers THEN "idle" ELSE svc[c]],
         UNCHANGED <<plat, unit, enabled, mixed, word>>
  PROVE  AutoTypes' /\ Registering'
<1>1. svc' \in [Callers -> SvcSteps] /\ \A c \in Callers : svc'[c] = svc[c] \/ svc'[c] = "idle"
  BY DEF AutoTypes, SvcSteps
<1> QED
  BY <1>1, EndsKeep

LEMMA SvcEnds ==
  ASSUME AutoTypes, Registering, NEW c \in Callers, Goto(c, "idle"),
         UNCHANGED <<plat, unit, enabled, daemon, mixed, word>>
  PROVE  AutoTypes' /\ Registering'
<1>1. svc' \in [Callers -> SvcSteps] /\ \A d \in Callers : svc'[d] = svc[d] \/ svc'[d] = "idle"
  BY DEF Goto, AutoTypes, SvcSteps
<1>2. daemon' \in {"down", "manual", "managed"}
  BY DEF AutoTypes
<1> QED
  BY <1>1, <1>2, EndsKeep

LEMMA AutoStays ==
  ASSUME AutoTypes, Registering, UNCHANGED autoVars
  PROVE  AutoTypes' /\ Registering'
  BY DEF AutoTypes, Registering, UnderWay, AnsweredTakesEffect, StartsAtLogon, autoVars

LEMMA NextInv == SettingsInv /\ [Next]_vars => SettingsInv'
<1> SUFFICES ASSUME AutoTypes, Registering, EngineInv, [Next]_vars
             PROVE  AutoTypes' /\ Registering' /\ EngineInv'
  <2>1. SettingsInv' <=> (AutoTypes /\ Registering /\ EngineInv)'
    BY InvParts, PTL
  <2> QED
    BY InvParts, <2>1
<1> USE ThreadFacts
<1>1. CASE Launch
  <2>1. /\ daemon = "down" /\ daemon' \in {"manual", "managed"} /\ DaemonUp
        /\ UNCHANGED <<plat, unit, enabled, svc, mixed, word>>
    BY <1>1 DEF Launch
  <2>2. EngineInv'
    BY <2>1, UpKeeps
  <2>3. daemon' \in {"down", "manual", "managed"} /\ svc' \in [Callers -> SvcSteps]
    BY <2>1 DEF AutoTypes
  <2>4. AutoTypes' /\ Registering'
    BY <2>1, <2>3, EndsKeep
  <2> QED
    BY <2>2, <2>4
<1>2. CASE Die
  BY <1>2, GoneKeeps, DiesKeep DEF Die
<1>3. CASE Command
  <2>1. PICK s \in {InstallFrom, UninstallFrom} : Begin(Cli, s)
    BY <1>3 DEF Command
  <2>2. Cli \in Callers /\ UNCHANGED <<plat, unit, enabled, daemon>>
    BY <1>3 DEF Command, Callers
  <2>3. AutoTypes' /\ Registering'
    BY <2>1, <2>2, BeginKeeps
  <2> QED
    BY <1>3, <2>3, CommandKeeps
<1>4. CASE Printed
  <2>1. /\ Cli \in Callers /\ Goto(Cli, "idle")
        /\ UNCHANGED <<plat, unit, enabled, daemon, mixed, word>>
        /\ UNCHANGED <<engineVars, adVars, run, sets, history>>
    BY <1>4 DEF Printed, Callers
  <2>2. AutoTypes' /\ Registering'
    BY <2>1, SvcEnds
  <2> QED
    BY <2>1, <2>2, EngineStays
<1>5. ASSUME NEW c \in Callers, Service(c)
      PROVE  AutoTypes' /\ Registering' /\ EngineInv'
  <2>1. ServiceStep(c)
    BY <1>5 DEF Service
  <2>2. AutoTypes' /\ Registering'
    BY <2>1, ServiceTypes, ServiceKeeps
  <2>3. EngineInv'
    <3>1. CASE daemon # "down" /\ daemon' = "down"
      BY <1>5, <3>1, GoneKeeps DEF Service
    <3>2. CASE daemon = "down" /\ daemon' # "down"
      BY <1>5, <3>2, UpKeeps DEF Service
    <3>3. CASE daemon' = "down" <=> daemon = "down"
      BY <1>5, <3>3, EngineStays DEF Service
    <3> QED
      BY <3>1, <3>2, <3>3
  <2> QED
    BY <2>2, <2>3
<1>6. ASSUME NEW h \in Handlers, NEW p \in Patches, Receive(h, p)
      PROVE  AutoTypes' /\ Registering' /\ EngineInv'
  <2>1. EngineInv'
    BY <1>6, ReceiveKeeps
  <2>2. CASE UNCHANGED <<svc, mixed, word>>
    BY <1>6, <2>1, <2>2, AutoStays DEF Receive, autoVars
  <2>3. CASE ~UNCHANGED <<svc, mixed, word>>
    <3>1. PICK s \in {InstallFrom, UninstallFrom} : Begin(h, s)
      BY <1>6, <2>3 DEF Receive
    <3> QED
      BY <1>6, <2>1, <3>1, BeginKeeps DEF Receive
  <2> QED
    BY <2>1, <2>2, <2>3
<1>7. ASSUME NEW h \in Handlers, Registered(h)
      PROVE  AutoTypes' /\ Registering' /\ EngineInv'
  BY <1>7, RegisteredKeeps, SvcEnds DEF Registered
<1>8. ASSUME NEW h \in Handlers, WriteTmp(h) \/ Rename(h) \/ SetMemory(h) \/ Respond(h)
      PROVE  AutoTypes' /\ Registering' /\ EngineInv'
  <2>1. UNCHANGED autoVars
    BY <1>8 DEF WriteTmp, Rename, SetMemory, Respond
  <2> QED
    BY <1>8, <2>1, AutoStays, WriteTmpKeeps, RenameKeeps, SetMemoryKeeps, RespondKeeps
<1>9. ASSUME NEW t \in Threads, Take(t) \/ Withdraw(t) \/ StartAd(t) \/ Replace(t)
      PROVE  AutoTypes' /\ Registering' /\ EngineInv'
  <2>1. UNCHANGED autoVars
    BY <1>9 DEF Take, Withdraw, StartAd, Replace
  <2> QED
    BY <1>9, <2>1, AutoStays, TakeKeeps, WithdrawKeeps, StartAdKeeps, ReplaceKeeps
<1>10. ASSUME NEW t \in Threads, AdFails(t)
       PROVE  AutoTypes' /\ Registering' /\ EngineInv'
  <2>1. CASE t = Main
    BY <1>10, <2>1, AdFailsKeeps, DiesKeep DEF AdFails
  <2>2. CASE t # Main
    BY <1>10, <2>2, AdFailsKeeps, AutoStays DEF AdFails
  <2> QED
    BY <2>1, <2>2
<1>11. ASSUME NEW d \in Decks, RunAction(d) \/ Spawn(d)
       PROVE  AutoTypes' /\ Registering' /\ EngineInv'
  BY <1>11, RunKeeps, AutoStays DEF RunAction, Spawn
<1>12. CASE UNCHANGED vars
  BY <1>12, AutoStays, EngineStays DEF vars, autoVars
<1> QED
  BY <1>1, <1>2, <1>3, <1>4, <1>5, <1>6, <1>7, <1>8, <1>9, <1>10, <1>11, <1>12
     DEF Next, SettingsSet, Advertising

LEMMA SettingsInvariant == Spec => []SettingsInv
  BY InitInv, NextInv, PTL DEF Spec

\* The type invariant, of engine.rs, service.rs and discovery.rs.
THEOREM TypeCorrect == Spec => []TypeOK
<1>1. SettingsInv => TypeOK
  BY DEF SettingsInv
<1> QED
  BY SettingsInvariant, <1>1, PTL

\* An install or uninstall that ended well, with no other in between, has
\* decided what the platform does at the next logon (platform::install and
\* platform::uninstall), whatever failed quietly on the way.
THEOREM TakesEffectCorrect == Spec => []AnsweredTakesEffect
<1>1. SettingsInv => AnsweredTakesEffect
  BY DEF SettingsInv, Registering
<1> QED
  BY SettingsInvariant, <1>1, PTL

\* While requests come one at a time, the settings answered last are those in
\* memory and on disk (Engine::apply_settings), after any failure or restart.
THEOREM KeptCorrect == Spec => []AnsweredSettingsKept
<1>1. SettingsInv => AnsweredSettingsKept
  BY DEF SettingsInv, InOrder, Settled, AnsweredSettingsKept
<1> QED
  BY SettingsInvariant, <1>1, PTL

\* No action.run gets past Engine::run_action that was sent after "off" was
\* answered and before "on" is asked for.
THEOREM OffCorrect == Spec => []OffIsOff
<1>1. SettingsInv => OffIsOff
  BY DEF SettingsInv, InOrder, OffIsOff
<1> QED
  BY SettingsInvariant, <1>1, PTL

\* No interleaving of the startup's advertisement and any number of renames
\* (Engine::advertise, stop_advertising) forgets one on the network.
THEOREM NoOrphanCorrect == Spec => []NoOrphanAdvert
<1>1. ASSUME SettingsInv, Quiet PROVE live \subseteq {slot}
  <2>1. None \notin live
    BY <1>1, PatchesAssumption, TypeParts DEF SettingsInv, AdTypes
  <2> QED
    BY <1>1, <2>1 DEF SettingsInv, Holding, Quiet
<1>2. ASSUME SettingsInv, Quiet, ~overlapped, slot # None PROVE slot.name = mem["name"]
  BY <1>2, ThreadFacts DEF SettingsInv, InOrder, Named, Quiet
<1>3. SettingsInv => NoOrphanAdvert
  BY <1>1, <1>2 DEF NoOrphanAdvert
<1> QED
  BY SettingsInvariant, <1>3, PTL

-----------------------------------------------------------------------------
(* One handler alone, beside the daemon's main thread.                     *)

\* What is written is what the one request under way asks for.
Written(h) ==
    /\ step[h] = "rename" => tmp = next[h]
    /\ step[h] = "memory" => disk = next[h]
    /\ AtAds(h) \/ step[h] = "answer" => disk = next[h] /\ mem = next[h]

Sole == (\A h \in Handlers : Written(h)) /\ SwitchedOff /\ AbsentKeyLeftAlone

\* A step of the main thread, of a service command or of a deck.
LEMMA SoleStays ==
  ASSUME Sole, UNCHANGED <<mem, disk, tmp, next, shellWord>>,
         \A h \in Handlers : step'[h] = step[h],
         \A d \in Decks : run'[d] # "off"
  PROVE  Sole'
  BY DEF Sole, Written, SwitchedOff, AbsentKeyLeftAlone, AtAds, InCall

\* The daemon is gone: the settings are those on disk, which are off if the word is.
LEMMA SoleGone ==
  ASSUME Sole, Parts, DaemonGone
  PROVE  Sole'
<1>1. \A t \in Threads : step'[t] = "idle"
  BY GoneTypes DEF Parts
<1>2. \A h \in Handlers : step'[h] = "idle"
  BY <1>1, ThreadFacts
<1>3. \A h \in Handlers : Written(h)'
  BY <1>2 DEF Written, AtAds
<1>4. SwitchedOff'
  BY <1>2 DEF DaemonGone, Sole, SwitchedOff, InCall
<1>5. AbsentKeyLeftAlone'
  BY DEF DaemonGone, AbsentKeyLeftAlone
<1> QED
  BY <1>3, <1>4, <1>5 DEF Sole

\* It comes up with the settings on disk.
LEMMA SoleUp ==
  ASSUME Sole, Parts, daemon = "down", DaemonUp
  PROVE  Sole'
<1>1. \A h \in Handlers : step[h] = "idle" /\ step'[h] = "idle"
  BY UpTypes, ThreadFacts DEF Parts, Linked, Quiet
<1>2. UNCHANGED <<disk, next, run, shellWord>> /\ mem' = disk
  BY DEF DaemonUp, request, history
<1> QED
  BY <1>1, <1>2 DEF Sole, Written, SwitchedOff, AbsentKeyLeftAlone, AtAds, InCall

\* The request under way goes a step further.
LEMMA SoleFurther ==
  ASSUME Sole, AsksOff, Parts, \A h, g \in Handlers : h = g,
         NEW h \in Handlers, InCall(h), run' = run, shellWord' = shellWord,
         Written(h)', step'[h] = "idle" \/ next'[h] = next[h],
         disk' \in {disk, next[h]}, mem' \in {mem, next[h]}
  PROVE  Sole'
<1>1. \A g \in Handlers : g = h
  OBVIOUS
<1>2. ASSUME shellWord = "off"
      PROVE  ~disk'["shell"] /\ ~mem'["shell"] /\ (step'[h] # "idle" => ~next'[h]["shell"])
  BY <1>2 DEF Sole, SwitchedOff
<1>3. SwitchedOff'
  BY <1>1, <1>2 DEF SwitchedOff, InCall
<1> QED
  BY <1>1, <1>3 DEF Sole, AbsentKeyLeftAlone

\* A step of the one handler.
LEMMA SoleSet ==
  ASSUME Sole, AsksOff, Parts, \A h, g \in Handlers : h = g,
         NEW h \in Handlers, SettingsSet(h)
  PROVE  Sole'
<1> USE ThreadFacts
<1>0. \A g \in Handlers : g = h
  OBVIOUS
<1>1. ASSUME NEW p \in Patches, Receive(h, p) PROVE Sole'
  <2>1. /\ step' \in [Threads -> StepNames] /\ step'[h] \in {"tmp", "service"}
    BY <1>1, StepTyped DEF Receive, Parts, StepNames
  <2>2. /\ next'[h] = Patched(mem, p) /\ UNCHANGED <<mem, disk, run>>
        /\ shellWord' = IF AsksOn(p) THEN "none" ELSE shellWord
    BY <1>1 DEF Receive, Parts, EngineTypes
  <2>3. Patched(mem, p)["shell"] = IF "shell" \in DOMAIN p THEN p["shell"] ELSE mem["shell"]
    BY PatchedRecord DEF Parts, EngineTypes
  <2>4. Written(h)'
    BY <2>1 DEF Written, AtAds
  <2>5. SwitchedOff'
    BY <1>0, <2>2, <2>3 DEF Sole, SwitchedOff, AsksOn
  <2> QED
    BY <1>0, <2>2, <2>4, <2>5 DEF Sole, AbsentKeyLeftAlone
\* A request that ends without having been done.
<1>2. ASSUME Answer(h), InCall(h), UNCHANGED <<disk, mem, run, shellWord>> PROVE Sole'
  <2>1. step'[h] = "idle"
    BY <1>2, AnswerMoves DEF Parts
  <2>2. Written(h)'
    BY <2>1 DEF Written, AtAds
  <2> QED
    BY <1>2, <2>1, <2>2, SoleFurther
<1>3. ASSUME Registered(h) PROVE Sole'
  <2>1. /\ step[h] = "service" /\ UNCHANGED <<mem, disk, run, shellWord>>
        /\ Answer(h) \/ (Step(h, "tmp") /\ UNCHANGED request)
    BY <1>3 DEF Registered, history
  <2>2. ASSUME Step(h, "tmp"), UNCHANGED request PROVE Sole'
    <3>1. step'[h] = "tmp" /\ next' = next
      BY <2>2, StepTyped DEF Parts, StepNames, request
    <3>2. Written(h)'
      BY <3>1 DEF Written, AtAds
    <3> QED
      BY <2>1, <3>1, <3>2, SoleFurther DEF InCall
  <2> QED
    BY <1>2, <2>1, <2>2 DEF InCall
<1>4. ASSUME WriteTmp(h) PROVE Sole'
  <2>1. /\ step[h] = "tmp" /\ UNCHANGED <<mem, disk, run, shellWord>>
        /\ Answer(h) \/ (Step(h, "rename") /\ tmp' = next[h] /\ UNCHANGED request)
    BY <1>4 DEF WriteTmp, history
  <2>2. ASSUME Step(h, "rename"), tmp' = next[h], UNCHANGED request PROVE Sole'
    <3>1. step'[h] = "rename" /\ next' = next
      BY <2>2, StepTyped DEF Parts, StepNames, request
    <3>2. Written(h)'
      BY <2>2, <3>1 DEF Written, AtAds
    <3> QED
      BY <2>1, <3>1, <3>2, SoleFurther DEF InCall
  <2> QED
    BY <1>2, <2>1, <2>2 DEF InCall
<1>5. ASSUME Rename(h) PROVE Sole'
  <2>1. /\ step[h] = "rename" /\ UNCHANGED <<mem, run, shellWord>>
        /\ \/ Answer(h) /\ disk' = disk
           \/ Step(h, "memory") /\ disk' = tmp /\ UNCHANGED request
    BY <1>5 DEF Rename, history
  <2>2. tmp = next[h]
    BY <2>1 DEF Sole, Written
  <2>3. ASSUME Step(h, "memory"), disk' = tmp, UNCHANGED request PROVE Sole'
    <3>1. step'[h] = "memory" /\ next' = next
      BY <2>3, StepTyped DEF Parts, StepNames, request
    <3>2. Written(h)'
      BY <2>2, <2>3, <3>1 DEF Written, AtAds
    <3> QED
      BY <2>1, <2>2, <2>3, <3>1, <3>2, SoleFurther DEF InCall
  <2> QED
    BY <1>2, <2>1, <2>3 DEF InCall
<1>6. ASSUME SetMemory(h) PROVE Sole'
  <2>1. /\ step[h] = "memory" /\ mem' = next[h] /\ disk = next[h]
        /\ UNCHANGED <<disk, next, run, shellWord>>
    BY <1>6 DEF SetMemory, history, request, Sole, Written
  <2>2. step'[h] \in {"take", "answer"}
    BY <1>6, StepTyped DEF SetMemory, Parts, StepNames
  <2>3. Written(h)'
    BY <2>1, <2>2 DEF Written
  <2> QED
    BY <2>1, <2>3, SoleFurther DEF InCall
<1>7. ASSUME Respond(h) PROVE Sole'
  <2>1. /\ step[h] = "answer" /\ Answer(h) /\ UNCHANGED <<mem, disk, run>>
        /\ shellWord' = IF h \in offs THEN "off" ELSE shellWord
    BY <1>7 DEF Respond
  <2>2. step'[h] = "idle"
    BY <2>1, AnswerMoves DEF Parts
  <2>3. disk = next[h] /\ mem = next[h]
    BY <2>1 DEF Sole, Written
  <2>4. h \in offs => ~disk["shell"] /\ ~mem["shell"]
    BY <2>3 DEF AsksOff
  <2>5. Written(h)'
    BY <2>2 DEF Written, AtAds
  <2>6. SwitchedOff'
    BY <1>0, <2>1, <2>2, <2>4 DEF Sole, SwitchedOff, InCall
  <2> QED
    BY <1>0, <2>1, <2>5, <2>6 DEF Sole, AbsentKeyLeftAlone
<1> QED
  BY <1>1, <1>3, <1>4, <1>5, <1>6, <1>7 DEF SettingsSet

\* A step at the advertisements, of the handler or of the main thread.
LEMMA SoleAd ==
  ASSUME Sole, AsksOff, Parts, \A h, g \in Handlers : h = g,
         NEW t \in Threads, Advertising(t)
  PROVE  Sole'
<1> USE ThreadFacts
<1>1. CASE AdFails(t) /\ t = Main
  BY <1>1, SoleGone DEF AdFails
<1>2. CASE ~(AdFails(t) /\ t = Main)
  <2>1. /\ AtAds(t) /\ UNCHANGED <<mem, disk, tmp, next, run, shellWord>>
        /\ \E s \in {"start", "stop", "replace", "retire", "answer", "idle"} :
             Step(t, s) /\ (t # Main => s # "idle")
    BY <1>2 DEF Advertising, Take, Withdraw, StartAd, AdFails, Replace, Advertised, AtAds,
                request, history, adVars
  <2>2. /\ \A u \in Threads \ {t} : step'[u] = step[u]
        /\ t # Main => AtAds(t)' \/ step'[t] = "answer"
    BY <2>1, StepTyped DEF Parts, StepNames, AtAds
  <2>3. CASE t = Main
    <3>1. \A h \in Handlers : step'[h] = step[h]
      BY <2>2, <2>3
    <3> QED
      BY <2>1, <3>1, SoleStays DEF Sole, AbsentKeyLeftAlone
  <2>4. CASE t # Main
    <3>1. t \in Handlers /\ InCall(t)
      BY <2>1, <2>4 DEF AtAds, InCall
    <3>2. Written(t)'
      BY <2>1, <2>2, <2>4, <3>1 DEF Sole, Written, AtAds
    <3> QED
      BY <2>1, <3>1, <3>2, SoleFurther
  <2> QED
    BY <2>3, <2>4
<1> QED
  BY <1>1, <1>2

\* Every step of a daemon with one handler.
LEMMA NextSole ==
  ASSUME SettingsInv, Sole, \A h, g \in Handlers : h = g, [Next]_vars
  PROVE  Sole'
<1> USE ThreadFacts
<1>0. Parts /\ AsksOff
  BY InvParts DEF EngineInv
<1>1. CASE Launch
  BY <1>0, <1>1, SoleUp DEF Launch
<1>2. CASE Die
  BY <1>0, <1>2, SoleGone DEF Die
<1>3. ASSUME UNCHANGED <<engineVars, run, history>> PROVE Sole'
  BY <1>3, SoleStays DEF engineVars, request, history, Sole, AbsentKeyLeftAlone
<1>4. CASE Command \/ Printed \/ UNCHANGED vars
  BY <1>3, <1>4 DEF Command, Printed, vars
<1>5. ASSUME NEW c \in Callers, Service(c) PROVE Sole'
  BY <1>0, <1>3, <1>5, SoleUp, SoleGone DEF Service
<1>6. ASSUME NEW h \in Handlers, SettingsSet(h) PROVE Sole'
  BY <1>0, <1>6, SoleSet
<1>7. ASSUME NEW t \in Threads, Advertising(t) PROVE Sole'
  BY <1>0, <1>7, SoleAd
<1>8. ASSUME NEW d \in Decks, RunAction(d) PROVE Sole'
  <2>1. UNCHANGED <<engineVars, history>> /\ run' = [run EXCEPT ![d] = shellWord] /\ mem["shell"]
    BY <1>8 DEF RunAction
  <2>2. shellWord # "off"
    BY <2>1 DEF Sole, SwitchedOff
  <2>3. \A e \in Decks : run'[e] # "off"
    BY <1>0, <2>1, <2>2 DEF Parts, RunTypes, Sole, AbsentKeyLeftAlone
  <2> QED
    BY <2>1, <2>3, SoleStays DEF engineVars, request, history
<1>9. ASSUME NEW d \in Decks, Spawn(d) PROVE Sole'
  <2>1. UNCHANGED <<engineVars, history>> /\ run' = [run EXCEPT ![d] = "idle"]
    BY <1>9 DEF Spawn
  <2>2. \A e \in Decks : run'[e] # "off"
    BY <1>0, <2>1 DEF Parts, RunTypes, Sole, AbsentKeyLeftAlone
  <2> QED
    BY <2>1, <2>2, SoleStays DEF engineVars, request, history
<1> QED
  BY <1>1, <1>2, <1>4, <1>5, <1>6, <1>7, <1>8, <1>9 DEF Next

\* With one handler "an absent key is left alone" is right, whatever fails, however
\* often the daemon is restarted, and also while its startup advertises: only a
\* second settings.set can give shell actions back (Engine::apply_settings).
THEOREM AbsentCorrect ==
  ASSUME \A h, g \in Handlers : h = g
  PROVE  Spec => []AbsentKeyLeftAlone
<1>1. Init => Sole
  <2> SUFFICES ASSUME Init PROVE Sole
    OBVIOUS
  <2>1. \A h \in Handlers : step[h] = "idle"
    BY ThreadFacts DEF Init
  <2> QED
    BY <2>1 DEF Init, Sole, Written, AtAds, SwitchedOff, AbsentKeyLeftAlone
<1>2. SettingsInv /\ Sole /\ [Next]_vars => Sole'
  BY NextSole
<1>3. Sole => AbsentKeyLeftAlone
  BY DEF Sole
<1> QED
  BY <1>1, <1>2, <1>3, InitInv, NextInv, PTL DEF Spec

=============================================================================
