---------------------------- MODULE Settings ----------------------------
(***************************************************************************)
(* The host's settings while the daemon runs: settings.set with its side   *)
(* effects in their order (auto-start, the file, the memory, the mDNS      *)
(* record), the advertisement the daemon starts with, action.run, which    *)
(* asks the settings before it spawns anything, and `muxdeckd service`     *)
(* beside it.                                                              *)
(*                                                                         *)
(* A handler runs on a thread of its own: it reads the settings under the  *)
(* lock, and writes all of them back much later.                           *)
(***************************************************************************)
EXTENDS AutoStart, Naturals

CONSTANTS Names,        \* host names
          FirstName,    \* the machine's own
          Patches,      \* what settings.set may ask for: some of the keys
          Decks,        \* sockets that send action.run
          Main,         \* run_daemon's own thread
          None,         \* no file, no advertisement
          MaxSets,      \* bound: settings.set requests and service commands
          MaxAds        \* bound: advertisements at one time

ASSUME SettingsAssumption ==
    /\ FirstName \in Names
    /\ Main \notin Callers
    /\ MaxSets \in Nat /\ MaxAds \in Nat

Ad == [n : 1 .. MaxAds, name : Names]
Keys == {"shell", "name", "autostart"}
Value == [shell |-> BOOLEAN, name |-> Names, autostart |-> BOOLEAN]
Record == {s \in [Keys -> BOOLEAN \cup Names] : \A k \in Keys : s[k] \in Value[k]}
ASSUME PatchesAssumption ==
    /\ None \notin Record /\ None \notin Ad
    /\ \A p \in Patches : \A k \in DOMAIN p : k \in Keys /\ p[k] \in Value[k]

Default == [shell |-> FALSE, name |-> FirstName, autostart |-> TRUE]
Patched(s, patch) == [k \in Keys |-> IF k \in DOMAIN patch THEN patch[k] ELSE s[k]]

NoPatch == <<>>
AsksOn(p) == "shell" \in DOMAIN p /\ p["shell"]

Threads == Handlers \cup {Main}

VARIABLES
    mem, disk,      \* the settings in memory and in settings.json
    tmp,            \* settings.tmp, one for all handlers
    step,           \* where each handler is, and the daemon's main thread
    patch, next,    \* a handler's request, and the record made from it
    renamed,        \* a handler's request changes the host name
    slot,           \* Engine::advertisement
    live,           \* the advertisements that are on the network
    held,           \* the one a thread has in its hands
    run,            \* an action.run that passed its check: the word it was sent under
    sets,           \* requests so far
    kept,           \* history: the settings answered last
    shellWord,      \* history: "off" was answered, and "on" not asked for since
    offs,           \* history: handlers that ask for "off", no other for "on"
    overlapped      \* history: two threads were at the settings at once

request == <<patch, next, renamed, offs>>
engineVars == <<mem, disk, tmp, step, request>>
adVars == <<slot, live, held>>
history == <<kept, shellWord, overlapped>>
vars == <<autoVars, engineVars, adVars, run, sets, history>>

InCall(h) == step[h] # "idle"
AtAds(t) == step[t] \in {"take", "stop", "start", "replace", "retire"}

\* Before anything is registered, the first daemon has been started by hand
\* and has loaded the defaults.
Init ==
    /\ AutoStartInit
    /\ mem = Default /\ disk = Default /\ tmp = None
    /\ step = [t \in Threads |-> IF t = Main THEN "start" ELSE "idle"]
    /\ patch = [h \in Handlers |-> NoPatch] /\ next = [h \in Handlers |-> None]
    /\ renamed = [h \in Handlers |-> FALSE]
    /\ slot = None /\ live = {} /\ held = [t \in Threads |-> None]
    /\ run = [d \in Decks |-> "idle"]
    /\ sets = 0
    /\ kept = Default /\ shellWord = "none" /\ offs = {} /\ overlapped = FALSE

Step(t, s) == step' = [step EXCEPT ![t] = s]

-----------------------------------------------------------------------------
\* The daemon's death: its threads, its memory and its advertisement are gone.
DaemonGone ==
    /\ step' = [t \in Threads |-> "idle"]
    /\ patch' = [h \in Handlers |-> NoPatch] /\ next' = [h \in Handlers |-> None]
    /\ renamed' = [h \in Handlers |-> FALSE]
    /\ slot' = None /\ live' = {} /\ held' = [t \in Threads |-> None]
    /\ run' = [d \in Decks |-> "idle"]
    /\ kept' = IF overlapped \/ \E h \in Handlers : InCall(h) THEN disk ELSE kept
    /\ shellWord' = IF overlapped THEN "none" ELSE shellWord
    /\ offs' = {} /\ overlapped' = FALSE
    /\ mem' = disk      \* nobody reads it until it is loaded again
    /\ UNCHANGED <<disk, tmp, sets>>

\* Engine::load and run_daemon: the settings are read, the socket is served,
\* and the main thread goes on to advertise.
DaemonUp ==
    /\ mem' = disk
    /\ Step(Main, "start")
    /\ UNCHANGED <<disk, tmp, request, adVars, run, sets, history>>

Launch ==
    /\ daemon = "down"
    /\ \/ daemon' = "manual"
       \/ StartsAtLogon /\ daemon' = "managed"
    /\ DaemonUp
    /\ UNCHANGED <<plat, unit, enabled, svc, mixed, word>>

Die ==
    /\ daemon # "down"
    /\ daemon' = "down"
    /\ svc' = [c \in Callers |-> IF c \in Handlers THEN "idle" ELSE svc[c]]
    /\ DaemonGone
    /\ UNCHANGED <<plat, unit, enabled, mixed, word>>

\* A step of install or uninstall, which may start the daemon or stop it.
Service(c) ==
    /\ ServiceStep(c)
    /\ IF daemon # "down" /\ daemon' = "down" THEN DaemonGone
       ELSE IF daemon = "down" /\ daemon' # "down" THEN DaemonUp
       ELSE UNCHANGED <<engineVars, adVars, run, sets, history>>

\* muxdeckd service install and uninstall; what they end with is printed.
Command ==
    /\ sets < MaxSets /\ sets' = sets + 1
    /\ Begin(Cli, InstallFrom) \/ Begin(Cli, UninstallFrom)
    /\ UNCHANGED <<plat, unit, enabled, daemon, engineVars, adVars, run, history>>

Printed ==
    /\ svc[Cli] \in {"ok", "failed"}
    /\ Goto(Cli, "idle")
    /\ UNCHANGED <<plat, unit, enabled, daemon, mixed, word, engineVars, adVars, run, sets, history>>

-----------------------------------------------------------------------------
\* settings.set: apply_settings reads the settings, makes the next record, and
\* applies auto-start before anything is written.
Receive(h, p) ==
    /\ daemon # "down" /\ ~InCall(h)
    /\ sets < MaxSets /\ sets' = sets + 1
    /\ LET n == Patched(mem, p) IN
       /\ patch' = [patch EXCEPT ![h] = p]
       /\ next' = [next EXCEPT ![h] = n]
       /\ renamed' = [renamed EXCEPT ![h] = n["name"] # mem["name"]]
       /\ IF n["autostart"] = mem["autostart"]
          THEN Step(h, "tmp") /\ UNCHANGED <<svc, mixed, word>>
          ELSE Step(h, "service") /\ Begin(h, IF n["autostart"] THEN InstallFrom ELSE UninstallFrom)
    /\ overlapped' = (overlapped \/ \E t \in Threads \ {h} : step[t] # "idle")
    /\ shellWord' = IF AsksOn(p) THEN "none" ELSE shellWord
    /\ offs' = IF AsksOn(p) THEN {}
               ELSE IF "shell" \in DOMAIN p /\ ~\E g \in Handlers : AsksOn(patch[g])
               THEN offs \cup {h} ELSE offs
    /\ UNCHANGED <<plat, unit, enabled, daemon, mem, disk, tmp, adVars, run, kept>>

\* The request ends; an error leaves the settings as they were.
Answer(h) ==
    /\ Step(h, "idle")
    /\ patch' = [patch EXCEPT ![h] = NoPatch] /\ next' = [next EXCEPT ![h] = None]
    /\ renamed' = [renamed EXCEPT ![h] = FALSE]
    /\ offs' = offs \ {h}

Registered(h) ==
    /\ step[h] = "service" /\ svc[h] \in {"ok", "failed"}
    /\ Goto(h, "idle")
    /\ IF svc[h] = "ok" THEN Step(h, "tmp") /\ UNCHANGED request
                        ELSE Answer(h)
    /\ UNCHANGED <<plat, unit, enabled, daemon, mixed, word, mem, disk, tmp, adVars, run, sets, history>>

\* save_settings: the temporary file, then the rename.
WriteTmp_MemoryFirst(h) ==
    /\ step[h] = "tmp"
    /\ mem' = next[h]
    /\ \/ tmp' = next[h] /\ Step(h, "rename") /\ UNCHANGED request
       \/ Answer(h) /\ UNCHANGED tmp
    /\ UNCHANGED <<autoVars, disk, adVars, run, sets, history>>

WriteTmp(h) ==
    /\ step[h] = "tmp"
    /\ \/ tmp' = next[h] /\ Step(h, "rename") /\ UNCHANGED request
       \/ Answer(h) /\ UNCHANGED tmp
    /\ UNCHANGED <<autoVars, mem, disk, adVars, run, sets, history>>

Rename(h) ==
    /\ step[h] = "rename"
    /\ \/ /\ tmp # None
          /\ disk' = tmp /\ tmp' = None
          /\ Step(h, "memory") /\ UNCHANGED request
       \/ Answer(h) /\ UNCHANGED <<disk, tmp>>
    /\ UNCHANGED <<autoVars, mem, adVars, run, sets, history>>

\* update_settings goes on to the memory; a new name is advertised anew.
SetMemory(h) ==
    /\ step[h] = "memory"
    /\ mem' = next[h]
    /\ Step(h, IF renamed[h] THEN "take" ELSE "answer")
    /\ UNCHANGED <<autoVars, disk, tmp, request, adVars, run, sets, history>>

Respond(h) ==
    /\ step[h] = "answer"
    /\ Answer(h)
    /\ kept' = next[h]
    /\ shellWord' = IF h \in offs THEN "off" ELSE shellWord
    /\ UNCHANGED <<autoVars, mem, disk, tmp, adVars, run, sets, overlapped>>

-----------------------------------------------------------------------------
Advertised_Unanswered(t) == "idle"

\* Where a thread goes when its advertisement is done with.
Advertised(t) == IF t = Main THEN "idle" ELSE "answer"

\* readvertise: stop_advertising takes it out of the slot, then withdraws it.
Take(t) ==
    /\ step[t] = "take"
    /\ held' = [held EXCEPT ![t] = slot] /\ slot' = None
    /\ Step(t, IF slot = None THEN "start" ELSE "stop")
    /\ UNCHANGED <<autoVars, mem, disk, tmp, request, live, run, sets, history>>

Withdraw(t) ==
    /\ step[t] \in {"stop", "retire"}
    /\ live' = live \ {held[t]}
    /\ held' = [held EXCEPT ![t] = None]
    /\ Step(t, IF step[t] = "stop" THEN "start" ELSE Advertised(t))
    /\ UNCHANGED <<autoVars, mem, disk, tmp, request, slot, run, sets, history>>

\* advertise: the name is read and the record registered, without the lock.
StartAd(t) ==
    /\ step[t] = "start"
    /\ \E n \in 1 .. MaxAds :
        /\ \A ad \in live : ad.n # n
        /\ \A m \in 1 .. n - 1 : \E ad \in live : ad.n = m
        /\ LET ad == [n |-> n, name |-> mem["name"]] IN
           /\ live' = live \cup {ad}
           /\ held' = [held EXCEPT ![t] = ad]
    /\ Step(t, "replace")
    /\ UNCHANGED <<autoVars, mem, disk, tmp, request, slot, run, sets, history>>

\* It failed: settings.set logs it, and run_daemon ends.
AdFails(t) ==
    /\ step[t] = "start"
    /\ IF t = Main
       THEN /\ daemon' = "down" /\ DaemonGone
            /\ svc' = [c \in Callers |-> IF c \in Handlers THEN "idle" ELSE svc[c]]
            /\ UNCHANGED <<plat, unit, enabled, mixed, word>>
       ELSE /\ Step(t, "answer")
            /\ UNCHANGED <<autoVars, mem, disk, tmp, request, adVars, run, sets, history>>

\* The new one goes into the slot under the lock; the previous one is stopped.
Replace_Forgets(t) ==
    /\ step[t] = "replace"
    /\ slot' = held[t]
    /\ held' = [held EXCEPT ![t] = None]
    /\ Step(t, Advertised(t))
    /\ UNCHANGED <<autoVars, mem, disk, tmp, request, live, run, sets, history>>

Replace(t) ==
    /\ step[t] = "replace"
    /\ slot' = held[t]
    /\ held' = [held EXCEPT ![t] = slot]
    /\ Step(t, IF slot = None THEN Advertised(t) ELSE "retire")
    /\ UNCHANGED <<autoVars, mem, disk, tmp, request, live, run, sets, history>>

-----------------------------------------------------------------------------
\* action.run: run_action asks the settings, and spawns; a run that is refused
\* or that finds no such action changes nothing.
RunAction_NoSwitch(d) ==
    /\ daemon # "down" /\ run[d] = "idle"
    /\ run' = [run EXCEPT ![d] = shellWord]
    /\ UNCHANGED <<autoVars, engineVars, adVars, sets, history>>

RunAction(d) ==
    /\ daemon # "down" /\ run[d] = "idle"
    /\ mem["shell"]
    /\ run' = [run EXCEPT ![d] = shellWord]
    /\ UNCHANGED <<autoVars, engineVars, adVars, sets, history>>

\* actions::spawn returns as soon as the process exists, or failed to.
Spawn(d) ==
    /\ run[d] # "idle"
    /\ run' = [run EXCEPT ![d] = "idle"]
    /\ UNCHANGED <<autoVars, engineVars, adVars, sets, history>>

SettingsSet(h) ==
    \/ \E p \in Patches : Receive(h, p)
    \/ Registered(h) \/ WriteTmp(h) \/ Rename(h) \/ SetMemory(h) \/ Respond(h)

Advertising(t) == Take(t) \/ Withdraw(t) \/ StartAd(t) \/ AdFails(t) \/ Replace(t)

Next ==
    \/ Launch \/ Die \/ Command \/ Printed
    \/ \E c \in Callers : Service(c)
    \/ \E h \in Handlers : SettingsSet(h)
    \/ \E t \in Threads : Advertising(t)
    \/ \E d \in Decks : RunAction(d) \/ Spawn(d)

Spec == Init /\ [][Next]_vars

-----------------------------------------------------------------------------
Quiet == \A t \in Threads : step[t] = "idle"

\* Type invariant, of engine.rs, service.rs and discovery.rs.
TypeOK ==
    /\ plat \in Platforms
    /\ unit \in BOOLEAN /\ enabled \in BOOLEAN
    /\ daemon \in {"down", "manual", "managed"}
    /\ svc \in [Callers -> {"idle", "create", "unload", "write", "load", "reload", "enable",
                            "rule", "look", "delete", "disable", "remove", "ok", "failed"}]
    /\ mixed \in BOOLEAN /\ word \in {"none", "on", "off"}
    /\ mem \in Record /\ disk \in Record /\ tmp \in Record \cup {None}
    /\ step \in [Threads -> {"idle", "service", "tmp", "rename", "memory", "answer",
                             "take", "stop", "start", "replace", "retire"}]
    /\ patch \in [Handlers -> Patches \cup {NoPatch}]
    /\ next \in [Handlers -> Record \cup {None}]
    /\ renamed \in [Handlers -> BOOLEAN]
    /\ slot \in Ad \cup {None} /\ live \in SUBSET Ad
    /\ held \in [Threads -> Ad \cup {None}]
    /\ run \in [Decks -> {"idle", "none", "off"}]
    /\ sets \in 0 .. MaxSets
    /\ kept \in Record /\ shellWord \in {"none", "off"}
    /\ offs \in SUBSET Handlers /\ overlapped \in BOOLEAN
    /\ \A h \in Handlers : InCall(h) <=> next[h] # None
    /\ daemon = "down" => Quiet

\* The settings that were answered last are the settings, in memory and after
\* any restart: a request that fails half way, at the service, at the file or
\* at mDNS, either changed everything or nothing.  Of Engine::apply_settings.
AnsweredSettingsKept ==
    ~overlapped /\ (\A h \in Handlers : ~InCall(h))
      => disk = kept /\ (daemon # "down" => mem = kept)

\* An action.run that was sent after "off" was answered is not let through,
\* whatever was restarted or failed since, until a request asks for "on".
\* Of Engine::run_action.
OffIsOff == ~overlapped => \A d \in Decks : run[d] # "off"

\* When nobody is at it, at most the advertisement in the slot is on the
\* network, under the name the host has; none is forgotten there, even where
\* the startup and a request replace each other's.  Of Engine::advertise.
NoOrphanAdvert ==
    daemon # "down" /\ Quiet
      => /\ live \subseteq {slot}
         /\ ~overlapped /\ slot # None => slot.name = mem["name"]

\* "an absent key is left alone" (docs/PROTOCOL.md:482): shell actions that
\* were switched off stay off until a request names them.
AbsentKeyLeftAlone == \A d \in Decks : run[d] # "off"
=============================================================================
