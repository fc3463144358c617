---------------------------- MODULE AutoStart ----------------------------
(***************************************************************************)
(* Starting the daemon at logon: service.rs on its three platforms.        *)
(*                                                                         *)
(* Install and uninstall are a series of files written and of platform     *)
(* tools run to their end, each of which may fail and some of which may    *)
(* fail quietly.  Callers are handlers inside the daemon (settings.set)    *)
(* and a process of the command line.  On macOS and Linux the tool that    *)
(* takes the registration away also stops the daemon it started, and with  *)
(* it the handler that called the tool.                                    *)
(***************************************************************************)
CONSTANTS Handlers,     \* settings.set requests, in the daemon
          Cli           \* `muxdeckd service ...`, a process of its own

ASSUME AutoStartAssumption == Cli \notin Handlers

Platforms == {"windows", "macos", "linux"}
Callers == Handlers \cup {Cli}

VARIABLES
    plat,       \* the platform of this build
    unit,       \* the task, the plist or the unit file exists
    enabled,    \* launchd's and systemd's word on it: not disabled, enabled
    daemon,     \* "down", "manual", or "managed": started by the platform
    svc,        \* where each caller is in install or uninstall
    mixed,      \* history: calls of two callers have overlapped
    word        \* history: what the last call promised, until the next begins

autoVars == <<plat, unit, enabled, daemon, svc, mixed, word>>

\* What the platform finds at the next logon.
StartsAtLogon == unit /\ (plat = "windows" \/ enabled)

AutoStartInit ==
    /\ plat \in Platforms
    /\ unit = FALSE /\ enabled = FALSE
    /\ daemon = "manual"
    /\ svc = [c \in Callers |-> "idle"]
    /\ mixed = FALSE /\ word = "none"

UnderWay(c) == svc[c] \notin {"idle", "ok", "failed"}

At(c, step) == svc[c] = step
Goto(c, step) == svc' = [svc EXCEPT ![c] = step]

\* What is promised when a call ends well: nothing, if another got in between.
Done(c, promise) ==
    /\ Goto(c, "ok")
    /\ word' = IF mixed THEN "none" ELSE promise
    /\ UNCHANGED mixed
Failed(c) == Goto(c, "failed") /\ UNCHANGED <<word, mixed>>
Continue(c, step) == Goto(c, step) /\ UNCHANGED <<word, mixed>>

\* The platform starts the daemon, unless one has the port.
Up == daemon' = IF daemon = "down" THEN "managed" ELSE daemon
\* The platform stops what it started.
StopsManaged == daemon = "managed"

Begin(c, step) ==
    /\ svc[c] = "idle"
    /\ Goto(c, step)
    /\ mixed' = \E d \in Callers \ {c} : UnderWay(d)
    /\ word' = "none"

\* platform::install: its first step.
InstallFrom == IF plat = "windows" THEN "create"
               ELSE IF plat = "macos" THEN "unload" ELSE "write"
\* platform::uninstall: the file is looked for, the task is asked for.
UninstallFrom == "look"

-----------------------------------------------------------------------------
\* Windows: the definition is written and schtasks creates or replaces the task.
Create(c) ==
    /\ At(c, "create")
    /\ \/ unit' = TRUE /\ Done(c, "on")
       \/ UNCHANGED unit /\ Failed(c)
    /\ UNCHANGED <<enabled, daemon>>

\* macOS: any previous copy is unloaded first, for launchd caches the job; the
\* outcome is ignored.  `-w` also marks the label as disabled.
Unload(c) ==
    /\ At(c, "unload")
    /\ \/ UNCHANGED <<enabled, daemon>> /\ Continue(c, "write")
       \/ /\ unit /\ enabled' = FALSE
          /\ IF StopsManaged
             THEN /\ daemon' = "down" /\ UNCHANGED <<word, mixed>>
                  /\ svc' = [d \in Callers |-> IF d \in Handlers THEN "idle"
                                               ELSE IF d = c THEN "write" ELSE svc[d]]
             ELSE Continue(c, "write") /\ UNCHANGED daemon
    /\ UNCHANGED unit

\* macOS and Linux: the plist or the unit file, temporary file and rename.
WriteUnit(c) ==
    /\ At(c, "write")
    /\ \/ unit' = TRUE /\ Continue(c, IF plat = "macos" THEN "load" ELSE "reload")
       \/ UNCHANGED unit /\ Failed(c)
    /\ UNCHANGED <<enabled, daemon>>

\* macOS: launchctl load -w; RunAtLoad starts the daemon.
Load(c) ==
    /\ At(c, "load")
    /\ \/ unit /\ enabled' = TRUE /\ Up /\ Done(c, "on")
       \/ UNCHANGED <<enabled, daemon>> /\ Failed(c)
    /\ UNCHANGED unit

\* Linux: daemon-reload, so that enable finds the new file.
Reload(c) ==
    /\ At(c, "reload")
    /\ Continue(c, "enable") \/ Failed(c)
    /\ UNCHANGED <<unit, enabled, daemon>>

\* Linux: enable --now, which fails too when only the start did.
Enable_AnyExit(c) ==
    /\ At(c, "enable")
    /\ \/ unit /\ enabled' = TRUE /\ Up /\ Continue(c, "rule")
       \/ UNCHANGED <<enabled, daemon>> /\ Continue(c, "rule")
    /\ UNCHANGED unit

Enable(c) ==
    /\ At(c, "enable")
    /\ \/ unit /\ enabled' = TRUE /\ Up /\ Continue(c, "rule")
       \/ unit /\ enabled' = TRUE /\ UNCHANGED daemon /\ Failed(c)
       \/ UNCHANGED <<enabled, daemon>> /\ Failed(c)
    /\ UNCHANGED unit

\* Linux: the udev rule is left for the user to install.
WriteRule(c) ==
    /\ At(c, "rule")
    /\ Done(c, "on") \/ Failed(c)
    /\ UNCHANGED <<unit, enabled, daemon>>

-----------------------------------------------------------------------------
\* service::status: the panel offers Install, Start or nothing.
Status == IF ~unit THEN "not installed"
          ELSE IF daemon = "managed" THEN "running" ELSE "stopped"

\* Uninstall: nothing to remove is a success.  A query that schtasks answers
\* with a failure is taken for "no such task": the model assumes that it is.
Look(c) ==
    /\ At(c, "look")
    /\ IF Status # "not installed"
       THEN Continue(c, IF plat = "windows" THEN "delete" ELSE "disable")
       ELSE Done(c, "off")
    /\ UNCHANGED <<unit, enabled, daemon>>

\* Windows: the query could not be run; and schtasks /Delete.
QueryFails(c) ==
    /\ At(c, "look") /\ plat = "windows"
    /\ Failed(c)
    /\ UNCHANGED <<unit, enabled, daemon>>

Delete(c) ==
    /\ At(c, "delete")
    /\ \/ unit' = FALSE /\ Done(c, "off")
       \/ UNCHANGED unit /\ Failed(c)
    /\ UNCHANGED <<enabled, daemon>>

\* macOS and Linux: unload -w, disable --now; the outcome is ignored.
Disable(c) ==
    /\ At(c, "disable")
    /\ \/ UNCHANGED <<enabled, daemon>> /\ Continue(c, "remove")
       \/ /\ unit /\ enabled' = FALSE
          /\ IF StopsManaged
             THEN /\ daemon' = "down" /\ UNCHANGED <<word, mixed>>
                  /\ svc' = [d \in Callers |-> IF d \in Handlers THEN "idle"
                                               ELSE IF d = c THEN "remove" ELSE svc[d]]
             ELSE Continue(c, "remove") /\ UNCHANGED daemon
    /\ UNCHANGED unit

\* The file decides whether the daemon comes back at the next logon.
RemoveUnit(c) ==
    /\ At(c, "remove")
    /\ \/ unit /\ unit' = FALSE /\ Done(c, "off")
       \/ UNCHANGED unit /\ Failed(c)
    /\ UNCHANGED <<enabled, daemon>>

ServiceStep(c) ==
    /\ \/ Create(c) \/ Unload(c) \/ WriteUnit(c) \/ Load(c) \/ Reload(c)
       \/ Enable(c) \/ WriteRule(c)
       \/ Look(c) \/ QueryFails(c) \/ Delete(c) \/ Disable(c) \/ RemoveUnit(c)
    /\ UNCHANGED plat

-----------------------------------------------------------------------------
\* A call that was answered, and that no other call overlapped or followed,
\* has decided what happens at the next logon: what fails quietly does not
\* matter to the outcome, and what matters does not fail quietly.
\* Of service.rs:639, "the file is the part that decides".
AnsweredTakesEffect ==
    /\ word = "on"  => StartsAtLogon
    /\ word = "off" => ~StartsAtLogon
=============================================================================
