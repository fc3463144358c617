------------------------------ MODULE Registry ------------------------------
(***************************************************************************)
(* The paired-device registry (engine registry.rs) and the file it writes  *)
(* through to, devices.json (config.rs write_atomic).                      *)
(*                                                                         *)
(* Every operation runs under the engine's registry mutex (engine.rs       *)
(* with_registry), so it is one step: the change to the map in memory and  *)
(* the write of the whole map to disk.  The write may fail - a full disk, a *)
(* permission, an antivirus lock - and the map in memory has then already  *)
(* changed.  Names, platforms and timestamps are abstracted away: what the *)
(* properties tell apart is which devices are registered.                  *)
(***************************************************************************)
EXTENDS Naturals, FiniteSets

CONSTANTS Device,        \* Device identifiers, each derived from one public key.
          WriteOutcomes  \* What a write of devices.json may do: BOOLEAN, or {TRUE}
                         \* on a host whose disk never fails.

ASSUME WriteOutcomesAssumption == WriteOutcomes \subseteq BOOLEAN

VARIABLES devices,     \* Registry::file.devices: the devices registered in memory.
          disk         \* The devices the last successful write left in devices.json.

registryVars == <<devices, disk>>

RegistryTypeOK ==
  /\ devices \in SUBSET Device
  /\ disk \in SUBSET Device

\* Mutant of Persist: the file is truncated before it is written.
Persist_InPlace(contents, ok) == disk' = IF ok THEN contents ELSE {}

\* write_atomic either installs the new contents or, failing, leaves the old.
Persist(contents, ok) == disk' = IF ok THEN contents ELSE disk

\* Registry::load at start-up: a missing file is an empty registry.
RegistryInit ==
  /\ devices \in SUBSET Device
  /\ disk = devices

\* Registry::load after a restart of the daemon.
Reload ==
  /\ devices' = disk
  /\ UNCHANGED disk

\* Registry::insert: pairing a device twice refreshes its entry.
Insert(d, ok) ==
  /\ devices' = devices \cup {d}
  /\ Persist(devices', ok)

\* Registry::revoke: nothing is written when the device was not registered.
Revoke(d, ok) ==
  /\ devices' = devices \ {d}
  /\ IF d \in devices THEN Persist(devices', ok) ELSE UNCHANGED disk

\* Mutant of Touch: an upsert instead of an update.
Touch_Upsert(d, ok) ==
  /\ devices' = devices \cup {d}
  /\ Persist(devices', ok)

\* Registry::touch: updates last_seen and writes the whole registry.
Touch(d, ok) ==
  /\ UNCHANGED devices
  /\ IF d \in devices THEN Persist(devices, ok) ELSE UNCHANGED disk

=============================================================================
