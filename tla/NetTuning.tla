------------------------------- MODULE NetTuning -------------------------------
(***************************************************************************)
(* scripts/tune-network.sh: applies kernel network settings at run time    *)
(* and in a file read at boot, after a snapshot of the values it replaces, *)
(* and restores them with --revert.  The script may be interrupted between *)
(* any two of its commands, and the host may reboot.                       *)
(*                                                                         *)
(* A value is known by who set it.  All keys are taken to exist and to be  *)
(* readable; "sysctl -p" failing on some of them, which ends the script by *)
(* "set -e", is an interruption of the load.  A boot file cut short by an  *)
(* interruption counts as whole.  One copy of the script runs at a time.   *)
(***************************************************************************)

CONSTANTS
  Keys,         \* KEYS, the settings it changes
  DefaultKeys   \* those a revert without a snapshot sets

ASSUME TuningAssumption == DefaultKeys \subseteq Keys

\* The host's own value, the script's, or the conservative default.
Values == {"own", "tuned", "default"}

Empty == [k \in {} |-> "own"]

VARIABLES
  pc,         \* the command the script is at
  todo,       \* the keys its loop has left
  runtime,    \* runtime[k]: the value in force
  persisted,  \* SYSCTL_FILE exists
  backup,     \* BACKUP_FILE exists
  saved,      \* its entries, a function on the keys it has
  route,      \* the default route has the enlarged initial windows
  before,     \* history: the values in force when the snapshot was begun
  whole,      \* history: no snapshot was interrupted
  warned      \* history: the keys some revert could not restore

tuningVars == <<pc, todo, runtime, persisted, backup, saved, route, before, whole, warned>>

TuningTypeOK ==
  /\ pc \in {"idle", "snapshot", "persist", "load", "route", "restore",
             "default", "unroute"}
  /\ todo \subseteq Keys
  /\ runtime \in [Keys -> Values] /\ before \in [Keys -> Values]
  /\ persisted \in BOOLEAN /\ backup \in BOOLEAN /\ route \in BOOLEAN
  /\ DOMAIN saved \subseteq Keys
  /\ \A k \in DOMAIN saved : saved[k] \in Values
  /\ whole \in BOOLEAN /\ warned \subseteq Keys

TuningInit ==
  /\ pc = "idle" /\ todo = {}
  /\ runtime = [k \in Keys |-> "own"] /\ before = runtime
  /\ persisted = FALSE /\ backup = FALSE /\ saved = Empty /\ route = FALSE
  /\ whole = TRUE /\ warned = {}

-----------------------------------------------------------------------------

\* Faulty variants, named after what they stand in for; the runs refute a script
\* built from any one of them.

\* Without a backup file an empty one is made, and filled key by key.
BeginSnapshot ==
  /\ pc = "idle" /\ ~backup
  /\ pc' = "snapshot"
  /\ backup' = TRUE /\ saved' = Empty
  /\ todo' = Keys
  /\ before' = runtime
  /\ UNCHANGED <<runtime, persisted, route, whole, warned>>

KeepSnapshotFaulty ==  \* faulty: an existing snapshot is taken anew
  /\ pc = "idle" /\ backup
  /\ pc' = "snapshot"
  /\ saved' = Empty
  /\ todo' = Keys
  /\ UNCHANGED <<runtime, persisted, backup, route, before, whole, warned>>

\* "Snapshot already exists; keeping original values."
KeepSnapshot ==
  /\ pc = "idle" /\ backup
  /\ pc' = "persist"
  /\ UNCHANGED <<todo, runtime, persisted, backup, saved, route, before, whole, warned>>

SaveKey(k) ==
  /\ pc = "snapshot" /\ k \in todo
  /\ saved' = [x \in DOMAIN saved \cup {k} |-> IF x = k THEN runtime[k] ELSE saved[x]]
  /\ todo' = todo \ {k}
  /\ UNCHANGED <<pc, runtime, persisted, backup, route, before, whole, warned>>

SnapshotDone ==
  /\ pc = "snapshot" /\ todo = {}
  /\ pc' = "persist"
  /\ UNCHANGED <<todo, runtime, persisted, backup, saved, route, before, whole, warned>>

Persist ==
  /\ pc = "persist"
  /\ persisted' = TRUE
  /\ pc' = "load" /\ todo' = Keys
  /\ UNCHANGED <<runtime, backup, saved, route, before, whole, warned>>

LoadKey(k) ==
  /\ pc = "load" /\ k \in todo
  /\ runtime' = [runtime EXCEPT ![k] = "tuned"]
  /\ todo' = todo \ {k}
  /\ UNCHANGED <<pc, persisted, backup, saved, route, before, whole, warned>>

LoadDone ==
  /\ pc = "load" /\ todo = {}
  /\ pc' = "route"
  /\ UNCHANGED <<todo, runtime, persisted, backup, saved, route, before, whole, warned>>

\* A failure to change the route is "non-fatal".
TuneRoute ==
  /\ pc = "route"
  /\ route' \in {route, TRUE}
  /\ pc' = "idle"
  /\ UNCHANGED <<todo, runtime, persisted, backup, saved, before, whole, warned>>

-----------------------------------------------------------------------------

RevertFaulty ==  \* faulty: the boot file is left in place
  /\ pc = "idle"
  /\ pc' = IF backup THEN "restore" ELSE "default"
  /\ todo' = IF backup THEN DOMAIN saved ELSE DefaultKeys
  /\ UNCHANGED <<runtime, persisted, backup, saved, route, before, whole, warned>>

\* --revert: the boot file goes first.
Revert ==
  /\ pc = "idle"
  /\ persisted' = FALSE
  /\ pc' = IF backup THEN "restore" ELSE "default"
  /\ todo' = IF backup THEN DOMAIN saved ELSE DefaultKeys
  /\ UNCHANGED <<runtime, backup, saved, route, before, whole, warned>>

\* An entry that cannot be restored is warned of and passed over.
RestoreKey(k) ==
  /\ pc = "restore" /\ k \in todo
  /\ \/ runtime' = [runtime EXCEPT ![k] = saved[k]] /\ UNCHANGED warned
     \/ warned' = warned \cup {k} /\ UNCHANGED runtime
  /\ todo' = todo \ {k}
  /\ UNCHANGED <<pc, persisted, backup, saved, route, before, whole>>

RestoreDoneFaulty ==  \* faulty: the backup is removed before the loop ends
  /\ pc = "restore"
  /\ backup' = FALSE /\ saved' = Empty
  /\ pc' = "unroute"
  /\ UNCHANGED <<todo, runtime, persisted, route, before, whole, warned>>

\* The backup file is removed once every entry has been tried.
RestoreDone ==
  /\ pc = "restore" /\ todo = {}
  /\ backup' = FALSE /\ saved' = Empty
  /\ pc' = "unroute"
  /\ UNCHANGED <<todo, runtime, persisted, route, before, whole, warned>>

\* "No snapshot found; restoring conservative defaults."
DefaultKey(k) ==
  /\ pc = "default" /\ k \in todo
  /\ runtime' \in {runtime, [runtime EXCEPT ![k] = "default"]}
  /\ todo' = todo \ {k}
  /\ UNCHANGED <<pc, persisted, backup, saved, route, before, whole, warned>>

DefaultDone ==
  /\ pc = "default" /\ todo = {}
  /\ pc' = "unroute"
  /\ UNCHANGED <<todo, runtime, persisted, backup, saved, route, before, whole, warned>>

ResetRoute ==
  /\ pc = "unroute"
  /\ route' \in {route, FALSE}
  /\ pc' = "idle"
  /\ UNCHANGED <<todo, runtime, persisted, backup, saved, before, whole, warned>>

-----------------------------------------------------------------------------

\* The snapshot is interrupted when some key is not in the file yet.
StillWhole == whole /\ ~(pc = "snapshot" /\ todo # {})

Interrupt ==
  /\ pc # "idle"
  /\ pc' = "idle" /\ todo' = {}
  /\ whole' = StillWhole
  /\ UNCHANGED <<runtime, persisted, backup, saved, route, before, warned>>

\* An orderly reboot: the values of the boot file come into force, if there is
\* one, and files stay as they are.
Reboot ==
  /\ pc' = "idle" /\ todo' = {}
  /\ runtime' = [k \in Keys |-> IF persisted THEN "tuned" ELSE "own"]
  /\ route' = FALSE
  /\ whole' = StillWhole
  /\ UNCHANGED <<persisted, backup, saved, before, warned>>

Apply ==
  \/ BeginSnapshot \/ KeepSnapshot \/ (\E k \in Keys : SaveKey(k)) \/ SnapshotDone
  \/ Persist \/ (\E k \in Keys : LoadKey(k)) \/ LoadDone \/ TuneRoute

Undo ==
  \/ Revert \/ (\E k \in Keys : RestoreKey(k)) \/ RestoreDone
  \/ (\E k \in Keys : DefaultKey(k)) \/ DefaultDone \/ ResetRoute

TuningNext == Apply \/ Undo \/ Interrupt \/ Reboot

TuningSpec == TuningInit /\ [][TuningNext]_tuningVars

-----------------------------------------------------------------------------

\* The commands between two files being made or removed.
Located ==
  /\ pc \in {"snapshot", "persist", "load", "route", "restore"} => backup
  /\ pc = "default" => ~backup
  /\ pc \in {"restore", "default", "unroute"} => ~persisted

\* No setting is changed while the snapshot is made; what is not in it is to do.
SnapshotUnderWay ==
  pc = "snapshot" => runtime = before /\ Keys = todo \cup DOMAIN saved

SnapshotComplete == whole /\ backup /\ pc # "snapshot" => DOMAIN saved = Keys

NoEntriesWithoutFile == ~backup => saved = Empty

\* Without a backup the settings are the host's own; with one, it knows them.
OwnKnown ==
  \A k \in Keys \ warned :
    whole => IF backup THEN before[k] # "tuned" ELSE runtime[k] # "tuned"

\* The restoring loop leaves behind it what it found in the backup.
RestoredSoFar ==
  pc = "restore" =>
    /\ todo \subseteq DOMAIN saved
    /\ \A k \in DOMAIN saved \ (todo \cup warned) : runtime[k] = saved[k]

(***************************************************************************)
(* Settings that come into force at every boot can always be reverted: no  *)
(* interruption or reboot leaves the boot file without a backup file.      *)
(***************************************************************************)
BootHasBackup == persisted => backup

(***************************************************************************)
(* "keeping original values": whatever sequence of applies, reverts,       *)
(* interruptions and reboots, the snapshot holds values of the time it was *)
(* begun, and never takes a value of the script for the host's - unless a  *)
(* snapshot was interrupted or the key could not be restored.              *)
(***************************************************************************)
SnapshotGenuine ==
  \A k \in DOMAIN saved :
    /\ saved[k] = before[k]
    /\ whole /\ k \notin warned => saved[k] # "tuned"

\* The inductive invariant behind the theorems of NetworkProofs.
TuningIInv ==
  /\ TuningTypeOK
  /\ Located
  /\ SnapshotUnderWay
  /\ SnapshotComplete
  /\ NoEntriesWithoutFile
  /\ OwnKnown
  /\ RestoredSoFar
  /\ BootHasBackup
  /\ SnapshotGenuine

(***************************************************************************)
(* A revert that runs to its end restores every key it did not warn of,    *)
(* also when earlier runs were interrupted - except within a snapshot.     *)
(***************************************************************************)
Restored == \A k \in Keys \ warned : runtime[k] = before[k]
RevertRestores ==
  [][pc = "restore" /\ pc' = "unroute" /\ whole => Restored]_tuningVars

(***************************************************************************)
(* The header of the script: "Before changing anything it SNAPSHOTS the    *)
(* current values, so --revert restores precisely what was there": no       *)
(* value of the script is left where the host had its own.                 *)
(***************************************************************************)
RevertPrecise ==
  [][pc = "restore" /\ pc' = "unroute" =>
       \A k \in Keys \ warned : before[k] # "tuned" => runtime[k] # "tuned"]_tuningVars

=============================================================================
