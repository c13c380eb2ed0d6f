----------------------------- MODULE Installer ------------------------------
(***************************************************************************)
(* src/scripts/install.sh and src/scripts/uninstall.sh on a live system,   *)
(* step by step.  A script may stop between any two commands: a check or a *)
(* command fails (set -e), it is interrupted, or the machine loses power.  *)
(* It is then run again, or the other one is run, perhaps with another     *)
(* version.  Between the scripts the administrator edits the configuration *)
(* and starts and stops the service; systemd restarts it (Restart=always). *)
(*                                                                         *)
(* A file is its version, Absent, or Partial while it is being copied.     *)
(* Ownership, modes, directories and the checks of paths are left out: a   *)
(* check that fails ends the script, which Die covers.                     *)
(***************************************************************************)
EXTENDS Integers

CONSTANT Versions  \* versions of the binary and its unit

ASSUME VersionsAssumption == Versions \subseteq Nat \ {0}

Absent  == 0
Partial == -1

VARIABLES
  binary, unit,      \* the installed files
  config, password,  \* the files under /etc/rpi-health-mqtt
  accounts,          \* which of "group", "video" and "user" exist
  loaded,            \* the unit systemd has loaded
  enabled,           \* the unit is started at boot
  active,            \* the version of the running process, or Absent
  pc,                \* "none", or the next command of the running script
  artifact,          \* the version being installed, or Absent when removing
  purge,             \* --purge-config was given
  outcome            \* of the last script: "none", "failed", "installed", "removed"

files   == <<binary, unit, config, password>>
systemd == <<loaded, enabled, active>>
script  == <<artifact, purge>>
vars    == <<files, accounts, systemd, pc, script, outcome>>

Init ==
  /\ binary = Absent /\ unit = Absent
  /\ config = "absent" /\ password = "absent"
  /\ accounts \in SUBSET {"video"}
  /\ loaded = Absent /\ enabled = FALSE /\ active = Absent
  /\ pc = "none" /\ artifact = Absent /\ purge = FALSE /\ outcome = "none"

At(label, next) == pc = label /\ pc' = next

Ends(label, result) == pc = label /\ pc' = "none" /\ outcome' = result

-----------------------------------------------------------------------------
(***************************************************************************)
(* install.sh.                                                             *)
(***************************************************************************)
Install(version) ==
  /\ At("none", "account")
  /\ artifact' = version /\ purge' = FALSE /\ outcome' = "none"
  /\ UNCHANGED <<files, accounts, systemd>>

\* ensure_service_account: an existing user must have its groups ...
AccountExists ==
  /\ At("account", "binary")
  /\ accounts = {"group", "video", "user"}
  /\ UNCHANGED <<files, accounts, systemd, script, outcome>>

\* ... and a new one is made after them.
GroupAdd ==
  /\ At("account", "account")
  /\ "user" \notin accounts
  /\ \E name \in {"group", "video"} \ accounts :
       /\ name = "video" => "group" \in accounts
       /\ accounts' = accounts \cup {name}
  /\ UNCHANGED <<files, systemd, script, outcome>>

\* Mutation of UserAdd: the video group is made after the user.
UserAddFirst ==
  /\ At("account", "account")
  /\ "group" \in accounts /\ "user" \notin accounts
  /\ accounts' = accounts \cup {"user"}
  /\ UNCHANGED <<files, systemd, script, outcome>>

UserAdd ==
  /\ At("account", "binary")
  /\ {"group", "video"} \subseteq accounts /\ "user" \notin accounts
  /\ accounts' = accounts \cup {"user"}
  /\ UNCHANGED <<files, systemd, script, outcome>>

\* install_managed_file: the old file is gone before the new one is whole.
CopyBinary ==
  /\ At("binary", "binaryCopied")
  /\ binary' = Partial
  /\ UNCHANGED <<unit, config, password, accounts, systemd, script, outcome>>

BinaryCopied ==
  /\ At("binaryCopied", "unit")
  /\ binary' = artifact
  /\ UNCHANGED <<unit, config, password, accounts, systemd, script, outcome>>

CopyUnit ==
  /\ At("unit", "unitCopied")
  /\ unit' = Partial
  /\ UNCHANGED <<binary, config, password, accounts, systemd, script, outcome>>

UnitCopied ==
  /\ At("unitCopied", "config")
  /\ unit' = artifact
  /\ UNCHANGED <<binary, config, password, accounts, systemd, script, outcome>>

\* Mutation of CopyConfig: the example replaces what is there.
CopyConfigAlways ==
  /\ At("config", "configCopied")
  /\ config' = "partial"
  /\ UNCHANGED <<binary, unit, password, accounts, systemd, script, outcome>>

CopyConfig ==
  /\ At("config", "configCopied")
  /\ config = "absent"
  /\ config' = "partial"
  /\ UNCHANGED <<binary, unit, password, accounts, systemd, script, outcome>>

ConfigCopied ==
  /\ At("configCopied", "reload")
  /\ config' = "example"
  /\ UNCHANGED <<binary, unit, password, accounts, systemd, script, outcome>>

\* secure_existing_file changes owner and mode only.
KeepConfig ==
  /\ At("config", "reload")
  /\ config # "absent"
  /\ UNCHANGED <<files, accounts, systemd, script, outcome>>

\* Mutation of DaemonReload: systemd keeps the unit it has.
NoReload ==
  /\ At("reload", "enable")
  /\ UNCHANGED <<files, accounts, systemd, script, outcome>>

DaemonReload ==
  /\ At("reload", "enable")
  /\ loaded' = unit
  /\ UNCHANGED <<files, accounts, enabled, active, script, outcome>>

\* Both files exist and are not empty; a partial one may be either.
Prerequisites(partialEmpty) ==
  /\ config \in {"example", "user"} \/ (config = "partial" /\ ~partialEmpty)
  /\ password = "user"

Enable ==
  /\ At("enable", "restart")
  /\ \E partialEmpty \in BOOLEAN : Prerequisites(partialEmpty)
  /\ enabled' = TRUE
  /\ UNCHANGED <<files, accounts, loaded, active, script, outcome>>

NotStarted ==
  /\ Ends("enable", "installed")
  /\ \E partialEmpty \in BOOLEAN : ~Prerequisites(partialEmpty)
  /\ UNCHANGED <<files, accounts, systemd, script>>

Restart ==
  /\ Ends("restart", "installed")
  /\ active' = binary
  /\ UNCHANGED <<files, accounts, loaded, enabled, script>>

-----------------------------------------------------------------------------
(***************************************************************************)
(* uninstall.sh.                                                           *)
(***************************************************************************)
Uninstall(all) ==
  /\ At("none", "stop")
  /\ artifact' = Absent /\ purge' = all /\ outcome' = "none"
  /\ UNCHANGED <<files, accounts, systemd>>

\* stop_and_disable_service: disable --now succeeds ...
DisableNow ==
  /\ At("stop", "removeBinary")
  /\ unit # Absent
  /\ enabled' = FALSE /\ active' = Absent
  /\ UNCHANGED <<files, accounts, loaded, script, outcome>>

\* ... or fails, with any part of its work done ...
DisableFails ==
  /\ At("stop", "verify")
  /\ enabled' \in {enabled, FALSE} /\ active' \in {active, Absent}
  /\ UNCHANGED <<files, accounts, loaded, script, outcome>>

\* Mutation of VerifyInactive: nobody looks at the service.
VerifyNothing ==
  /\ At("verify", "removeBinary")
  /\ UNCHANGED <<files, accounts, systemd, script, outcome>>

\* ... and then the service must be known to be inactive.
VerifyInactive ==
  /\ At("verify", "removeBinary")
  /\ active = Absent
  /\ UNCHANGED <<files, accounts, systemd, script, outcome>>

RemoveBinary ==
  /\ At("removeBinary", "removeUnit")
  /\ binary' = Absent
  /\ UNCHANGED <<unit, config, password, accounts, systemd, script, outcome>>

RemoveUnit ==
  /\ At("removeUnit", "forget")
  /\ unit' = Absent
  /\ UNCHANGED <<binary, config, password, accounts, systemd, script, outcome>>

\* Mutation of Forget: systemd keeps the removed unit.
ForgetNothing ==
  /\ pc = "forget"
  /\ IF purge THEN At("forget", "purgeConfig") /\ UNCHANGED outcome
              ELSE Ends("forget", "removed")
  /\ UNCHANGED <<files, accounts, systemd, script>>

\* daemon-reload after the removal.
Forget ==
  /\ pc = "forget"
  /\ IF purge THEN At("forget", "purgeConfig") /\ UNCHANGED outcome
              ELSE Ends("forget", "removed")
  /\ loaded' = unit
  /\ UNCHANGED <<files, accounts, enabled, active, script>>

PurgeConfig ==
  /\ At("purgeConfig", "purgePassword")
  /\ config' = "absent"
  /\ UNCHANGED <<binary, unit, password, accounts, systemd, script, outcome>>

PurgePassword ==
  /\ Ends("purgePassword", "removed")
  /\ password' = "absent"
  /\ UNCHANGED <<binary, unit, config, accounts, systemd, script>>

-----------------------------------------------------------------------------
(***************************************************************************)
(* What may come between.                                                  *)
(***************************************************************************)
\* die, a command that fails under set -e, or a signal; systemctl restart may
\* have stopped the old process.
Die ==
  /\ pc # "none"
  /\ pc' = "none" /\ outcome' = "failed"
  /\ active' \in (IF pc = "restart" THEN {active, Absent} ELSE {active})
  /\ UNCHANGED <<files, accounts, loaded, enabled, script>>

\* What systemd can start: a whole binary.
Startable == IF binary \in Versions THEN binary ELSE Absent

\* Power loss at any point, and boot.
Reboot ==
  /\ pc' = "none" /\ outcome' = "none"
  /\ loaded' = IF unit \in Versions THEN unit ELSE Absent
  /\ active' = IF enabled /\ unit \in Versions THEN Startable ELSE Absent
  /\ UNCHANGED <<files, accounts, enabled, script>>

\* The process ends and systemd starts it again.
ServiceRestarts ==
  /\ active # Absent
  /\ active' = Startable
  /\ UNCHANGED <<files, accounts, loaded, enabled, pc, script, outcome>>

Edit ==
  /\ pc = "none" /\ outcome' = "none"
  /\ \/ config' = "user" /\ UNCHANGED password
     \/ password' \in {"empty", "user"} /\ UNCHANGED config
  /\ UNCHANGED <<binary, unit, accounts, systemd, pc, script>>

\* systemctl start loads the unit if it is not loaded; systemd does not keep an
\* inactive unit whose file is gone.
Start ==
  /\ pc = "none" /\ outcome' = "none"
  /\ unit \in Versions \/ (unit = Partial /\ loaded # Absent)
  /\ loaded' = IF loaded = Absent THEN unit ELSE loaded
  /\ active' = Startable
  /\ UNCHANGED <<files, accounts, enabled, pc, script>>

Stop ==
  /\ pc = "none" /\ outcome' = "none"
  /\ active' = Absent
  /\ UNCHANGED <<files, accounts, loaded, enabled, pc, script>>

InstallStep ==
  \/ AccountExists \/ GroupAdd \/ UserAdd
  \/ CopyBinary \/ BinaryCopied \/ CopyUnit \/ UnitCopied
  \/ CopyConfig \/ ConfigCopied \/ KeepConfig
  \/ DaemonReload \/ Enable \/ NotStarted \/ Restart

UninstallStep ==
  \/ DisableNow \/ DisableFails \/ VerifyInactive
  \/ RemoveBinary \/ RemoveUnit \/ Forget
  \/ PurgeConfig \/ PurgePassword

Next ==
  \/ \E version \in Versions : Install(version)
  \/ \E all \in BOOLEAN : Uninstall(all)
  \/ InstallStep
  \/ UninstallStep
  \/ Die
  \/ Reboot
  \/ ServiceRestarts
  \/ Edit \/ Start \/ Stop

Spec == Init /\ [][Next]_vars

-----------------------------------------------------------------------------
Labels == {"none", "account", "binary", "binaryCopied", "unit", "unitCopied", "config",
           "configCopied", "reload", "enable", "restart", "stop", "verify", "removeBinary",
           "removeUnit", "forget", "purgeConfig", "purgePassword"}

\* What each variable may hold.  In particular, the running process and the
\* unit in use are always whole versions.
TypeOK ==
  /\ binary \in Versions \cup {Absent, Partial}
  /\ unit \in Versions \cup {Absent, Partial}
  /\ config \in {"absent", "partial", "example", "user"}
  /\ password \in {"absent", "empty", "user"}
  /\ accounts \in SUBSET {"group", "video", "user"}
  /\ loaded \in Versions \cup {Absent}
  /\ enabled \in BOOLEAN
  /\ active \in Versions \cup {Absent}
  /\ pc \in Labels
  /\ artifact \in Versions \cup {Absent}
  /\ purge \in BOOLEAN
  /\ outcome \in {"none", "failed", "installed", "removed"}

\* Account creation may stop at any command: whatever it leaves behind, the
\* next run accepts it.  ensure_service_account refuses a user without its
\* groups, so such a user must never exist.
AccountUsable == "user" \in accounts => {"group", "video"} \subseteq accounts

\* While the service runs, its unit and its binary are there, also after any
\* number of removals that failed half way: a removal stops the service first,
\* and the next removal can still find it.
RunningHasFiles == active # Absent => binary # Absent /\ unit # Absent

\* An installation that reports completion has repaired whatever earlier runs
\* left behind: files, loaded unit and account belong together, and with the
\* prerequisites met it is the new version that runs, now and after a reboot.
InstalledIsComplete ==
  outcome = "installed" =>
    /\ binary = artifact /\ unit = artifact /\ loaded = artifact
    /\ accounts = {"group", "video", "user"}
    /\ config # "absent"
    /\ config \in {"example", "user"} /\ password = "user" => active = artifact /\ enabled

\* A removal that reports completion leaves no file, no loaded unit and no
\* process, and with --purge-config no configuration and no password.
RemovedIsClean ==
  outcome = "removed" =>
    /\ binary = Absent /\ unit = Absent /\ loaded = Absent /\ active = Absent
    /\ purge => config = "absent" /\ password = "absent"

\* A configuration and a password, once written by the administrator, outlive
\* every installation, upgrade and removal, finished or not; only a removal with
\* --purge-config takes them, after the service and its files are gone.
UserFilesKept ==
  [][ \/ config = "user" /\ config' # "user"
      \/ pc # "none" /\ password # "absent" /\ password' # password
      => purge /\ artifact = Absent /\ active = Absent /\ binary = Absent /\ unit = Absent ]_vars

-----------------------------------------------------------------------------
(***************************************************************************)
(* The inductive invariant behind the four invariants and UserFilesKept:   *)
(* what each command of a script may rely on.                              *)
(***************************************************************************)
AfterConfig  == {"reload", "enable", "restart"}
AfterUnit    == AfterConfig \cup {"config", "configCopied"}
AfterBinary  == AfterUnit \cup {"unit", "unitCopied"}
AfterAccount == AfterBinary \cup {"binary", "binaryCopied"}
AfterForget  == {"purgeConfig", "purgePassword"}
AfterStop    == AfterForget \cup {"removeBinary", "removeUnit", "forget"}

InstallProgress ==
  /\ pc \in AfterAccount \cup {"account"} => artifact \in Versions
  /\ pc \in AfterAccount => accounts = {"group", "video", "user"}
  /\ pc \in AfterBinary => binary = artifact
  /\ pc \in AfterUnit => unit = artifact
  /\ pc \in AfterConfig => config # "absent"
  /\ pc \in {"enable", "restart"} => loaded = artifact
  /\ pc = "restart" => enabled = TRUE

UninstallProgress ==
  /\ pc \in AfterStop => active = Absent
  /\ pc \in AfterStop \ {"removeBinary"} => binary = Absent
  /\ pc \in AfterForget \cup {"forget"} => unit = Absent
  /\ pc \in AfterForget => loaded = Absent
  /\ pc = "purgePassword" => config = "absent"

Outcomes ==
  /\ pc # "none" => outcome = "none"
  /\ outcome = "installed" => artifact \in Versions

\* Only a removal gets to the commands of a removal, only --purge-config to the
\* last two, and the example is copied over nothing but itself.
PurgeProgress ==
  /\ pc \in AfterStop \cup {"stop", "verify"} => artifact = Absent
  /\ pc \in AfterForget => purge
  /\ pc = "configCopied" => config = "partial"
=============================================================================
