-------------------------------- MODULE Deploy --------------------------------
(***************************************************************************)
(* scripts/deploy.sh against the systemd unit of the service: install,     *)
(* update, forced reinstall and uninstall, each a sequence of commands of  *)
(* which any may fail and so end the script (set -e), while the service    *)
(* fails and is restarted, an operator uses systemctl and edits the        *)
(* configuration, and the machine reboots between any two commands.        *)
(***************************************************************************)
CONSTANTS
    Versions,    \* releases that can be asked for
    Edits        \* configurations the administrator writes

\* A configuration file as the script tells them apart: the example of the
\* release, one whose credentials are filled in and whose unused Slack token
\* is still the example's, and one without any of the example's xxxx.
Placeholders == {"example", "partial"}
Configs      == Placeholders \cup {"complete"}

NoVersion == [none |-> TRUE]

ASSUME DeployAssumption ==
    Edits \subseteq {"partial", "complete"} /\ NoVersion \notin Versions

Installed == Versions \cup {NoVersion}

VARIABLES
    \* The machine
    binary,      \* release whose binary is at INSTALL_BIN
    config,      \* CONFIG_FILE
    unit,        \* the service file is in place
    enabled,     \* the service is started at boot
    proc,        \* release the running process was started from
    pending,     \* systemd will restart the service in RestartSec
    \* The script
    pc, target, forced, update, extracted, confirmed,
    last,        \* how the last run of the script ended
    \* History
    served,      \* release that ran when the script began
    found,       \* release whose binary was installed then
    alone        \* only the script has touched the service since

machine == <<binary, config, unit, enabled, proc, pending>>
script  == <<target, forced, update, extracted, confirmed>>
history == <<served, found, alone>>
vars    == <<machine, pc, script, last, history>>

InstallSteps   == {"erase", "check", "download", "stop", "binary", "config",
                   "unit", "enable", "start", "verify"}
UninstallSteps == {"halt", "disable", "rmunit", "rmbinary", "ask", "purge", "close"}

TypeOK ==
    /\ {binary, proc, served, found} \subseteq Installed
    /\ config \in Configs \cup {"missing"}
    /\ {unit, enabled, pending, alone} \subseteq BOOLEAN
    /\ {forced, update, extracted, confirmed} \subseteq BOOLEAN
    /\ pc \in {"idle"} \cup InstallSteps \cup UninstallSteps
    /\ target \in Installed
    /\ last \in {"none", "completed", "current", "failed", "removed"}

Init ==
    /\ binary = NoVersion /\ config = "missing"
    /\ unit = FALSE /\ enabled = FALSE
    /\ proc = NoVersion /\ pending = FALSE
    /\ pc = "idle" /\ target = NoVersion
    /\ forced = FALSE /\ update = FALSE /\ extracted = FALSE /\ confirmed = FALSE
    /\ last = "none"
    /\ served = NoVersion /\ found = NoVersion /\ alone = FALSE

\* What a start of the service leads to. The unit is Type=simple, so the start
\* itself succeeds even when the process then ends for want of its files.
Spawned ==
    IF unit /\ binary # NoVersion /\ config # "missing" THEN binary ELSE NoVersion

\* The process runs, or systemd tries again.
Spawn == proc' = Spawned /\ pending' = (unit /\ Spawned = NoVersion)

\* The machine as the script finds it.
Found == served' = proc /\ found' = binary /\ alone' = ~pending
-------------------------------------------------------------------------------
(* do_install *)

Begin(version, force) ==
    /\ pc = "idle"
    /\ target' = version /\ forced' = force
    /\ pc' = IF force THEN "erase" ELSE "check"
    /\ Found
    /\ UNCHANGED <<machine, update, extracted, confirmed, last>>

\* --force removes the binary, whether or not the service runs.
Erase ==
    /\ pc = "erase"
    /\ binary' = NoVersion
    /\ pc' = "check"
    /\ UNCHANGED <<config, unit, enabled, proc, pending, script, last, history>>

\* The installed binary is asked for its version; the same one ends the script
\* successfully, whatever the state of the unit and the service.
CheckVersion ==
    /\ pc = "check"
    /\ update' = (binary # NoVersion)
    /\ IF binary = target THEN pc' = "idle" /\ last' = "current"
                          ELSE pc' = "download" /\ UNCHANGED last
    /\ UNCHANGED <<machine, target, forced, extracted, confirmed, history>>

\* download_and_extract runs in a command substitution, where set -e is off:
\* a failed download ends the script (Fail), a failed tar does not.
Download(complete) ==
    /\ pc = "download"
    /\ extracted' = complete
    /\ pc' = "stop"
    /\ UNCHANGED <<machine, target, forced, update, confirmed, last, history>>

\* Variant with a bug: is_update is not looked at the right way round.
StopServiceWhenFresh ==
    /\ pc = "stop"
    /\ proc' = IF update THEN proc ELSE NoVersion
    /\ pc' = "binary"
    /\ UNCHANGED <<binary, config, unit, enabled, pending, script, last, history>>

\* Only an active service is stopped: one that systemd is about to restart is
\* not active.
StopService ==
    /\ pc = "stop"
    /\ proc' = IF update THEN NoVersion ELSE proc
    /\ pc' = "binary"
    /\ UNCHANGED <<binary, config, unit, enabled, pending, script, last, history>>

InstallBinary ==
    /\ pc = "binary" /\ extracted
    /\ binary' = target
    /\ pc' = "config"
    /\ UNCHANGED <<config, unit, enabled, proc, pending, script, last, history>>

\* install removes the old file first; a copy that fails leaves none behind
\* that can be run.
InstallBinaryFails ==
    /\ pc = "binary"
    /\ binary' \in {binary} \cup (IF extracted THEN {NoVersion} ELSE {})
    /\ pc' = "idle" /\ last' = "failed"
    /\ UNCHANGED <<config, unit, enabled, proc, pending, script, history>>

\* Variant with a bug: the example replaces the configuration of an update.
InstallConfigAlways ==
    /\ pc = "config"
    /\ config' = "example"
    /\ pc' = "unit"
    /\ UNCHANGED <<binary, unit, enabled, proc, pending, script, last, history>>

\* With a configuration in place the example is saved beside it.
InstallConfig ==
    /\ pc = "config"
    /\ config' = IF config = "missing" THEN "example" ELSE config
    /\ pc' = "unit"
    /\ UNCHANGED <<binary, unit, enabled, proc, pending, script, last, history>>

InstallUnit ==
    /\ pc = "unit"
    /\ unit' = TRUE
    /\ pc' = "enable"
    /\ UNCHANGED <<binary, config, enabled, proc, pending, script, last, history>>

Enable ==
    /\ pc = "enable"
    /\ enabled' = TRUE
    /\ pc' = "start"
    /\ UNCHANGED <<binary, config, unit, proc, pending, script, last, history>>

\* systemctl start leaves a running service as it is.
StartService ==
    /\ pc = "start" /\ config \notin Placeholders
    /\ IF proc = NoVersion THEN Spawn ELSE UNCHANGED <<proc, pending>>
    /\ pc' = "verify"
    /\ UNCHANGED <<binary, config, unit, enabled, script, last, history>>

\* Two seconds later a service that is not active is only warned of.
VerifyService ==
    /\ pc = "verify"
    /\ pc' = "idle" /\ last' = "completed"
    /\ UNCHANGED <<machine, script, history>>

\* Nothing is started while xxxx occurs anywhere in the configuration.
LeaveStopped ==
    /\ pc = "start" /\ config \in Placeholders
    /\ pc' = "idle" /\ last' = "completed"
    /\ UNCHANGED <<machine, script, history>>

\* A command fails, or the script is interrupted.
Fail ==
    /\ pc # "idle"
    /\ pc' = "idle" /\ last' = "failed"
    /\ UNCHANGED <<machine, script, history>>
-------------------------------------------------------------------------------
(* do_uninstall *)

BeginUninstall ==
    /\ pc = "idle"
    /\ pc' = "halt"
    /\ Found
    /\ confirmed' = FALSE
    /\ UNCHANGED <<machine, target, forced, update, extracted, last>>

Halt ==
    /\ pc = "halt"
    /\ proc' = NoVersion
    /\ pc' = "disable"
    /\ UNCHANGED <<binary, config, unit, enabled, pending, script, last, history>>

\* Variant with a bug: a service that is not enabled ends the uninstall.
DisableOrLeave ==
    /\ pc = "disable"
    /\ enabled' = FALSE
    /\ pc' = IF enabled THEN "rmunit" ELSE "ask"
    /\ UNCHANGED <<binary, config, unit, proc, pending, script, last, history>>

Disable ==
    /\ pc = "disable"
    /\ enabled' = FALSE
    /\ pc' = "rmunit"
    /\ UNCHANGED <<binary, config, unit, proc, pending, script, last, history>>

RemoveUnit ==
    /\ pc = "rmunit"
    /\ unit' = FALSE
    /\ pc' = "rmbinary"
    /\ UNCHANGED <<binary, config, enabled, proc, pending, script, last, history>>

RemoveBinary ==
    /\ pc = "rmbinary"
    /\ binary' = NoVersion
    /\ pc' = "ask"
    /\ UNCHANGED <<config, unit, enabled, proc, pending, script, last, history>>

Answer(yes) ==
    /\ pc = "ask"
    /\ confirmed' = yes
    /\ pc' = "purge"
    /\ UNCHANGED <<machine, target, forced, update, extracted, last, history>>

\* The directories go only when the operator says so.
Purge ==
    /\ pc = "purge"
    /\ config' = IF confirmed THEN "missing" ELSE config
    /\ pc' = "close"
    /\ UNCHANGED <<binary, unit, enabled, proc, pending, script, last, history>>

Close ==
    /\ pc = "close"
    /\ pc' = "idle" /\ last' = "removed"
    /\ UNCHANGED <<machine, script, history>>
-------------------------------------------------------------------------------
(* The machine and its operator *)

Edit(text) ==
    /\ config # "missing" /\ text \in Edits
    /\ config' = text
    /\ UNCHANGED <<binary, unit, enabled, proc, pending, pc, script, last, history>>

\* The service is no longer as the script left it.
Touched == /\ alone' = FALSE
           /\ UNCHANGED <<binary, config, unit, enabled, script, served, found>>

OperatorStart == unit /\ proc = NoVersion /\ Spawn /\ Touched /\ UNCHANGED <<pc, last>>

OperatorStop ==
    /\ proc # NoVersion \/ pending
    /\ proc' = NoVersion /\ pending' = FALSE
    /\ Touched /\ UNCHANGED <<pc, last>>

\* Restart=on-failure
ServiceFails ==
    /\ proc # NoVersion
    /\ proc' = NoVersion /\ pending' = TRUE
    /\ Touched /\ UNCHANGED <<pc, last>>

Respawn == pending /\ Spawn /\ Touched /\ UNCHANGED <<pc, last>>

Reboot ==
    /\ IF enabled THEN Spawn ELSE proc' = NoVersion /\ pending' = FALSE
    /\ pc' = "idle"
    /\ last' = IF pc = "idle" THEN last ELSE "failed"
    /\ Touched

Script ==
    \/ \E version \in Versions : \E force \in BOOLEAN : Begin(version, force)
    \/ Erase \/ CheckVersion \/ StopService \/ InstallBinary \/ InstallBinaryFails
    \/ InstallConfig \/ InstallUnit \/ Enable \/ Fail
    \/ StartService \/ VerifyService \/ LeaveStopped
    \/ \E complete \in BOOLEAN : Download(complete)
    \/ BeginUninstall \/ Halt \/ Disable \/ RemoveUnit \/ RemoveBinary
    \/ Purge \/ Close
    \/ \E yes \in BOOLEAN : Answer(yes)

Machine ==
    \/ \E text \in Edits : Edit(text)
    \/ OperatorStart \/ OperatorStop \/ ServiceFails \/ Respawn \/ Reboot

Next == Script \/ Machine

Spec == Init /\ [][Next]_vars
-------------------------------------------------------------------------------
(* What the script promises *)

Completes(result) == pc # "idle" /\ pc' = "idle" /\ last' = result

\* What the script takes for an update is one: a service runs when it begins
\* only if it then finds the binary there, and does not erase it (--force).
Recognised == served # NoVersion => found # NoVersion /\ ~forced

\* An install or update that completes leaves everything of the release it was
\* asked for in place, whatever earlier runs left half done. When nobody else
\* touched the service meanwhile it then runs that release, or nothing; and it
\* does run if the configuration has no xxxx. Exempt is, besides, an install
\* over a running service whose binary is erased, which the script takes for a
\* first one: the old process goes on. A configuration that has xxxx, be it the
\* example or one that served until now, leaves the service stopped
\* (UpdateRestarts, below).
InstallServes ==
    [][Completes("completed") =>
         /\ unit' /\ enabled' /\ binary' = target
         /\ alone /\ Recognised =>
                /\ proc' \in {target, NoVersion}
                /\ config \notin Placeholders => proc' = target]_vars

\* "Never overwrite an existing config": through installs, updates, failures
\* and reboots in any order an administrator's configuration goes only by an
\* edit of his own or in an uninstall in which he has confirmed it.
ConfigKept ==
    [][config' # config /\ config \in Edits =>
         config' \in Edits \/ (pc \in UninstallSteps /\ confirmed)]_vars

\* An uninstall that completes leaves nothing that runs or would be started
\* at boot, in whatever state earlier runs of the script left the machine, if
\* nobody else touched the service, and no configuration when it was confirmed.
UninstallRemoves ==
    [][Completes("removed") =>
         /\ binary' = NoVersion /\ ~unit' /\ ~enabled'
         /\ confirmed => config' = "missing"
         /\ alone => proc' = NoVersion /\ ~pending']_vars
-------------------------------------------------------------------------------
(* What the documentation says and the script does not do *)

\* "On update: stop the service first, replace the binary, and restart": a
\* service that ran, on the administrator's configuration, before an update
\* that completes runs after it.
UpdateRestarts ==
    [][Completes("completed") /\ alone /\ served # NoVersion /\ config \in Edits
         => proc' # NoVersion]_vars
===============================================================================
