----------------------------- MODULE DeployProofs -----------------------------
(***************************************************************************)
(* Theorems about Deploy, for any releases and any configurations.         *)
(***************************************************************************)
EXTENDS Deploy, TLAPS

USE DEF machine, script, history

\* What each command finds done by those before it, in this run of the script,
\* whatever the machine and its operator did in between.
Done ==
    /\ config \in Configs \cup {"missing"}
    /\ pc \in InstallSteps => target \in Versions
    /\ pc \in {"config", "unit", "enable", "start", "verify"} => binary = target
    /\ pc \in {"unit", "enable", "start", "verify"} => config # "missing"
    /\ pc \in {"enable", "start", "verify"} => unit
    /\ pc \in {"start", "verify"} => enabled
    /\ pc \in {"rmunit", "rmbinary", "ask", "purge", "close"} => ~enabled
    /\ pc \in {"rmbinary", "ask", "purge", "close"} => ~unit
    /\ pc \in {"ask", "purge", "close"} => binary = NoVersion
    /\ pc = "close" => (confirmed => config = "missing")

\* What the script knows of the service as long as nobody else touched it.
Undisturbed ==
    alone =>
        /\ pc # "idle" => ~pending
        /\ pc \in {"disable", "rmunit", "rmbinary", "ask", "purge", "close"} =>
               proc = NoVersion

\* And what it knows in an install, besides, as long as it has recognised
\* whether a service ran.
Known ==
    alone /\ Recognised =>
        /\ pc = "erase" => proc = NoVersion
        /\ pc = "check" => (proc # NoVersion => binary # NoVersion)
        /\ pc \in {"download", "stop"} => (proc # NoVersion => update)
        /\ pc \in {"binary", "config", "unit", "enable", "start"} => proc = NoVersion
        /\ pc = "verify" => proc = target

DInv == Done /\ Undisturbed /\ Known

LEMMA DeployInit == Init => DInv
BY DEF Init, DInv, Done, Undisturbed, Known, InstallSteps, Configs

\* A start finds everything in place.
LEMMA Startable ==
    ASSUME Done, StartService
    PROVE  Spawned = target /\ target # NoVersion
BY DeployAssumption DEF Done, StartService, Spawned, InstallSteps

LEMMA DoneScript == ASSUME Done, Script PROVE Done'
<1> USE DeployAssumption DEF Done, InstallSteps, Configs, Placeholders
<1>1. ASSUME NEW version \in Versions, NEW force \in BOOLEAN, Begin(version, force)
      PROVE  Done'
  BY <1>1 DEF Begin, Found
<1>2. CASE Erase \/ CheckVersion \/ StopService \/ \E complete \in BOOLEAN : Download(complete)
  BY <1>2 DEF Erase, CheckVersion, StopService, Download
<1>3. CASE InstallBinary \/ InstallBinaryFails \/ InstallConfig \/ InstallUnit
  BY <1>3 DEF InstallBinary, InstallBinaryFails, InstallConfig, InstallUnit
<1>4. CASE Enable \/ Fail \/ VerifyService \/ LeaveStopped
  BY <1>4 DEF Enable, Fail, VerifyService, LeaveStopped
<1>5. CASE StartService
  BY <1>5 DEF StartService, Spawn
<1>6. CASE BeginUninstall \/ Halt \/ Disable \/ RemoveUnit \/ RemoveBinary
  BY <1>6 DEF BeginUninstall, Found, Halt, Disable, RemoveUnit, RemoveBinary
<1>7. CASE Purge \/ Close \/ \E yes \in BOOLEAN : Answer(yes)
  BY <1>7 DEF Answer, Purge, Close
<1>8. QED BY <1>1, <1>2, <1>3, <1>4, <1>5, <1>6, <1>7 DEF Script

LEMMA UndisturbedScript == ASSUME Done, Undisturbed, Script PROVE Undisturbed'
<1> USE DEF Undisturbed, InstallSteps
<1>1. ASSUME NEW version \in Versions, NEW force \in BOOLEAN, Begin(version, force)
      PROVE  Undisturbed'
  BY <1>1 DEF Begin, Found
<1>2. CASE Erase \/ CheckVersion \/ StopService \/ \E complete \in BOOLEAN : Download(complete)
  BY <1>2 DEF Erase, CheckVersion, StopService, Download
<1>3. CASE InstallBinary \/ InstallBinaryFails \/ InstallConfig \/ InstallUnit
  BY <1>3 DEF InstallBinary, InstallBinaryFails, InstallConfig, InstallUnit
<1>4. CASE Enable \/ Fail \/ VerifyService \/ LeaveStopped
  BY <1>4 DEF Enable, Fail, VerifyService, LeaveStopped
<1>5. CASE StartService
  <2>1. Spawned = target
    BY <1>5, Startable
  <2>2. target # NoVersion
    BY <1>5, Startable
  <2>3. QED BY <1>5, <2>1, <2>2 DEF StartService, Spawn
<1>6. CASE BeginUninstall \/ Halt \/ Disable \/ RemoveUnit \/ RemoveBinary
  BY <1>6 DEF BeginUninstall, Found, Halt, Disable, RemoveUnit, RemoveBinary
<1>7. CASE Purge \/ Close \/ \E yes \in BOOLEAN : Answer(yes)
  BY <1>7 DEF Answer, Purge, Close
<1>8. QED BY <1>1, <1>2, <1>3, <1>4, <1>5, <1>6, <1>7 DEF Script

LEMMA KnownScript == ASSUME Done, Known, Script PROVE Known'
<1> USE DEF Known, Recognised, InstallSteps
<1>1. ASSUME NEW version \in Versions, NEW force \in BOOLEAN, Begin(version, force)
      PROVE  Known'
  BY <1>1 DEF Begin, Found
<1>2. CASE Erase \/ CheckVersion \/ StopService \/ \E complete \in BOOLEAN : Download(complete)
  BY <1>2 DEF Erase, CheckVersion, StopService, Download
<1>3. CASE InstallBinary \/ InstallBinaryFails \/ InstallConfig \/ InstallUnit
  BY <1>3 DEF InstallBinary, InstallBinaryFails, InstallConfig, InstallUnit
<1>4. CASE Enable \/ Fail \/ VerifyService \/ LeaveStopped
  BY <1>4 DEF Enable, Fail, VerifyService, LeaveStopped
<1>5. CASE StartService
  <2>1. Spawned = target
    BY <1>5, Startable
  <2>2. target # NoVersion
    BY <1>5, Startable
  <2>3. QED BY <1>5, <2>1, <2>2 DEF StartService, Spawn
<1>6. CASE BeginUninstall \/ Halt \/ Disable \/ RemoveUnit \/ RemoveBinary
  BY <1>6 DEF BeginUninstall, Found, Halt, Disable, RemoveUnit, RemoveBinary
<1>7. CASE Purge \/ Close \/ \E yes \in BOOLEAN : Answer(yes)
  BY <1>7 DEF Answer, Purge, Close
<1>8. QED BY <1>1, <1>2, <1>3, <1>4, <1>5, <1>6, <1>7 DEF Script

LEMMA DeployMachine == ASSUME DInv, Machine PROVE DInv'
<1> USE DEF DInv, Done, Undisturbed, Known, Recognised, InstallSteps, Configs,
        Placeholders
<1>1. ASSUME NEW text \in Edits, Edit(text) PROVE DInv'
  BY <1>1, DeployAssumption DEF Edit
<1>2. CASE OperatorStart \/ OperatorStop \/ ServiceFails \/ Respawn
  BY <1>2 DEF OperatorStart, OperatorStop, ServiceFails, Respawn, Touched
<1>3. CASE Reboot
  BY <1>3 DEF Reboot, Touched
<1>4. QED BY <1>1, <1>2, <1>3 DEF Machine

LEMMA DeployStep == DInv /\ [Next]_vars => DInv'
<1>1. DInv /\ Script => DInv'
  BY DoneScript, UndisturbedScript, KnownScript DEF DInv
<1>2. DInv /\ UNCHANGED vars => DInv'
  BY DEF DInv, Done, Undisturbed, Known, Recognised, vars
<1>3. QED BY <1>1, <1>2, DeployMachine DEF Next

LEMMA DeployAlways == Spec => []DInv
BY DeployInit, DeployStep, PTL DEF Spec
-------------------------------------------------------------------------------
\* Only the last command of an install, or of an uninstall, completes it.
LEMMA Completion ==
    ASSUME [Next]_vars
    PROVE  /\ Completes("completed") => VerifyService \/ LeaveStopped
           /\ Completes("removed") => Close
<1> USE DEF Completes
<1>1. CASE VerifyService \/ LeaveStopped \/ Close
  BY <1>1 DEF VerifyService, LeaveStopped, Close
<1>2. CASE \/ \E version \in Versions : \E force \in BOOLEAN : Begin(version, force)
           \/ BeginUninstall
  BY <1>2 DEF Begin, BeginUninstall
<1>3. CASE \/ Erase \/ CheckVersion \/ StopService \/ InstallBinary
           \/ InstallConfig \/ InstallUnit \/ Enable \/ StartService
           \/ Halt \/ Disable \/ RemoveUnit \/ RemoveBinary \/ Purge
           \/ \E complete \in BOOLEAN : Download(complete)
           \/ \E yes \in BOOLEAN : Answer(yes)
  BY <1>3 DEF Erase, CheckVersion, StopService, InstallBinary, InstallConfig,
     InstallUnit, Enable, StartService, Halt, Disable, RemoveUnit,
     RemoveBinary, Purge, Download, Answer
<1>4. CASE InstallBinaryFails \/ Fail
  BY <1>4 DEF InstallBinaryFails, Fail
<1>5. CASE Machine
  BY <1>5 DEF Machine, Edit, OperatorStart, OperatorStop, ServiceFails,
     Respawn, Reboot
<1>6. CASE UNCHANGED vars
  BY <1>6 DEF vars
<1>7. QED BY <1>1, <1>2, <1>3, <1>4, <1>5, <1>6 DEF Next, Script

\* An install that completes has put its release in place; over a service it
\* recognised and nobody else touched it runs no other, and does run it unless
\* the configuration has xxxx: for any releases, edits, failures and reboots.
THEOREM InstallServed == Spec => InstallServes
<1> DEFINE Served == /\ unit' /\ enabled' /\ binary' = target
                     /\ alone /\ Recognised =>
                            /\ proc' \in {target, NoVersion}
                            /\ config \notin Placeholders => proc' = target
<1>1. ASSUME DInv, VerifyService PROVE Served
  BY <1>1 DEF DInv, Done, Known, VerifyService
<1>2. ASSUME DInv, LeaveStopped PROVE Served
  BY <1>2 DEF DInv, Done, Known, LeaveStopped
<1>3. ASSUME DInv, [Next]_vars, Completes("completed") PROVE Served
  BY <1>1, <1>2, <1>3, Completion
<1>4. DInv /\ [Next]_vars => [Completes("completed") => Served]_vars
  BY <1>3
<1>5. QED BY <1>4, DeployAlways, PTL DEF Spec, InstallServes

\* An uninstall that completes leaves no trace of the service, nor of its
\* configuration when that was to go.
THEOREM Uninstalled == Spec => UninstallRemoves
<1> DEFINE Removed == /\ binary' = NoVersion /\ ~unit' /\ ~enabled'
                      /\ confirmed => config' = "missing"
                      /\ alone => proc' = NoVersion /\ ~pending'
<1>1. ASSUME DInv, Close PROVE Removed
  BY <1>1 DEF DInv, Done, Undisturbed, Close
<1>2. DInv /\ [Next]_vars => [Completes("removed") => Removed]_vars
  BY <1>1, Completion
<1>3. QED BY <1>2, DeployAlways, PTL DEF Spec, UninstallRemoves

\* An administrator's configuration survives any use of the script but an
\* uninstall in which he confirms that it is to go.
THEOREM ConfigurationKept == Spec => ConfigKept
<1> DEFINE Kept == config' # config /\ config \in Edits
                     => config' \in Edits \/ (pc \in UninstallSteps /\ confirmed)
<1>1. ASSUME [Next]_vars PROVE Kept
  <2>1. CASE Purge
    BY <2>1 DEF Purge, UninstallSteps
  <2>2. ASSUME NEW text \in Edits, Edit(text) PROVE Kept
    BY <2>2 DEF Edit
  <2>3. CASE InstallConfig
    BY <2>3, DeployAssumption DEF InstallConfig
  <2>4. CASE config' = config
    BY <2>4
  <2>5. QED
    BY <1>1, <2>1, <2>2, <2>3, <2>4
       DEF Next, Script, Machine, vars, Begin, Erase, CheckVersion, StopService,
           InstallBinary, InstallBinaryFails, InstallUnit, Enable, StartService,
           VerifyService, LeaveStopped, Answer, Close, Fail, Download, BeginUninstall, Halt, Disable, RemoveUnit, RemoveBinary,
           OperatorStart, OperatorStop, ServiceFails, Respawn, Reboot, Touched
<1>2. QED BY <1>1, PTL DEF Spec, ConfigKept
===============================================================================
