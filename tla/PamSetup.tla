-------------------------------- MODULE PamSetup --------------------------------
(***************************************************************************)
(* kfaceauth-pam-setup --prepare-target: it publishes the dedicated PAM    *)
(* service of a target, installs the SELinux modules, enables the socket,  *)
(* takes an old managed rule out of the two standard services, and takes   *)
(* all of it back when a step fails.  Any command may fail, the script may *)
(* be killed at any step and be called again, clients start the service    *)
(* through the socket, and an administrator may write the dedicated        *)
(* service meanwhile.  The helpers that call the script hold a lock, so    *)
(* there is one at a time.                                                 *)
(***************************************************************************)
EXTENDS Naturals, Sequences, FiniteSets

CONSTANTS
    Targets,         \* targets that are prepared
    Modules,         \* what may be installed of the modules at the start
    QueriesMayFail,  \* whether semodule -l and systemctl is-... may fail
    MaxRuns          \* bound of the model: calls of the script

(* The queries answer, and a module that is there is the packaged one. *)
QueriesExact == ~QueriesMayFail /\ Modules \subseteq {"absent", "new"}

VARIABLES
    sys,      \* the services, the modules and the socket
    temp,     \* the temporary file next to the dedicated service
    backup,   \* the backups of the standard services
    script,   \* the variables of the script and the step it is at
    before,   \* the state when the script was called
    report,   \* its last word
    runs

setupVars == <<sys, temp, backup, script, before, report, runs>>

(* migrate_legacy_global_rules takes the two in this order. *)
Legacy == <<"sddm", "kde">>
LegacyFiles == {"sddm", "kde"}

modules(target) == IF target = "sddm" THEN <<"kfaceauth", "kfaceauth_sddm">> ELSE <<"kfaceauth">>

Idle == [at |-> "idle"]

SetupInit ==
    /\ sys \in [dest : {"absent", "template", "custom"},
                modules : [{"kfaceauth", "kfaceauth_sddm"} -> Modules],
                enabled : BOOLEAN, active : BOOLEAN, service : {FALSE},
                legacy : [LegacyFiles -> {"clean", "managed", "unmanaged"}]]
    /\ temp = "none"
    /\ backup = [f \in LegacyFiles |-> "none"]
    /\ script = Idle
    /\ before = sys
    /\ report = "none"
    /\ runs = 0

-----------------------------------------------------------------------------
(* Control of the script. *)
At(step) == script.at = step
Go(step) == script' = [script EXCEPT !.at = step]
Exit(word) == script' = Idle /\ report' = word

(* A command on the state, and one that leaves it alone. *)
Quiet == UNCHANGED <<temp, backup, before, report, runs>>

(* rollback_prepare begins with the standard services. *)
rollback_prepare == Go("restore_legacy")

(* The checks of prepare_target and capture_socket_state; a query that      *)
(* fails reads as "no".                                                     *)
Reads(value) == IF QueriesMayFail THEN {value, FALSE} ELSE {value}

prepare_target(target) ==
    /\ At("idle") /\ runs < MaxRuns
    /\ runs' = runs + 1
    /\ before' = sys
    /\ \/ Exit("refused")
       \/ /\ \E e \in Reads(sys.enabled), a \in Reads(sys.active), v \in Reads(sys.service) :
               script' = [at |-> "check_service", target |-> target, installed |-> <<>>,
                          created |-> FALSE, touched |-> FALSE, files |-> <<>>, next |-> 1,
                          failed |-> FALSE, enabled |-> e, active |-> a, service |-> v]
          /\ report' = "none"
    /\ UNCHANGED <<sys, temp, backup>>

-----------------------------------------------------------------------------
(* install_dedicated_pam_service. *)
CheckService ==
    /\ At("check_service")
    /\ \/ Exit("not_prepared")
       \/ sys.dest = "template" /\ Go("module") /\ UNCHANGED report
       \/ sys.dest = "absent" /\ Go("write_temp") /\ UNCHANGED report
    /\ UNCHANGED <<sys, temp, backup, before, runs>>

(* cat, chmod and chown on a temporary file in the directory. *)
WriteTemp ==
    /\ At("write_temp")
    /\ \/ temp' = "partial" /\ UNCHANGED <<script, report>>
       \/ temp = "partial" /\ temp' = "whole" /\ Go("link") /\ UNCHANGED report
       \/ temp' = "none" /\ Exit("not_prepared")
    /\ UNCHANGED <<sys, backup, before, runs>>

Published == IF temp = "whole" THEN "template" ELSE "partial"

(* Mutant: publication by a rename. *)
LinkReplacing ==
    /\ At("link")
    /\ temp' = "none"
    /\ sys' = [sys EXCEPT !.dest = Published] /\ Go("check_link") /\ UNCHANGED report
    /\ UNCHANGED <<backup, before, runs>>

(* ln, and the removal of the temporary file. *)
Link ==
    /\ At("link")
    /\ temp' = "none"
    /\ \/ sys.dest = "absent" /\ sys' = [sys EXCEPT !.dest = Published] /\ Go("check_link") /\ UNCHANGED report
       \/ sys.dest = "template" /\ Go("module") /\ UNCHANGED <<sys, report>>
       \/ sys.dest # "template" /\ Exit("not_prepared") /\ UNCHANGED sys
    /\ UNCHANGED <<backup, before, runs>>

CheckLink ==
    /\ At("check_link")
    /\ \/ script' = [script EXCEPT !.created = TRUE, !.at = "module"] /\ UNCHANGED <<sys, report>>
       \/ sys' = [sys EXCEPT !.dest = "absent"] /\ Exit("not_prepared")
    /\ UNCHANGED <<temp, backup, before, runs>>

-----------------------------------------------------------------------------
module_installed(m) == Reads(sys.modules[m] # "absent")

(* Mutant: a module counts as installed by the script when semodule says so. *)
InstallModuleLate ==
    LET m == modules(script.target)[script.next]
    IN  /\ At("module") /\ script.next <= Len(modules(script.target))
        /\ \/ /\ sys' = [sys EXCEPT !.modules[m] = "new"]
              /\ script' = [script EXCEPT !.next = @ + 1,
                               !.installed = IF sys.modules[m] = "absent" THEN Append(@, m) ELSE @]
           \/ sys' \in {sys, [sys EXCEPT !.modules[m] = "new"]} /\ rollback_prepare
        /\ Quiet

(* One turn of the loop of install_policy_modules: the module is noted      *)
(* before it is installed; semodule -i may fail with or without effect.     *)
InstallModule ==
    LET m == modules(script.target)[script.next]
        noted(known) == IF known THEN script ELSE [script EXCEPT !.installed = Append(@, m)]
    IN  /\ At("module") /\ script.next <= Len(modules(script.target))
        /\ \/ rollback_prepare /\ UNCHANGED sys
           \/ \E known \in module_installed(m) :
                \/ sys' = [sys EXCEPT !.modules[m] = "new"] /\ script' = [noted(known) EXCEPT !.next = @ + 1]
                \/ /\ sys' \in {sys, [sys EXCEPT !.modules[m] = "new"]}
                   /\ script' = [noted(known) EXCEPT !.at = "restore_legacy"]
        /\ Quiet

(* The labels are restored; with SELinux disabled there was nothing to do. *)
Labelled ==
    /\ At("module")
    /\ \/ script.next > Len(modules(script.target)) /\ (Go("enable") \/ rollback_prepare)
       \/ script.next = 1 /\ Go("enable")
    /\ UNCHANGED sys /\ Quiet

(* Mutant: the counter of the modules goes on as that of the files. *)
EnableSocketNext ==
    /\ At("enable")
    /\ sys' = [sys EXCEPT !.enabled = TRUE, !.active = TRUE]
    /\ script' = [script EXCEPT !.touched = TRUE, !.at = "migrate"]
    /\ Quiet

(* systemctl enable --now; when it fails it may have done a part. *)
EnableSocket ==
    /\ At("enable")
    /\ \/ /\ sys' = [sys EXCEPT !.enabled = TRUE, !.active = TRUE]
          /\ script' = [script EXCEPT !.touched = TRUE, !.next = 1, !.at = "migrate"]
       \/ /\ \E e \in {sys.enabled, TRUE}, a \in {sys.active, TRUE} :
               sys' = [sys EXCEPT !.enabled = e, !.active = a]
          /\ script' = [script EXCEPT !.touched = TRUE, !.at = "restore_legacy"]
    /\ Quiet

-----------------------------------------------------------------------------
(* migrate_legacy_global_rule: the checks and the backup. *)
BackUp ==
    LET f == Legacy[script.next]
    IN  /\ At("migrate") /\ script.next <= 2
        /\ \/ /\ sys.legacy[f] = "clean"
              /\ script' = [script EXCEPT !.next = @ + 1]
              /\ UNCHANGED backup
           \/ rollback_prepare /\ UNCHANGED backup
           \/ /\ sys.legacy[f] = "managed"
              /\ backup' = [backup EXCEPT ![f] = sys.legacy[f]]
              /\ script' = [script EXCEPT !.files = Append(@, f), !.at = "strip"]
        /\ UNCHANGED <<sys, temp, before, report, runs>>

(* Mutant: the block is cut out in place. *)
StripInPlace ==
    LET f == Legacy[script.next]
    IN  /\ At("strip")
        /\ \/ sys.legacy[f] = "managed" /\ sys' = [sys EXCEPT !.legacy[f] = "partial"] /\ UNCHANGED script
           \/ sys' = [sys EXCEPT !.legacy[f] = "clean"] /\ script' = [script EXCEPT !.next = @ + 1, !.at = "migrate"]
           \/ rollback_prepare /\ UNCHANGED sys
        /\ Quiet

(* The file without the block is moved into place. *)
Strip ==
    LET f == Legacy[script.next]
    IN  /\ At("strip")
        /\ \/ sys' = [sys EXCEPT !.legacy[f] = "clean"] /\ script' = [script EXCEPT !.next = @ + 1, !.at = "migrate"]
           \/ rollback_prepare /\ UNCHANGED sys
        /\ Quiet

(* The backups are removed, or some of them stay behind. *)
Prepared ==
    /\ At("migrate") /\ script.next > 2
    /\ \E left \in SUBSET LegacyFiles :
         backup' = [f \in LegacyFiles |-> IF f \in left THEN backup[f] ELSE "none"]
    /\ Exit("prepared")
    /\ UNCHANGED <<sys, temp, before, runs>>

-----------------------------------------------------------------------------
(* restore_legacy_pam_backups, last file first. *)
RestoreLegacy ==
    /\ At("restore_legacy")
    /\ IF script.files = <<>> THEN Go("restore_service") /\ UNCHANGED <<sys, backup>>
       ELSE LET f == script.files[Len(script.files)]
                rest == SubSeq(script.files, 1, Len(script.files) - 1)
                missed == script' = [script EXCEPT !.files = rest, !.failed = TRUE]
                back == sys' = [sys EXCEPT !.legacy[f] = backup[f]]
            IN  \/ missed /\ UNCHANGED <<sys, backup>>
                \/ back /\ missed /\ UNCHANGED backup
                \/ back /\ backup' = [backup EXCEPT ![f] = "none"] /\ script' = [script EXCEPT !.files = rest]
    /\ UNCHANGED <<temp, before, report, runs>>

RestoreService ==
    LET next == IF script.touched THEN "restore_socket" ELSE "restore_modules"
    IN  /\ At("restore_service")
        /\ \/ /\ sys' = IF script.created THEN [sys EXCEPT !.dest = "absent"] ELSE sys
              /\ Go(next)
           \/ script.created /\ script' = [script EXCEPT !.failed = TRUE, !.at = next] /\ UNCHANGED sys
        /\ Quiet

(* systemctl, with the dependencies of the units: the service requires the  *)
(* socket.  A command may fail, with or without effect.                     *)
systemctl(effect, next) ==
    /\ \/ sys' = effect /\ Go(next)
       \/ sys' \in {sys, effect} /\ script' = [script EXCEPT !.failed = TRUE, !.at = next]
    /\ Quiet

socket(on) == IF on THEN [sys EXCEPT !.active = TRUE] ELSE [sys EXCEPT !.active = FALSE, !.service = FALSE]
service(on) == IF on THEN [sys EXCEPT !.active = TRUE, !.service = TRUE] ELSE [sys EXCEPT !.service = FALSE]

(* restore_socket_state. *)
RestoreSocket ==
    \/ At("restore_socket") /\ systemctl(socket(script.active), "restore_daemon")
    \/ At("restore_daemon") /\ systemctl(service(script.service), "restore_enabled")
    \/ At("restore_enabled") /\ systemctl([sys EXCEPT !.enabled = script.enabled], "restore_modules")

(* rollback_modules, and the two last words of rollback_prepare. *)
RestoreModules ==
    /\ At("restore_modules")
    /\ IF script.installed = <<>>
       THEN Exit(IF script.failed THEN "incomplete" ELSE "restored") /\ UNCHANGED sys
       ELSE LET n == Len(script.installed)
                m == script.installed[n]
                left == [script EXCEPT !.installed = SubSeq(@, 1, n - 1)]
            IN  /\ \E known \in module_installed(m) :
                     \/ ~known /\ script' = left /\ UNCHANGED sys
                     \/ known /\ script' = left /\ sys' = [sys EXCEPT !.modules[m] = "absent"]
                     \/ known /\ script' = [left EXCEPT !.failed = TRUE] /\ UNCHANGED sys
                /\ UNCHANGED report
    /\ UNCHANGED <<temp, backup, before, runs>>

-----------------------------------------------------------------------------
(* The script is killed; its temporary file and its backups stay. *)
Kill ==
    /\ ~At("idle")
    /\ Exit("killed")
    /\ UNCHANGED <<sys, temp, backup, before, runs>>

(* A client connects and systemd starts the service. *)
Activate ==
    /\ sys.active /\ ~sys.service
    /\ sys' = [sys EXCEPT !.service = TRUE]
    /\ UNCHANGED <<temp, backup, script, before, report, runs>>

(* An administrator, or a package, writes the dedicated service. *)
AdministratorWrites ==
    /\ sys.dest = "absent" /\ ~At("idle")
    /\ \E content \in {"template", "custom"} :
         /\ sys' = [sys EXCEPT !.dest = content]
         /\ before' = [before EXCEPT !.dest = content]
    /\ UNCHANGED <<temp, backup, script, report, runs>>

SetupNext ==
    \/ \E target \in Targets : prepare_target(target)
    \/ CheckService \/ WriteTemp \/ Link \/ CheckLink \/ InstallModule \/ Labelled \/ EnableSocket
    \/ BackUp \/ Strip \/ Prepared
    \/ RestoreLegacy \/ RestoreService \/ RestoreSocket \/ RestoreModules
    \/ Kill \/ Activate \/ AdministratorWrites

SetupSpec == SetupInit /\ [][SetupNext]_setupVars

-----------------------------------------------------------------------------
(* The dedicated service is absent, the packaged one or the                *)
(* administrator's, never a part of one; the service runs with its socket.  *)
SetupTypeOK ==
    /\ sys.dest \in {"absent", "template", "custom"}
    /\ sys.service => sys.active
    /\ temp \in {"none", "partial", "whole"}
    /\ report \in {"none", "refused", "not_prepared", "prepared", "restored", "incomplete", "killed"}

(* The standard services are whole at every moment, wherever the script is  *)
(* killed: as they were when it was called, or without the managed block.   *)
(* (The block is cut out in a copy that mv puts in place.)                  *)
ServicesWhole ==
    \A f \in LegacyFiles :
        sys.legacy[f] \in {before.legacy[f]} \cup (IF before.legacy[f] = "managed" THEN {"clean"} ELSE {})

(* "the prior authentication state was restored": the PAM services, the     *)
(* socket and the modules are as they were, whichever commands failed and   *)
(* however much of their work they had done.                                *)
RestoredAsReported ==
    report = "restored" /\ At("idle") =>
        /\ sys.dest = before.dest /\ sys.legacy = before.legacy
        /\ sys.modules = before.modules
        /\ sys.enabled = before.enabled /\ sys.active = before.active

(* "state=prepared": the dedicated service is there, the socket is enabled  *)
(* and listens, and no standard service has the managed rule any more.      *)
PreparedAsReported ==
    report = "prepared" =>
        /\ sys.dest = "template"
        /\ sys.enabled /\ sys.active
        /\ \A f \in LegacyFiles : sys.legacy[f] = "clean"

(* The script's last word is true: the two statements above. *)
SetupAsReported == RestoredAsReported /\ PreparedAsReported

(* What an administrator wrote is never changed: neither a dedicated        *)
(* service of their own, also when it comes between the script's check and  *)
(* its ln, nor a rule without the exact markers.                            *)
AdministratorsKept ==
    /\ sys.dest = "custom" => sys'.dest = "custom"
    /\ \A f \in LegacyFiles : sys.legacy[f] = "unmanaged" => sys'.legacy[f] = "unmanaged"

=============================================================================
