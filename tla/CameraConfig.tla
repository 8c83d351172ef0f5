----------------------------- MODULE CameraConfig -----------------------------
(***************************************************************************)
(* kfaceauth-camera-config: selects the camera of the daemon in            *)
(* /etc/kfaceauth/kfaceauth.conf, restarts the service, checks the outcome *)
(* and puts the previous file and service state back when a step fails.    *)
(*                                                                         *)
(* Several helpers run at once; a helper is named by its process id, which *)
(* also names its temporary file.  Cameras come and go, calls fail, a      *)
(* helper may be killed and the service may stop by itself.  systemctl     *)
(* hands a job to systemd: a helper that stops waiting leaves the job      *)
(* behind, and a later job replaces it.                                    *)
(***************************************************************************)
EXTENDS Naturals, Sequences

CONSTANTS
    Procs,      \* process ids of helpers
    Cameras,    \* stable device names, each of one device
    Alias,      \* another name (by-id) of a device
    AliasOf,    \* the stable name of that device
    None,       \* no file, no selection, nobody
    MaxOps,     \* bound of the model: calls of the helper
    MaxFaults   \* bound of the model: failing calls, kills and crashes

CameraConfigAssumption ==
    /\ AliasOf \in Cameras /\ Alias \notin Cameras
    /\ None \notin Cameras \cup {Alias} \cup Procs
    /\ MaxOps \in Nat /\ MaxFaults \in Nat

VARIABLES
    config,     \* kfaceauth.conf: its lines, or None
    dirMade,    \* /etc/kfaceauth exists
    temps,      \* process ids whose temporary file exists
    plugged,    \* the cameras present
    running,    \* the service is active
    ran,        \* the file as the running service read it
    job,        \* the job systemd has: what to do and who waits for it
    lock,       \* who holds .camera-config.lock
    pc, want,   \* per helper: where it is, the selection asked for
    prev, was,  \* what it read: the previous file, whether the service was active
    reply,      \* what systemctl told it
    err, res,   \* the error it is rolling back, its result
    current,    \* the file --list has open still has its name
    disturbed,  \* history: the service stopped by itself during the call
    promised,   \* history: the file according to what the calls reported
    ops, faults

world == <<config, dirMade, temps, plugged, running, ran, job, lock>>
local == <<want, prev, was, reply, err, current>>
vars == <<world, pc, local, res, disturbed, promised, ops, faults>>

Paths == Cameras \cup {Alias}

(* A line assigns the camera (a path, or None for an empty value), is      *)
(* another assignment or comment, or is one that continues on the next.    *)
Lines == [kind : {"key"}, path : Paths \cup {None}] \cup [kind : {"other", "open"}, path : {None}]
Line(k) == [kind |-> k, path |-> None]
Key(v) == [kind |-> "key", path |-> v]
IsKey(l) == l.kind = "key"
IsOther(l) == ~IsKey(l)

Text(c) == IF c = None THEN << >> ELSE c

Points == {"idle", "dir", "lock", "recheck", "read", "active", "stage", "install", "sync",
           "restart", "restarting", "check", "validate", "readback",
           "undo", "undo-install", "undo-sync", "undo-service", "undoing", "undo-check",
           "undo-readback", "reread", "told"}
Mutations == {"stage", "install", "sync", "restart", "restarting", "check", "validate", "readback"}
Undos == {"undo", "undo-install", "undo-sync", "undo-service", "undoing", "undo-check",
          "undo-readback"}
Results == {"none", "ok", "unauthorized", "busy", "unavailable-selection", "unsafe-directory",
            "unsafe-config", "unsupported-config", "duplicate-setting", "staging-failed",
            "install-failed", "service-failed", "service-timeout", "readback-failed",
            "rollback-failed", "automatic", "unknown"} \cup Paths

TypeOK ==
    /\ config \in Seq(Lines) \cup {None} /\ ran \in Seq(Lines) \cup {None}
    /\ dirMade \in BOOLEAN /\ temps \subseteq Procs /\ plugged \subseteq Cameras
    /\ running \in BOOLEAN /\ lock \in Procs \cup {None}
    /\ job \in [act : {"none", "restart", "stop"}, by : Procs \cup {None}]
    /\ pc \in [Procs -> Points] /\ want \in [Procs -> Cameras \cup {None}]
    /\ was \in [Procs -> BOOLEAN] /\ reply \in [Procs -> {"none", "done", "failed"}]
    /\ err \in [Procs -> Results] /\ res \in [Procs -> Results]
    /\ \A p \in Procs : pc[p] \in Mutations \cup Undos => lock = p
    /\ disturbed \in [Procs -> BOOLEAN] /\ current \in [Procs -> BOOLEAN] /\ ops \in 0..MaxOps /\ faults \in 0..MaxFaults

(* Files an administrator may have left, and one without a camera line. *)
Init ==
    /\ config \in {None, <<Key(Alias), Line("other")>>, <<Line("other"), Key(None)>>,
                   <<Line("open"), Key(Alias)>>, <<Key(AliasOf), Key(Alias)>>}
    /\ dirMade \in BOOLEAN /\ (config # None => dirMade)
    /\ temps = {} /\ plugged = Cameras /\ running \in BOOLEAN /\ ran = config
    /\ job = [act |-> "none", by |-> None] /\ lock = None
    /\ pc = [p \in Procs |-> "idle"] /\ want = [p \in Procs |-> None]
    /\ prev = [p \in Procs |-> None] /\ was = [p \in Procs |-> FALSE]
    /\ reply = [p \in Procs |-> "none"]
    /\ err = [p \in Procs |-> "none"] /\ res = [p \in Procs |-> "none"]
    /\ disturbed = [p \in Procs |-> FALSE] /\ current = [p \in Procs |-> FALSE]
    /\ promised = config
    /\ ops = 0 /\ faults = 0

-----------------------------------------------------------------------------
(* The file as text                                                        *)

validate_lines(c) == \A i \in DOMAIN c : c[i].kind # "open"

(* The camera the file selects, None for automatic, or an error. *)
setting(c) ==
    LET keys == SelectSeq(c, IsKey)
    IN  IF ~validate_lines(c) THEN "unsupported-config"
        ELSE IF Len(keys) > 1 THEN "duplicate-setting"
        ELSE IF keys = << >> THEN None ELSE keys[1].path

(* Mutant: the lines of other settings go too. *)
ReplaceFile(c, sel) == IF sel = None THEN << >> ELSE <<Key(sel)>>

(* Every camera line goes, the selection comes last. *)
replacement(c, sel) ==
    SelectSeq(c, IsOther) \o (IF sel = None THEN << >> ELSE <<Key(sel)>>)

Accepted(c) == setting(Text(c)) \in Paths \cup {None}

-----------------------------------------------------------------------------
(* Steps of a helper                                                       *)

To(p, point) == pc' = [pc EXCEPT ![p] = point]

(* run returns, to main and the exit of the process. *)
Tells(p, r) == To(p, "told") /\ res' = [res EXCEPT ![p] = r]

(* Mutant: an error is returned at once. *)
ErrsEarly(p, e) == Tells(p, e) /\ err' = err

(* A failed step of the transaction: before the first change it is an      *)
(* early return, after it the previous file and service are put back.      *)
Errs(p, e) ==
    IF pc[p] \in Mutations
    THEN To(p, "undo") /\ err' = [err EXCEPT ![p] = e] /\ res' = res
    ELSE Tells(p, IF pc[p] \in Undos THEN "rollback-failed" ELSE e) /\ err' = err

Goes(p, point) == To(p, point) /\ UNCHANGED <<err, res>>

Still == UNCHANGED <<disturbed, current, ops, faults, promised>>

(* The name has a new file, or none. *)
Renamed == current' = [p \in Procs |-> FALSE]

(* The devices the enumeration of /dev finds, by their stable names. *)
cameras == plugged

(* authorized: root, for a caller with a canonical user id above 0. *)
authorized(uid, euid) == euid = 0 /\ uid \in {"1000"}

(* A call with arguments run accepts: --set camera, or --reset. *)
Begin(p) ==
    /\ pc[p] = "idle" /\ ops < MaxOps /\ ops' = ops + 1
    /\ \E w \in Cameras \cup {None}, uid \in {"none", "0", "01000", "1000"}, euid \in {0, 1000} :
          /\ want' = [want EXCEPT ![p] = w]
          /\ IF ~authorized(uid, euid) THEN Tells(p, "unauthorized")
             ELSE IF w \notin cameras \cup {None} THEN Tells(p, "unavailable-selection")
             ELSE To(p, "dir") /\ res' = res
    /\ UNCHANGED <<world, prev, was, reply, err, current, disturbed, promised, faults>>

(* provision_config_directory: created, or there already. *)
provision_config_directory(p) ==
    /\ pc[p] = "dir" /\ dirMade' = TRUE /\ Goes(p, "lock")
    /\ UNCHANGED <<config, temps, plugged, running, ran, job, lock, want, prev, was, reply>>
    /\ Still

(* lock_child_file_nonblocking *)
Lock(p) ==
    /\ pc[p] = "lock"
    /\ \/ lock = None /\ lock' = p /\ Goes(p, "recheck")
       \/ lock # None /\ lock' = lock /\ Errs(p, "busy")
    /\ UNCHANGED <<config, dirMade, temps, plugged, running, ran, job, want, prev, was, reply>>
    /\ Still

(* The second enumeration of the cameras. *)
Recheck(p) ==
    /\ pc[p] = "recheck"
    /\ IF want[p] \in cameras \cup {None} THEN Goes(p, "read") ELSE Errs(p, "unavailable-selection")
    /\ UNCHANGED <<world, want, prev, was, reply>> /\ Still

(* read_config, then replacement refuses what it cannot edit. *)
Read(p) ==
    /\ pc[p] = "read"
    /\ prev' = [prev EXCEPT ![p] = config]
    /\ IF Accepted(config) THEN Goes(p, "active") ELSE Errs(p, setting(config))
    /\ UNCHANGED <<world, want, was, reply>> /\ Still

WasActive(p) ==
    /\ pc[p] = "active" /\ was' = [was EXCEPT ![p] = running] /\ Goes(p, "stage")
    /\ UNCHANGED <<world, want, prev, reply>> /\ Still

(* atomic_write: the temporary file, which a killed process of that id may *)
(* have left behind; a failed write removes it.                            *)
Stage(p) ==
    /\ pc[p] \in {"stage", "undo"} /\ (pc[p] = "undo" => prev[p] # None)
    /\ IF p \in temps
       THEN temps' = temps \ {p} /\ Errs(p, "staging-failed")
       ELSE temps' = temps \cup {p} /\ Goes(p, IF pc[p] = "stage" THEN "install" ELSE "undo-install")
    /\ UNCHANGED <<config, dirMade, plugged, running, ran, job, lock, want, prev, was, reply>>
    /\ Still

Install(p) ==
    /\ pc[p] \in {"install", "undo-install"}
    /\ temps' = temps \ {p}
    /\ config' = IF pc[p] = "install" THEN replacement(Text(prev[p]), want[p]) ELSE prev[p]
    /\ Goes(p, IF pc[p] = "install" THEN "sync" ELSE "undo-sync")
    /\ UNCHANGED <<dirMade, plugged, running, ran, job, lock, want, prev, was, reply>> /\ Renamed /\ UNCHANGED <<disturbed, ops, faults, promised>>

(* There was no file: the new one is removed. *)
RemoveFile(p) ==
    /\ pc[p] = "undo" /\ prev[p] = None
    /\ config' = None /\ Goes(p, IF config = None THEN "undo-service" ELSE "undo-sync")
    /\ UNCHANGED <<dirMade, temps, plugged, running, ran, job, lock, want, prev, was, reply>>
    /\ Renamed /\ UNCHANGED <<disturbed, ops, faults, promised>>

(* Mutant: a rollback trusts a service that is still active. *)
SyncOnly(p) ==
    /\ pc[p] \in {"sync", "undo-sync"}
    /\ Goes(p, IF pc[p] = "sync" THEN "restart" ELSE "undo-check")
    /\ UNCHANGED <<world, want, prev, was, reply>> /\ Still

SyncDirectory(p) ==
    /\ pc[p] \in {"sync", "undo-sync"}
    /\ Goes(p, IF pc[p] = "sync" THEN "restart" ELSE "undo-service")
    /\ UNCHANGED <<world, want, prev, was, reply>> /\ Still

(* service("restart"), and in a rollback restart or stop: a new job. *)
Request(p) ==
    /\ pc[p] \in {"restart", "undo-service"}
    /\ job' = [act |-> IF pc[p] = "restart" \/ was[p] THEN "restart" ELSE "stop", by |-> p]
    /\ reply' = [reply EXCEPT ![p] = "none"]
    /\ Goes(p, IF pc[p] = "restart" THEN "restarting" ELSE "undoing")
    /\ UNCHANGED <<config, dirMade, temps, plugged, running, ran, lock, want, prev, was>> /\ Still

(* try_wait has the exit of systemctl. *)
Waited(p) ==
    /\ pc[p] \in {"restarting", "undoing"} /\ reply[p] # "none"
    /\ IF reply[p] = "failed" THEN Errs(p, "service-failed")
       ELSE Goes(p, IF pc[p] = "restarting" THEN "check" ELSE "undo-check")
    /\ UNCHANGED <<world, want, prev, was, reply>> /\ Still

(* Mutant: systemctl is waited for without a limit. *)
WaitForever(p) == FALSE /\ UNCHANGED vars

(* After 15 seconds systemctl is killed, the job stays. *)
WaitTimesOut(p) ==
    /\ pc[p] \in {"restarting", "undoing"} /\ reply[p] = "none"
    /\ Errs(p, "service-timeout")
    /\ job' = IF job.by = p THEN [job EXCEPT !.by = None] ELSE job
    /\ UNCHANGED <<config, dirMade, temps, plugged, running, ran, lock, want, prev, was, reply>>
    /\ Still

(* service("is-active") *)
CheckActive(p) ==
    /\ pc[p] \in {"check", "undo-check"}
    /\ IF pc[p] = "check"
       THEN IF running THEN Goes(p, "validate") ELSE Errs(p, "service-failed")
       ELSE IF running = was[p] THEN Goes(p, "undo-readback") ELSE Errs(p, "rollback-failed")
    /\ UNCHANGED <<world, want, prev, was, reply>> /\ Still

Validate(p) ==
    /\ pc[p] = "validate"
    /\ IF want[p] \in cameras \cup {None} THEN Goes(p, "readback") ELSE Errs(p, "unavailable-selection")
    /\ UNCHANGED <<world, want, prev, was, reply>> /\ Still

(* The file is read back and the call ends. *)
Readback(p) ==
    /\ pc[p] \in {"readback", "undo-readback"}
    /\ LET expected == IF pc[p] = "readback" THEN replacement(Text(prev[p]), want[p]) ELSE prev[p]
       IN  IF config # expected THEN Errs(p, "readback-failed")
           ELSE Tells(p, IF pc[p] = "readback" THEN "ok" ELSE err[p]) /\ err' = err
    /\ UNCHANGED <<world, want, prev, was, reply>> /\ Still

(* --list: the file is opened and read, then its name is looked up again. *)
List(p) ==
    /\ pc[p] = "idle" /\ ops < MaxOps /\ ops' = ops + 1
    /\ IF ~dirMade THEN Tells(p, "unknown") /\ UNCHANGED <<prev, current>>
       ELSE IF config = None THEN Tells(p, "automatic") /\ UNCHANGED <<prev, current>>
       ELSE /\ To(p, "reread") /\ res' = res
            /\ prev' = [prev EXCEPT ![p] = config] /\ current' = [current EXCEPT ![p] = TRUE]
    /\ UNCHANGED <<world, want, was, reply, err, disturbed, promised, faults>>

(* An alias is shown by the stable name of its device, if that is present. *)
Display(path) == IF path = Alias /\ AliasOf \in cameras THEN AliasOf ELSE path

(* Mutant: the name is not looked up again. *)
RereadNothing(p) ==
    /\ pc[p] = "reread"
    /\ LET s == setting(prev[p])
       IN  Tells(p, IF s \in Paths THEN Display(s) ELSE IF s = None THEN "automatic" ELSE "unknown")
    /\ UNCHANGED <<world, local, disturbed, promised, ops, faults>>

Reread(p) ==
    /\ pc[p] = "reread"
    /\ LET s == IF current[p] THEN setting(prev[p]) ELSE "unsafe-config"
       IN  Tells(p, IF s \in Paths THEN Display(s) ELSE IF s = None THEN "automatic" ELSE "unknown")
    /\ UNCHANGED <<world, local, disturbed, promised, ops, faults>>

(* What a process has, gone with it. *)
Gone(p) ==
    /\ To(p, "idle") /\ res' = [res EXCEPT ![p] = "none"]
    /\ lock' = IF lock = p THEN None ELSE lock
    /\ want' = [want EXCEPT ![p] = None] /\ prev' = [prev EXCEPT ![p] = None]
    /\ was' = [was EXCEPT ![p] = FALSE] /\ reply' = [reply EXCEPT ![p] = "none"]
    /\ err' = [err EXCEPT ![p] = "none"] /\ disturbed' = [disturbed EXCEPT ![p] = FALSE]
    /\ current' = [current EXCEPT ![p] = FALSE]
    /\ UNCHANGED <<config, dirMade, temps, plugged, running, ran, ops>>

(* The process ends and its lock with it. *)
Return(p) ==
    /\ pc[p] = "told" /\ Gone(p)
    /\ promised' = CASE res[p] = "ok" -> replacement(Text(prev[p]), want[p])
                     [] res[p] = "rollback-failed" -> config
                     [] OTHER -> promised
    /\ UNCHANGED <<job, faults>>

-----------------------------------------------------------------------------
(* What goes wrong, and the rest of the world                              *)

Fault == faults < MaxFaults /\ faults' = faults + 1

Failure ==
    [dir |-> "unsafe-directory", lock |-> "busy", read |-> "unsafe-config",
     active |-> "service-failed", stage |-> "staging-failed", install |-> "install-failed",
     sync |-> "install-failed", restart |-> "service-failed", check |-> "service-timeout",
     readback |-> "unsafe-config"]

(* A call of the step fails; a half-made temporary file is removed. *)
Fails(p) ==
    /\ pc[p] \in DOMAIN Failure \cup (Undos \ {"undoing"}) /\ Fault
    /\ Errs(p, IF pc[p] \in Undos THEN "rollback-failed" ELSE Failure[pc[p]])
    /\ temps' = temps \ {p}
    /\ UNCHANGED <<config, dirMade, plugged, running, ran, job, lock, want, prev, was, reply,
                   current, disturbed, ops, promised>>

Kill(p) ==
    /\ pc[p] \notin {"idle", "told"} /\ Fault /\ Gone(p)
    /\ job' = IF job.by = p THEN [job EXCEPT !.by = None] ELSE job
    /\ promised' = IF lock = p THEN config ELSE promised

(* systemd does the job: the service starts with the file as it is now, or *)
(* does not start; or it stops.                                            *)
Systemd ==
    /\ job.act # "none" /\ job' = [act |-> "none", by |-> None]
    /\ \E done \in BOOLEAN :
          /\ running' = (job.act = "restart" /\ done)
          /\ ran' = IF running' THEN config ELSE ran
          /\ reply' = IF job.by = None THEN reply
                      ELSE [reply EXCEPT ![job.by] = IF done THEN "done" ELSE "failed"]
    /\ UNCHANGED <<config, dirMade, temps, plugged, lock, pc, want, prev, was, err, res>> /\ Still

Crash ==
    /\ running /\ Fault /\ running' = FALSE /\ disturbed' = [p \in Procs |-> TRUE]
    /\ UNCHANGED <<config, dirMade, temps, plugged, ran, job, lock, pc, local, res, promised, ops>>

Hotplug ==
    /\ \E c \in Cameras : plugged' = IF c \in plugged THEN plugged \ {c} ELSE plugged \cup {c}
    /\ UNCHANGED <<config, dirMade, temps, running, ran, job, lock, pc, local, res>>
    /\ UNCHANGED <<disturbed, promised, ops, faults>>

Step(p) ==
    \/ provision_config_directory(p) \/ Lock(p) \/ Recheck(p) \/ Read(p) \/ WasActive(p)
    \/ Stage(p) \/ Install(p) \/ RemoveFile(p) \/ SyncDirectory(p) \/ Request(p) \/ Waited(p)
    \/ WaitTimesOut(p) \/ CheckActive(p) \/ Validate(p) \/ Readback(p) \/ Reread(p) \/ Return(p)

Next ==
    \/ \E p \in Procs : Step(p) \/ Begin(p) \/ List(p) \/ Fails(p) \/ Kill(p)
    \/ Systemd \/ Crash \/ Hotplug

Spec == Init /\ [][Next]_vars

(* A helper runs on; its waiting ends at the deadline. *)
FairSpec == Spec /\ \A p \in Procs : WF_vars(Step(p))

-----------------------------------------------------------------------------
(* Between calls the file is what the calls reported: after "ok" the       *)
(* previous lines with the new selection, after an error what it was       *)
(* before, also with several helpers, late systemd jobs and temporary      *)
(* files of killed ones (transaction).  Only "rollback-failed" and a       *)
(* killed helper leave something else.                                     *)
FileAsReported == lock = None => config = promised

(* When a call reports, the service fits: after "ok" it is active and has  *)
(* read the file with the new selection; after an error that was rolled    *)
(* back it is active if and only if it was, with the previous file.  A     *)
(* service that stopped by itself meanwhile is no fault of the helper.     *)
ServiceAsReported ==
    \A p \in Procs : pc[p] = "told" /\ lock = p /\ ~disturbed[p] =>
        /\ res[p] = "ok" => running /\ ran = config /\ setting(config) = want[p]
        /\ err[p] # "none" /\ res[p] # "rollback-failed" =>
              running = was[p] /\ (running => ran = config)

(* No step of any helper loses, adds or reorders a line that is not the    *)
(* camera's, in an update or in a rollback (replacement, atomic_write).    *)
OtherLinesKept ==
    SelectSeq(Text(config'), IsOther) = SelectSeq(Text(config), IsOther)

(* --list never shows a selection that the file no longer had when the     *)
(* answer was made (read_config looks the name up again).                  *)
ListIsCurrent ==
    \A p \in Procs : pc[p] = "reread" /\ res'[p] \in Paths =>
       /\ config # None /\ setting(config) \in Paths
       /\ res'[p] \in {setting(config), Display(setting(config))}

(* Every call returns, also when systemd never finishes the job (service,  *)
(* with its limit of 15 seconds).                                          *)
CallsEnd == \A p \in Procs : pc[p] # "idle" ~> pc[p] = "idle"
====
