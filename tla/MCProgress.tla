------------------------------ MODULE MCProgress ------------------------------
(***************************************************************************)
(* What is begun ends, for TLC: analyses of the guidance, the preview's    *)
(* hold on its camera, the operations of enrolment, calls of the camera    *)
(* helper and operations on the vault, each on an instance small enough    *)
(* for liveness.                                                           *)
(*                                                                         *)
(* The specifications share no variable, so what one of them does is the   *)
(* same whatever the others do.  A behaviour moves the one that part names *)
(* and leaves the others in an initial state.                              *)
(***************************************************************************)
EXTENDS VisionGuidance, TLC

CONSTANTS Unreadable, Left, c1, p1, p2, alias

VARIABLES
    part,
    view, vPlugged, chosen, asked, inputs, frames,
    enrolment, eInputs, applied,
    config, dirMade, temps, plugged, running, ran, job, cLock, cPc, want, prev, was, reply,
    err, cRes, current, disturbed, cPromised, cOps, cFaults,
    dir, file, pending, lock, orphan, pc, op, stat, seen, temp, res, window, hit, promised,
    ops, vFaults

previewVars == <<view, vPlugged, chosen, asked, inputs, frames>>
enrolVars == <<enrolment, eInputs, applied>>
configVars == <<config, dirMade, temps, plugged, running, ran, job, cLock, cPc, want, prev,
                was, reply, err, cRes, current, disturbed, cPromised, cOps, cFaults>>
vaultVars == <<dir, file, pending, lock, orphan, pc, op, stat, seen, temp, res, window, hit,
               promised, ops, vFaults>>

-----------------------------------------------------------------------------
Preview == INSTANCE CameraPreview WITH
    Cameras <- {c1}, PipeSize <- 1, MaxInputs <- 4, MaxFrames <- 0,
    s <- view, plugged <- vPlugged

Enrol == INSTANCE Enrollment WITH
    MINIMUM_SAMPLES <- 1, MAXIMUM_SAMPLES <- 2, MaxInputs <- 3,
    Profiles <- {[vault |-> None, entry |-> None, sys |-> FALSE],
                 [vault |-> 0, entry |-> 0, sys |-> FALSE],
                 [vault |-> 0, entry |-> 0, sys |-> TRUE]},
    s <- enrolment, inputs <- eInputs

Procs == {p1, p2}

Config == INSTANCE CameraConfig WITH
    Cameras <- {c1}, Alias <- alias, AliasOf <- c1, MaxOps <- 2, MaxFaults <- 0,
    lock <- cLock, pc <- cPc, res <- cRes, promised <- cPromised, ops <- cOps,
    faults <- cFaults

Vault == INSTANCE TemplateVault WITH
    Keys <- {1}, Profiles <- {1}, Builds <- {1}, This <- 1,
    Kinds <- {"commit", "delete", "status"}, ExistsFails <- TRUE, MaxOps <- 2, MaxFaults <- 1,
    faults <- vFaults

ASSUME Config!CameraConfigAssumption /\ Vault!VaultAssumption

-----------------------------------------------------------------------------
Start ==
    /\ part \in {"guidance", "preview", "enrolment", "config", "vault"}
    /\ Init /\ Preview!Init
    /\ Enrol!Init /\ (part # "enrolment" => enrolment.vault = None)
    /\ Config!Init /\ (part # "config" => config = None /\ ~dirMade /\ ~running)
    /\ Vault!Init /\ (part # "vault" => dir = "absent")

Move ==
    \/ /\ part = "guidance" /\ Next
       /\ UNCHANGED <<part, previewVars, enrolVars, configVars, vaultVars>>
    \/ /\ part = "preview" /\ Preview!Next
       /\ UNCHANGED <<part, vars, enrolVars, configVars, vaultVars>>
    \/ /\ part = "enrolment" /\ Enrol!Next
       /\ UNCHANGED <<part, vars, previewVars, configVars, vaultVars>>
    \/ /\ part = "config" /\ Config!Next
       /\ UNCHANGED <<part, vars, previewVars, enrolVars, vaultVars>>
    \/ /\ part = "vault" /\ Vault!Next
       /\ UNCHANGED <<part, vars, previewVars, enrolVars, configVars>>

(* The fairness of the parts, for the part that moves. *)
GuidanceFairness ==
    /\ WF_vars(part = "guidance" /\ Signals)
    /\ WF_vars(part = "guidance" /\ Tick)
    /\ WF_vars(part = "guidance" /\ TimerFires)
    /\ WF_vars(part = "guidance" /\ session.killed /\ Dies)

PreviewFairness ==
    /\ WF_previewVars(part = "preview" /\ Preview!ProcessStarted)
    /\ WF_previewVars(part = "preview" /\ Preview!ProcessFinished)
    /\ WF_previewVars(part = "preview" /\ Preview!processRecords)
    /\ WF_previewVars(part = "preview" /\ Preview!StartupTimeout)
    /\ WF_previewVars(part = "preview" /\ Preview!StopTimeout)
    /\ WF_previewVars(part = "preview" /\ Preview!Countdown)
    /\ WF_previewVars(part = "preview" /\ Preview!Flush)
    /\ WF_previewVars(part = "preview" /\ Preview!Writable)
    /\ WF_previewVars(part = "preview" /\ Preview!ReadCommand)
    /\ WF_previewVars(part = "preview" /\ Preview!LimitTimeout)
    /\ WF_previewVars(part = "preview" /\ Preview!InputsChanged)

EnrolFairness ==
    /\ WF_enrolVars(part = "enrolment" /\ Enrol!Run)
    /\ WF_enrolVars(part = "enrolment" /\ Enrol!Worker)
    /\ WF_enrolVars(part = "enrolment" /\ Enrol!ClientTimeout)
    /\ WF_enrolVars(part = "enrolment" /\ Enrol!ProcessFinished)
    /\ WF_enrolVars(part = "enrolment" /\ Enrol!WalletOpens)
    /\ WF_enrolVars(part = "enrolment" /\ Enrol!HelperEnds)
    /\ WF_enrolVars(part = "enrolment" /\ Enrol!QueriesEnd)
    /\ WF_enrolVars(part = "enrolment" /\ Enrol!WaitTimeout)

HelperFairness ==
    \A p \in Procs : /\ WF_configVars(part = "config" /\ Config!Step(p))
                     /\ WF_vaultVars(part = "vault" /\ Vault!Work(p))

Host ==
    /\ Start /\ [][Move]_<<part, vars, previewVars, enrolVars, configVars, vaultVars>>
    /\ GuidanceFairness /\ PreviewFairness /\ EnrolFairness /\ HelperFairness

-----------------------------------------------------------------------------
(* The properties.  ShownIsCurrent is stated in VisionGuidance.  A         *)
(* conjunct of the other is a statement of the component's module, where   *)
(* its comment explains it.                                                *)

(* What is begun ends, whatever the other side does: an analysis           *)
(* (VisionAnalysisSession), the preview's hold on its camera               *)
(* (CameraPreviewSession), every busy state of EnrollmentSession, every    *)
(* call of kfaceauth-camera-config although systemd may never finish its   *)
(* job, every operation on the vault although the owner of identity.lock   *)
(* may be gone.                                                            *)
WorkEnds ==
    /\ AnalysisEnds /\ Preview!CameraReleased /\ Enrol!BusyEnds
    /\ Config!CallsEnd /\ Vault!OperationsEnd
====
