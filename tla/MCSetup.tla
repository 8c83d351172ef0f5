------------------------------- MODULE MCSetup --------------------------------
(***************************************************************************)
(* The PAM side, for TLC: the client in the PAM module, the script that    *)
(* sets the services up, the helper that selects the daemon's camera, and  *)
(* the policy file.                                                        *)
(*                                                                         *)
(* The specifications share no variable, so what one of them does is the   *)
(* same whatever the others do.  A behaviour moves the one that part names *)
(* and leaves the others in an initial state.                              *)
(***************************************************************************)
EXTENDS PamClient, PamSetup, TLC

CONSTANTS Procs, c1, c2, alias, Unread

VARIABLES
    part,
    config, dirMade, temps, plugged, running, ran, job, lock, hPc, want, prev, was, hReply,
    err, res, current, disturbed, promised, ops, faults,
    file, text, parser, meant, sets

configVars == <<config, dirMade, temps, plugged, running, ran, job, lock, hPc, want, prev,
                was, hReply, err, res, current, disturbed, promised, ops, faults>>
policyVars == <<file, text, parser, meant, sets>>

-----------------------------------------------------------------------------
Config == INSTANCE CameraConfig WITH
    Cameras <- {c1, c2}, Alias <- alias, AliasOf <- c1, MaxOps <- 2, MaxFaults <- 1,
    pc <- hPc, reply <- hReply

Policy == INSTANCE AuthPolicyFile WITH MAX_POLICY_TOKENS <- 60, MaxSets <- 2

ASSUME Config!CameraConfigAssumption /\ QueriesExact

(* The schema of the policy file, computed once. *)
PolicyDocuments == Policy!Documents
BegunDocuments == Policy!Begun

(* Helpers are interchangeable. *)
Symmetry == Permutations(Procs)

-----------------------------------------------------------------------------
Start ==
    /\ part \in {"client", "setup", "config", "policy"}
    /\ Init /\ Policy!Init
    /\ SetupInit
    /\ part # "setup" => /\ sys.dest = "absent" /\ ~sys.enabled /\ ~sys.active
                         /\ \A m \in DOMAIN sys.modules : sys.modules[m] = "absent"
                         /\ \A f \in DOMAIN sys.legacy : sys.legacy[f] = "clean"
    /\ Config!Init /\ (part # "config" => config = None /\ ~dirMade /\ ~running)

Move ==
    \/ part = "client" /\ Next /\ UNCHANGED <<part, setupVars, configVars, policyVars>>
    \/ part = "setup" /\ SetupNext /\ UNCHANGED <<part, vars, configVars, policyVars>>
    \/ part = "config" /\ Config!Next /\ UNCHANGED <<part, vars, setupVars, policyVars>>
    \/ part = "policy" /\ Policy!Next /\ UNCHANGED <<part, vars, setupVars, configVars>>

Host == Start /\ [][Move]_<<part, vars, setupVars, configVars, policyVars>>

-----------------------------------------------------------------------------
(* The properties.  Those of the client and of the script are stated in    *)
(* their modules: OneDeadline, SuccessIsGranted, SetupAsReported.  A       *)
(* conjunct of the others is a statement of the component's module, where  *)
(* its comment explains it.                                                *)

(* kfaceauth-camera-config reports what is so: between calls               *)
(* kfaceauth.conf is what transaction promised, when it reports the        *)
(* service runs with that file, and --list shows no selection that the     *)
(* file no longer had.                                                     *)
SelectionAsReported ==
    [][Config!FileAsReported' /\ Config!ServiceAsReported' /\ Config!ListIsCurrent]_configVars

(* What belongs to the administrator stays, at every moment and wherever a *)
(* tool is killed: the standard PAM services and a dedicated service of    *)
(* their own (prepare_target), and the other lines of kfaceauth.conf       *)
(* (replacement, atomic_write).                                            *)
OthersKept ==
    [][/\ ServicesWhole' /\ AdministratorsKept
       /\ Config!OtherLinesKept]_<<setupVars, configVars>>

(* The policy file is read as it is written: parse_json accepts exactly    *)
(* the documents of the schema, with the policy they stand for, and what   *)
(* set_mode and to_json make loads again with the one mode changed.        *)
PolicyFileExact ==
    Policy!Decides(PolicyDocuments, BegunDocuments) /\ Policy!WrittenLoads
====
