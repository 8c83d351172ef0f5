----------------------------- MODULE AuthService ------------------------------
(***************************************************************************)
(* What kfaceauthd promises to the PAM services that ask it: attempts may  *)
(* come in any number and overlap, but the camera is used by one worker at *)
(* a time, and an attempt is granted only when its worker matched the face *)
(* and has left the camera, and the policy in force when the attempt began *)
(* has not been replaced since.  Everything else may be refused at will.   *)
(***************************************************************************)
CONSTANT Conns

VARIABLES
    stage,     \* [Conns -> "idle", "trying", "granted", "refused", "done"]
    camera,    \* attempts whose worker may use the camera
    matched,   \* attempts under way whose worker matched the face
    valid      \* attempts under way that began with the policy now in force

vars == <<stage, camera, matched, valid>>

Init ==
    /\ stage = [c \in Conns |-> "idle"]
    /\ camera = {}
    /\ matched = {}
    /\ valid = {}

Begin(c) ==
    /\ stage[c] = "idle"
    /\ stage' = [stage EXCEPT ![c] = "trying"]
    /\ valid' = valid \cup {c}
    /\ UNCHANGED <<camera, matched>>

PolicyReplaced ==
    /\ valid' = {}
    /\ UNCHANGED <<stage, camera, matched>>

StartWorker(c) ==
    /\ stage[c] = "trying"
    /\ camera = {}
    /\ camera' = {c}
    /\ UNCHANGED <<stage, matched, valid>>

(* The worker reports a match; the attempt may have been given up by then. *)
Match(c) ==
    /\ c \in camera
    /\ stage[c] = "trying"
    /\ matched' = matched \cup {c}
    /\ UNCHANGED <<stage, camera, valid>>

StopWorker(c) ==
    /\ c \in camera
    /\ camera' = camera \ {c}
    /\ UNCHANGED <<stage, matched, valid>>

Grant(c) ==
    /\ stage[c] = "trying"
    /\ c \in matched /\ c \in valid
    /\ c \notin camera
    /\ stage' = [stage EXCEPT ![c] = "granted"]
    /\ matched' = matched \ {c}
    /\ valid' = valid \ {c}
    /\ UNCHANGED camera

Refuse(c) ==
    /\ stage[c] \in {"idle", "trying"}
    /\ stage' = [stage EXCEPT ![c] = "refused"]
    /\ matched' = matched \ {c}
    /\ valid' = valid \ {c}
    /\ UNCHANGED camera

(* The connection ends: after an answer, or without any attempt.           *)
End(c) ==
    /\ stage[c] \in {"idle", "granted", "refused"}
    /\ stage' = [stage EXCEPT ![c] = "done"]
    /\ UNCHANGED <<camera, matched, valid>>

Next ==
    \/ PolicyReplaced
    \/ \E c \in Conns : \/ Begin(c) \/ StartWorker(c) \/ Match(c) \/ StopWorker(c)
                        \/ Grant(c) \/ Refuse(c) \/ End(c)

Spec == Init /\ [][Next]_vars
====
