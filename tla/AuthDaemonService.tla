-------------------------- MODULE AuthDaemonService ---------------------------
(***************************************************************************)
(* The daemon implements AuthService: its state seen as attempts, a camera *)
(* and the policy they began with.                                         *)
(***************************************************************************)
EXTENDS AuthDaemon

stage ==
    [c \in Conns |->
        CASE pc[c] \in {"out", "backlog", "queued", "reading", "dispatch"} -> "idle"
          [] pc[c] \in HoldsPolicy -> "trying"
          [] Granted(c) -> "granted"
          [] pc[c] = "closed" -> "done"
          [] OTHER -> "refused"]

camera == {c \in Conns : Alive(c)}

matched ==
    {c \in Conns : /\ pc[c] \in HoldsPolicy
                   /\ \/ status[c] = "SUCCESS"
                      \/ \E i \in DOMAIN pipe[c] : pipe[c][i] = "SUCCESS"}

valid == {c \in Conns : pc[c] \in HoldsPolicy /\ ~changed[c]}

Service == INSTANCE AuthService
             WITH Conns <- Conns, stage <- stage, camera <- camera, matched <- matched, valid <- valid

(* Every behaviour of the daemon is one of the service: workers never      *)
(* overlap, and an attempt is accepted only after its own worker matched,  *)
(* while it was still waited for, under the policy the attempt began with  *)
(* (dispatch_request_until_with_client, supervise_auth_worker).            *)
ImplementsService == Service!Spec
====
