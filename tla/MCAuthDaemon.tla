----------------------------- MODULE MCAuthDaemon -----------------------------
(* Instances of AuthDaemon for TLC. *)
EXTENDS AuthDaemonService, TLC

CONSTANTS u1, u2, t1

Ask(p, k, u) == [peer |-> p, kind |-> k, uid |-> u, target |-> t1, timeout |-> 2]

(* A user asks for themself. *)
AuthByUser == {Ask(u1, "auth", u1)}

(* Requests that need no worker, some of them on behalf of someone else.   *)
Queries == {Ask(u1, "status", u1), Ask(u2, "status", u1), Ask(u2, "auth", u1),
            Ask(Root, "freshness", u1), Ask(u1, "freshness", u1), Ask(u2, "undecodable", u2)}

Symmetry == Permutations(Conns) \cup Permutations(FileIds)
====
