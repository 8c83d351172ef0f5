---------------------------- MODULE MCSystemProfile ----------------------------
(***************************************************************************)
(* SystemProfileSync and ProfileDuringAttempt for TLC: the helpers of one  *)
(* user, with the most runs and failures; an attempt of the daemon while   *)
(* they run; and the helpers of two users, with one target.  A behaviour   *)
(* is of the kind that part names.                                         *)
(*                                                                         *)
(* The properties are those of the two modules: ProfilesUsable,            *)
(* DoneAsReported, SingleFailureRestores, ChangesConfined and              *)
(* AttemptSeesOneProfile.                                                  *)
(***************************************************************************)
EXTENDS ProfileDuringAttempt, TLC

CONSTANTS u1, u2, t0

VARIABLE part

ASSUME SyncAssumption

(* What a part exercises: its users, its targets, and its bounds. *)
Within ==
    [helpers |-> [users |-> {u1}, targets |-> Targets \ {t0}, runs |-> 3, faults |-> 3],
     attempt |-> [users |-> {u1}, targets |-> Targets \ {t0}, runs |-> 2, faults |-> 2],
     users |-> [users |-> {u1, u2}, targets |-> {t0}, runs |-> 2, faults |-> 2]]

Start ==
    /\ part \in DOMAIN Within
    /\ AttemptInit
    /\ \A u \in Users : profile[u] # None => u \in Within[part].users
    /\ policy \subseteq Within[part].users \X Within[part].targets

HelpersMove ==
    /\ HelpersNext /\ UNCHANGED part
    /\ runs' <= Within[part].runs /\ faults' <= Within[part].faults
    /\ \A p \in Procs : op'[p] # None =>
          op'[p].user \in Within[part].users /\ op'[p].target \in Within[part].targets

AttemptMoves == part = "attempt" /\ AttemptNext /\ UNCHANGED part

Host == Start /\ [][HelpersMove \/ AttemptMoves]_<<part, allVars>>

(* Helpers are interchangeable, and so are the two targets of one user. *)
Symmetry == Permutations(Procs) \cup Permutations(Targets \ {t0})
====
