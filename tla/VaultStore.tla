----------------------------- MODULE VaultStore ------------------------------
(***************************************************************************)
(* What the template vault promises its callers: one value that is         *)
(* replaced or removed in one step, by a caller whose key opens it, and    *)
(* that a power loss leaves as it was before or after such a step.  Only   *)
(* a reset removes what no key opens.                                      *)
(***************************************************************************)
CONSTANTS
    Keys,         \* master keys
    Profiles,     \* enrolled profiles
    Absent,       \* no vault
    Unreadable    \* a vault that no key of this build opens

VARIABLES
    store,        \* the value
    survivors     \* the values a power loss may leave

storeVars == <<store, survivors>>

Sealed == [key : Keys, prof : Profiles]

Opens(k) == store \in Sealed /\ store.key = k

StoreInit == store \in Sealed \cup {Absent, Unreadable} /\ survivors = {store}

Becomes(v) == store' = v /\ survivors' = survivors \cup {v}

Commit == \E k \in Keys, d \in Profiles :
    (store = Absent \/ Opens(k)) /\ Becomes([key |-> k, prof |-> d])

Rotate == \E k \in Keys, new \in Keys :
    Opens(k) /\ Becomes([store EXCEPT !.key = new])

Delete == \E k \in Keys : Opens(k) /\ Becomes(Absent)

Reset == store # Absent /\ Becomes(Absent)

Sync == survivors' = {store} /\ store' = store

PowerLoss == store' \in survivors /\ survivors' = {store'}

StoreNext == Commit \/ Rotate \/ Delete \/ Reset \/ Sync \/ PowerLoss

StoreSpec == StoreInit /\ [][StoreNext]_storeVars
====
