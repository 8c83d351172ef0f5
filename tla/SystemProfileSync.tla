-------------------------- MODULE SystemProfileSync --------------------------
(***************************************************************************)
(* The privileged helpers that change what the daemon authenticates        *)
(* against: kfaceauth-sync-vault (enable, resync, disable, delete) and     *)
(* kfaceauth-policy --set, on one file system.  Per user there are a       *)
(* system profile, the key it is encrypted with, and the copies a delete   *)
(* moved out of service; one policy file lists the enabled targets.        *)
(*                                                                         *)
(* A helper is a process p; pc[p] is its program point.  Each step that    *)
(* touches the file system may fail, and a helper may be killed between    *)
(* any two steps; flock releases its locks then.                           *)
(***************************************************************************)
EXTENDS Integers

CONSTANTS
    Procs,      \* helper processes that may run at the same time
    Users,      \* UIDs
    Targets,    \* AuthTarget: Sddm, PlasmaLock
    Kinds,      \* the operations an instance exercises
    None,       \* no file, no holder, no value
    Partial,    \* a profile directory whose removal stopped half way
    MaxRuns,    \* bound of the model: operations started
    MaxFaults   \* bound of the model: failing calls and kills

SyncKinds == {"enable", "resync"}
AllKinds == SyncKinds \cup {"disable", "delete", "set", "unset"}

Profiles == [run : Nat, key : Nat]
Policies == SUBSET (Users \X Targets)
Ops == [kind : AllKinds, user : Users, target : Targets, run : Nat]
Founds == [profile : Profiles \cup {None, Partial}, key : Nat \cup {None}, entries : Policies]

SyncAssumption ==
    /\ Kinds \subseteq AllKinds
    /\ None \notin Procs \cup Nat /\ Partial # None
    /\ None \notin Profiles \cup Ops \cup Founds /\ Partial \notin Profiles
    /\ MaxRuns \in Nat /\ MaxFaults \in Nat

VARIABLES
    policy,       \* contents of policy.json: the enabled (user, target) pairs
    policyId,     \* identity of that file: the number of the rename that made it
    profile,      \* [Users -> the installed system profile]
    key,          \* [Users -> the system key]
    revoked,      \* [Users -> the .revoked-UID-* copies, by kind and run]
    profileLock,  \* [Users -> holder of .sync-UID.lock]
    policyLock,   \* holder of .policy.lock
    pc,           \* [Procs -> program point]
    op,           \* [Procs -> the operation]
    prev,         \* [Procs -> previous_policy]
    sysKey,       \* [Procs -> system_key]
    newKey,       \* [Procs -> is NewKeyGuard armed]
    backup,       \* [Procs -> the profile moved aside]
    before,       \* [Procs -> the user's state when the lock was taken] (history)
    hit,          \* [Procs -> errors this operation met] (history)
    runs,         \* operations started
    faults        \* failures so far

policyVars == <<policy, policyId>>
dataVars == <<profile, key, revoked>>
lockVars == <<profileLock, policyLock>>
memVars == <<op, prev, sysKey, newKey, backup, before>>
vars == <<policyVars, dataVars, lockVars, pc, memVars, hit, runs, faults>>

Entries(pol, u) == {e \in pol : e[1] = u}
Intact(u) == profile[u] \notin {None, Partial}
Opens(u, k) == Intact(u) /\ k # None /\ profile[u].key = k

User(p) == op[p].user
Kind(p) == op[p].kind
Entry(p) == <<op[p].user, op[p].target>>

Points == {"idle", "lock", "key", "stage", "setup", "policylock", "load", "revoke", "aside",
           "install", "reinstate", "verify", "activate", "rerevoke", "discard", "reseat",
           "discardagain", "reseatagain", "restore", "putback", "write", "validate",
           "moveprofile", "movekey", "unmove", "clear", "unwind", "dropkey", "exit", "done"}

TypeOK ==
    /\ policy \in Policies /\ policyId \in Nat
    /\ profile \in [Users -> Profiles \cup {None, Partial}]
    /\ key \in [Users -> Nat \cup {None}]
    /\ revoked \in [Users -> SUBSET ({"profile", "key"} \X Nat)]
    /\ profileLock \in [Users -> Procs \cup {None}]
    /\ policyLock \in Procs \cup {None}
    /\ pc \in [Procs -> Points]
    /\ op \in [Procs -> Ops \cup {None}]
    /\ \A p \in Procs : pc[p] # "idle" => op[p] \in Ops
    /\ prev \in [Procs -> Policies]
    /\ sysKey \in [Procs -> Nat \cup {None}]
    /\ newKey \in [Procs -> BOOLEAN]
    /\ backup \in [Procs -> Profiles \cup {None, Partial}]
    /\ before \in [Procs -> Founds \cup {None}]
    /\ hit \in [Procs -> Nat] /\ runs \in Nat /\ faults \in Nat

(* Some users have been provisioned before, with any of their targets on.  *)
Init ==
    /\ \E S \in SUBSET Users :
          /\ profile = [u \in Users |-> IF u \in S THEN [run |-> 0, key |-> 0] ELSE None]
          /\ key = [u \in Users |-> IF u \in S THEN 0 ELSE None]
          /\ policy \in SUBSET (S \X Targets)
    /\ policyId = 0
    /\ revoked = [u \in Users |-> {}]
    /\ profileLock = [u \in Users |-> None] /\ policyLock = None
    /\ pc = [p \in Procs |-> "idle"]
    /\ op = [p \in Procs |-> None]
    /\ prev = [p \in Procs |-> {}]
    /\ sysKey = [p \in Procs |-> None]
    /\ newKey = [p \in Procs |-> FALSE]
    /\ backup = [p \in Procs |-> None]
    /\ before = [p \in Procs |-> None]
    /\ hit = [p \in Procs |-> 0]
    /\ runs = 0 /\ faults = 0

-----------------------------------------------------------------------------
(* A step succeeds and p goes on; or the code finds a reason to refuse, or *)
(* a call fails, and p takes its error path.                               *)
Goes(p, to) ==
    /\ pc' = [pc EXCEPT ![p] = to]
    /\ UNCHANGED <<hit, faults>>

Refuses(p, to) ==
    /\ pc' = [pc EXCEPT ![p] = to]
    /\ hit' = [hit EXCEPT ![p] = @ + 1]
    /\ faults' = faults

Fault == faults < MaxFaults /\ faults' = faults + 1

Fails(p, to) ==
    /\ pc' = [pc EXCEPT ![p] = to]
    /\ hit' = [hit EXCEPT ![p] = @ + 1]
    /\ Fault

(* write_atomic, and write_policy, which also reads the file back.  An     *)
(* error before the rename leaves the old file; one after it (syncing the  *)
(* directory, reading back) is reported although the new file is in place. *)
Replace(pol) == policy' = pol /\ policyId' = policyId + 1

write_policy(p, pol, ok, err) ==
    /\ \/ Replace(pol) /\ Goes(p, ok)
       \/ Replace(pol) /\ Fails(p, err)
       \/ UNCHANGED policyVars /\ Fails(p, err)
    /\ UNCHANGED <<dataVars, lockVars, memVars, runs>>

(* Mutant: the policy written is an empty one. *)
RevokeEveryone(p) == {}

revoke_user_targets(p) == prev[p] \ Entries(prev[p], User(p))

(* set_mode on a copy of the policy that was loaded; a resync changes none *)
(* of the modes.                                                           *)
set_mode(p) ==
    CASE Kind(p) \in {"enable", "set"}    -> prev[p] \cup {Entry(p)}
      [] Kind(p) \in {"disable", "unset"} -> prev[p] \ {Entry(p)}
      [] OTHER                            -> prev[p]

(* Locks and local variables of a process that ends.                       *)
Release(p) ==
    /\ profileLock' = [u \in Users |-> IF profileLock[u] = p THEN None ELSE profileLock[u]]
    /\ policyLock' = IF policyLock = p THEN None ELSE policyLock

Forget(p) ==
    /\ op' = [op EXCEPT ![p] = None]
    /\ prev' = [prev EXCEPT ![p] = {}]
    /\ sysKey' = [sysKey EXCEPT ![p] = None]
    /\ newKey' = [newKey EXCEPT ![p] = FALSE]
    /\ backup' = [backup EXCEPT ![p] = None]
    /\ before' = [before EXCEPT ![p] = None]
    /\ hit' = [hit EXCEPT ![p] = 0]

-----------------------------------------------------------------------------
(* The common head: arguments, the profile lock, the policy lock.          *)

(* A helper starts.  kfaceauth-policy, asked to turn off what is off       *)
(* already, succeeds at once without taking a lock.                        *)
Begin(p) ==
    /\ pc[p] = "idle" /\ runs < MaxRuns
    /\ \E k \in Kinds, u \in Users, t \in Targets :
          /\ k = "unset" => <<u, t>> \in policy
          /\ op' = [op EXCEPT ![p] = [kind |-> k, user |-> u, target |-> t, run |-> runs + 1]]
    /\ runs' = runs + 1
    /\ Goes(p, "lock")
    /\ UNCHANGED <<policyVars, dataVars, lockVars, prev, sysKey, newKey, backup, before>>

AfterLock(p) ==
    CASE Kind(p) \in SyncKinds          -> "key"
      [] Kind(p) = "delete"             -> "validate"
      [] Kind(p) = "set"                -> "setup"
      [] Kind(p) \in {"disable", "unset"} -> "policylock"

(* What the operation finds, for the history variable. *)
Found(p) == [profile |-> profile[User(p)], key |-> key[User(p)],
             entries |-> Entries(policy, User(p))]

(* .sync-UID.lock, without waiting. *)
Lock(p) ==
    /\ pc[p] = "lock"
    /\ \/ /\ profileLock[User(p)] = None
          /\ profileLock' = [profileLock EXCEPT ![User(p)] = p]
          /\ before' = [before EXCEPT ![p] = Found(p)]
          /\ Goes(p, AfterLock(p))
       \/ /\ profileLock[User(p)] # None
          /\ Refuses(p, "exit") /\ UNCHANGED <<profileLock, before>>
       \/ Fails(p, "exit") /\ UNCHANGED <<profileLock, before>>
    /\ UNCHANGED <<policyVars, dataVars, policyLock, op, prev, sysKey, newKey, backup, runs>>

(* .policy.lock, without waiting. *)
TakePolicyLock(p) ==
    /\ pc[p] = "policylock"
    /\ \/ policyLock = None /\ policyLock' = p /\ Goes(p, "load")
       \/ policyLock # None /\ policyLock' = policyLock /\ Refuses(p, "unwind")
       \/ policyLock' = policyLock /\ Fails(p, "unwind")
    /\ UNCHANGED <<policyVars, dataVars, profileLock, memVars, runs>>

(* load_policy, and the reload of kfaceauth-policy under the lock.         *)
Load(p) ==
    /\ pc[p] = "load"
    /\ \/ /\ prev' = [prev EXCEPT ![p] = policy]
          /\ Goes(p, IF Kind(p) \in SyncKinds \cup {"delete"} THEN "revoke" ELSE "write")
       \/ prev' = prev /\ Fails(p, "unwind")
    /\ UNCHANGED <<policyVars, dataVars, lockVars, op, sysKey, newKey, backup, before, runs>>

(* profile_is_ready of kfaceauth-policy; kfaceauth-pam-setup wants the     *)
(* same two files.                                                         *)
profile_is_ready(u) == Intact(u) /\ key[u] # None

(* kfaceauth-pam-setup --prepare-target. *)
Setup(p) ==
    /\ pc[p] = "setup"
    /\ \/ profile_is_ready(User(p)) /\ Goes(p, "policylock")
       \/ ~profile_is_ready(User(p)) /\ Refuses(p, "unwind")
       \/ Fails(p, "unwind")
    /\ UNCHANGED <<policyVars, dataVars, lockVars, memVars, runs>>

-----------------------------------------------------------------------------
(* disable_target, and the end of kfaceauth-policy, which puts the         *)
(* previous policy back when an activation fails.                          *)
Write(p) ==
    /\ pc[p] = "write"
    /\ write_policy(p, set_mode(p), "done", IF Kind(p) = "set" THEN "putback" ELSE "unwind")

(* The previous policy is written again; whether that works or not, the    *)
(* operation has failed.                                                   *)
PutBack(p) ==
    /\ pc[p] = "putback"
    /\ write_policy(p, prev[p], "unwind", "unwind")

-----------------------------------------------------------------------------
(* sync_profile                                                            *)

(* Mutant: a missing key is replaced although a profile exists. *)
GenerateAnyway(p) == IF key[User(p)] # None THEN key[User(p)] ELSE op[p].run

(* The stored key, or a new one; but a profile without its key is never    *)
(* given a new one.                                                        *)
load_or_generate_system_key(p) ==
    IF key[User(p)] # None THEN key[User(p)]
    ELSE IF profile[User(p)] = None THEN op[p].run ELSE None

(* The session input, the key, and for a new key the guard, the sealing    *)
(* and the checks of the stored file, which may fail with the guard armed. *)
LoadKey(p) ==
    LET u == User(p)
        k == load_or_generate_system_key(p)
    IN
    /\ pc[p] = "key"
    /\ \/ /\ k # None
          /\ sysKey' = [sysKey EXCEPT ![p] = k]
          /\ newKey' = [newKey EXCEPT ![p] = (key[u] = None)]
          /\ key' = [key EXCEPT ![u] = k]
          /\ Goes(p, "stage") \/ (key[u] = None /\ Fails(p, "unwind"))
       \/ k = None /\ Refuses(p, "unwind") /\ UNCHANGED <<key, sysKey, newKey>>
       \/ Fails(p, "unwind") /\ UNCHANGED <<key, sysKey, newKey>>
    /\ UNCHANGED <<policyVars, profile, revoked, lockVars, op, prev, backup, before, runs>>

(* The user's profile is re-encrypted into a staging directory, verified,  *)
(* and given its freshness record.                                         *)
Stage(p) ==
    /\ pc[p] = "stage"
    /\ \/ Goes(p, IF Kind(p) = "enable" THEN "setup" ELSE "policylock")
       \/ Fails(p, "unwind")
    /\ UNCHANGED <<policyVars, dataVars, lockVars, memVars, runs>>

Staged(p) == [run |-> op[p].run, key |-> sysKey[p]]

(* commit_verified_profile revokes the user before touching the profile,   *)
(* and so does delete_system_profile.  Only the former restores the policy *)
(* when that fails.                                                        *)
Revoke(p) ==
    /\ pc[p] = "revoke"
    /\ IF Kind(p) = "delete"
       THEN write_policy(p, revoke_user_targets(p), "moveprofile", "unwind")
       ELSE write_policy(p, revoke_user_targets(p), "aside", "putback")

(* install_staged_profile: the existing profile must be well formed, and   *)
(* is moved aside.                                                         *)
MoveAside(p) ==
    LET u == User(p) IN
    /\ pc[p] = "aside"
    /\ \/ /\ profile[u] # Partial
          /\ backup' = [backup EXCEPT ![p] = profile[u]]
          /\ profile' = [profile EXCEPT ![u] = None]
          /\ Goes(p, "install")
       \/ profile[u] = Partial /\ Refuses(p, "restore") /\ UNCHANGED <<backup, profile>>
       \/ Fails(p, "restore") /\ UNCHANGED <<backup, profile>>
    /\ UNCHANGED <<policyVars, key, revoked, lockVars, op, prev, sysKey, newKey, before, runs>>

(* A profile, if there is one, is renamed to its place.                    *)
PutProfile(p, prof, ok, err) ==
    /\ \/ profile' = [profile EXCEPT ![User(p)] = prof] /\ Goes(p, ok)
       \/ prof # None /\ profile' = profile /\ Fails(p, err)
    /\ UNCHANGED <<policyVars, key, revoked, lockVars, memVars, runs>>

Install(p) ==
    /\ pc[p] = "install"
    /\ PutProfile(p, Staged(p), "verify", "reinstate")

(* The rename failed: the previous profile is moved back, if it can be.    *)
Reinstate(p) ==
    /\ pc[p] = "reinstate"
    /\ PutProfile(p, backup[p], "restore", "restore")

(* Integrity, freshness record and a sync of the directory.                *)
Verify(p) ==
    /\ pc[p] = "verify"
    /\ Goes(p, "activate") \/ Fails(p, "discard")
    /\ UNCHANGED <<policyVars, dataVars, lockVars, memVars, runs>>

Activate(p) ==
    /\ pc[p] = "activate"
    /\ write_policy(p, set_mode(p), "done", "rerevoke")

(* The activation failed, perhaps after its rename.  Unless the user is    *)
(* revoked again the new profile stays: an enabled policy may be visible.  *)
Rerevoke(p) ==
    /\ pc[p] = "rerevoke"
    /\ write_policy(p, revoke_user_targets(p), "discard", "unwind")

(* ProfileSwap::rollback: remove the new profile, which may stop half way, *)
(* and move the previous one back.  Drop tries once more.                  *)
RemoveProfile(p, ok, err) ==
    /\ \/ profile' = [profile EXCEPT ![User(p)] = None] /\ Goes(p, ok)
       \/ /\ Fails(p, err) /\ profile[User(p)] # None
          /\ profile' \in {profile, [profile EXCEPT ![User(p)] = Partial]}
    /\ UNCHANGED <<policyVars, key, revoked, lockVars, memVars, runs>>

Discard(p) ==
    /\ pc[p] = "discard"
    /\ RemoveProfile(p, "reseat", "discardagain")

Reseat(p) ==
    /\ pc[p] = "reseat"
    /\ PutProfile(p, backup[p], "restore", "discardagain")

DiscardAgain(p) ==
    /\ pc[p] = "discardagain"
    /\ RemoveProfile(p, "reseatagain", "unwind")

ReseatAgain(p) ==
    /\ pc[p] = "reseatagain"
    /\ PutProfile(p, backup[p], "unwind", "unwind")

(* restore_previous_policy: a policy that enables the user is put back     *)
(* only if the installed profile opens with the key.                       *)
Restore(p) ==
    /\ pc[p] = "restore"
    /\ LET verified == Entries(prev[p], User(p)) = {} \/ Opens(User(p), sysKey[p])
       IN  \/ verified /\ Goes(p, "putback")
           \/ ~verified /\ Refuses(p, "unwind")
           \/ Fails(p, "unwind")
    /\ UNCHANGED <<policyVars, dataVars, lockVars, memVars, runs>>

-----------------------------------------------------------------------------
(* delete_system_profile                                                   *)

Validate(p) ==
    /\ pc[p] = "validate"
    /\ \/ profile[User(p)] # Partial /\ Goes(p, "policylock")
       \/ profile[User(p)] = Partial /\ Refuses(p, "unwind")
       \/ Fails(p, "unwind")
    /\ UNCHANGED <<policyVars, dataVars, lockVars, memVars, runs>>

(* The profile, then the key, is renamed out of service if there is one.   *)
MoveProfile(p) ==
    LET u == User(p) IN
    /\ pc[p] = "moveprofile"
    /\ \/ /\ profile[u] # None
          /\ backup' = [backup EXCEPT ![p] = profile[u]]
          /\ profile' = [profile EXCEPT ![u] = None]
          /\ revoked' = [revoked EXCEPT ![u] = @ \cup {<<"profile", op[p].run>>}]
          /\ Goes(p, "movekey")
       \/ profile[u] # None /\ Fails(p, "putback") /\ UNCHANGED <<backup, profile, revoked>>
       \/ profile[u] = None /\ Goes(p, "movekey") /\ UNCHANGED <<backup, profile, revoked>>
    /\ UNCHANGED <<policyVars, key, lockVars, op, prev, sysKey, newKey, before, runs>>

MoveKey(p) ==
    LET u == User(p) IN
    /\ pc[p] = "movekey"
    /\ \/ /\ key[u] # None
          /\ key' = [key EXCEPT ![u] = None]
          /\ revoked' = [revoked EXCEPT ![u] = @ \cup {<<"key", op[p].run>>}]
          /\ Goes(p, "clear")
       \/ key[u] # None /\ Fails(p, "unmove") /\ UNCHANGED <<key, revoked>>
       \/ key[u] = None /\ Goes(p, "clear") /\ UNCHANGED <<key, revoked>>
    /\ UNCHANGED <<policyVars, profile, lockVars, memVars, runs>>

(* The key could not be moved: the profile goes back, then the policy.     *)
Unmove(p) ==
    LET u == User(p) IN
    /\ pc[p] = "unmove"
    /\ \/ /\ profile' = [profile EXCEPT ![u] = backup[p]]
          /\ revoked' = [revoked EXCEPT ![u] = @ \ {<<"profile", op[p].run>>}]
          /\ Goes(p, "putback")
       \/ backup[p] # None /\ Fails(p, "unwind") /\ UNCHANGED <<profile, revoked>>
    /\ UNCHANGED <<policyVars, key, lockVars, memVars, runs>>

(* Mutant: only the copies of this run are removed. *)
ClearOwn(p, rest) ==
    revoked' = [revoked EXCEPT ![User(p)] = {c \in @ : c[2] # op[p].run}]

(* The revoked copies of the user, of whatever run, are removed up to some *)
(* rest, which is empty unless an entry cannot be removed.                 *)
clear_revoked_copies(p, rest) == revoked' = [revoked EXCEPT ![User(p)] = rest]

(* The directories are synced, the copies removed, the directories synced. *)
Clear(p) ==
    /\ pc[p] = "clear"
    /\ \/ clear_revoked_copies(p, {}) /\ Goes(p, "done")
       \/ /\ \E rest \in SUBSET revoked[User(p)] : clear_revoked_copies(p, rest)
          /\ Fails(p, "unwind")
    /\ UNCHANGED <<policyVars, profile, key, lockVars, memVars, runs>>

-----------------------------------------------------------------------------
(* The end of an operation.                                                *)

(* An error return drops the policy lock, then NewKeyGuard.                *)
Unwind(p) ==
    /\ pc[p] = "unwind"
    /\ policyLock' = IF policyLock = p THEN None ELSE policyLock
    /\ Goes(p, IF newKey[p] THEN "dropkey" ELSE "exit")
    /\ UNCHANGED <<policyVars, dataVars, profileLock, memVars, runs>>

(* Mutant: NewKeyGuard does nothing. *)
DropKeyNever(p) ==
    /\ pc[p] = "dropkey"
    /\ Goes(p, "exit")
    /\ UNCHANGED <<policyVars, dataVars, lockVars, memVars, runs>>

(* NewKeyGuard::drop removes the key this operation made. *)
DropKey(p) ==
    /\ pc[p] = "dropkey"
    /\ \/ key' = [key EXCEPT ![User(p)] = None] /\ Goes(p, "exit")
       \/ key' = key /\ Fails(p, "exit")
    /\ UNCHANGED <<policyVars, profile, revoked, lockVars, memVars, runs>>

(* The process ends, with FAILURE at "exit" and with SUCCESS at "done".    *)
(* After a swap the copy set aside is removed.                             *)
Finish(p) ==
    /\ pc[p] \in {"exit", "done"}
    /\ pc' = [pc EXCEPT ![p] = "idle"]
    /\ Release(p) /\ Forget(p)
    /\ UNCHANGED <<policyVars, dataVars, runs, faults>>

(* The process is killed.  A removal in progress may be left half done.    *)
Crash(p) ==
    /\ pc[p] # "idle"
    /\ Fault
    /\ pc' = [pc EXCEPT ![p] = "idle"]
    /\ Release(p) /\ Forget(p)
    /\ \/ profile' = profile
       \/ /\ pc[p] \in {"discard", "discardagain"} /\ profile[User(p)] # None
          /\ profile' = [profile EXCEPT ![User(p)] = Partial]
    /\ UNCHANGED <<policyVars, key, revoked, runs>>

Step(p) ==
    \/ Begin(p) \/ Lock(p) \/ TakePolicyLock(p) \/ Load(p) \/ Setup(p) \/ Write(p) \/ PutBack(p)
    \/ LoadKey(p) \/ Stage(p) \/ Revoke(p) \/ MoveAside(p) \/ Install(p) \/ Reinstate(p)
    \/ Verify(p) \/ Activate(p) \/ Rerevoke(p) \/ Discard(p) \/ Reseat(p) \/ DiscardAgain(p)
    \/ ReseatAgain(p) \/ Restore(p) \/ Validate(p) \/ MoveProfile(p) \/ MoveKey(p) \/ Unmove(p)
    \/ Clear(p) \/ Unwind(p) \/ DropKey(p) \/ Finish(p) \/ Crash(p)

Next == \E p \in Procs : Step(p)

Spec == Init /\ [][Next]_vars

-----------------------------------------------------------------------------
(* A profile or a key that the daemon may be using is never replaced: they *)
(* change only in steps that begin and end with all of the user's targets  *)
(* off.  commit_verified_profile and delete_system_profile revoke first,   *)
(* keep the new profile when they cannot revoke again, and restore last.   *)
SwapOnlyWhileRevoked ==
    \A u \in Users :
       profile'[u] # profile[u] \/ key'[u] # key[u]
           => Entries(policy, u) = {} /\ Entries(policy', u) = {}

(* An enabled target always has an intact profile and the key that opens   *)
(* it, whatever fails or dies in any helper.                               *)
EnabledProfileOpens == \A e \in policy : Opens(e[1], key[e[1]])

(* A profile and a key that are both installed belong together, so that    *)
(* enabling, which only looks whether both exist, enables a usable pair.   *)
KeyFitsProfile == \A u \in Users : Intact(u) /\ key[u] # None => Opens(u, key[u])

(* The two together: what the daemon finds installed is usable. *)
ProfilesUsable == EnabledProfileOpens /\ KeyFitsProfile

(* A helper changes the policy of its own user only: the whole file is     *)
(* rewritten, from contents loaded under the policy lock.                  *)
OthersUntouched ==
    \A u \in Users : Entries(policy', u) # Entries(policy, u)
       => \E p \in Procs : pc'[p] # pc[p] /\ op[p] # None /\ op[p].user = u

(* Every step of every helper keeps to both rules. *)
ChangesConfined == [][SwapOnlyWhileRevoked /\ OthersUntouched]_vars

(* What SUCCESS reports is the case when it is reported: the new profile   *)
(* installed with its modes, the mode set, or nothing of the user left.    *)
DoneAsReported ==
    \A p \in Procs : pc[p] = "done" =>
        LET u == User(p) IN
        /\ Kind(p) \in SyncKinds => profile[u] = Staged(p) /\ Opens(u, key[u])
        /\ Kind(p) = "resync" => Entries(policy, u) = before[p].entries
        /\ Kind(p) \in {"enable", "set"} => Entries(policy, u) = before[p].entries \cup {Entry(p)}
        /\ Kind(p) \in {"disable", "unset"} => Entries(policy, u) = before[p].entries \ {Entry(p)}
        /\ Kind(p) = "delete" => /\ profile[u] = None /\ key[u] = None
                                 /\ revoked[u] = {} /\ Entries(policy, u) = {}

(* A single error during enable, resync or set costs nothing: the          *)
(* operation fails with the user's profile, key and modes as it found      *)
(* them.  (After a kill, or if the recovery fails too, the user may be     *)
(* left revoked.)                                                          *)
SingleFailureRestores ==
    \A p \in Procs :
        pc[p] = "exit" /\ before[p] # None /\ Kind(p) \in SyncKinds \cup {"set"} /\ hit[p] <= 1
            => /\ profile[User(p)] = before[p].profile
               /\ key[User(p)] = before[p].key
               /\ Entries(policy, User(p)) = before[p].entries
====
