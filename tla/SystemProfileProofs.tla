-------------------------- MODULE SystemProfileProofs --------------------------
(***************************************************************************)
(* The helpers that change system profiles, and an attempt of the daemon   *)
(* while they run, for any number of helpers, users, targets, operations   *)
(* and failures.                                                           *)
(*                                                                         *)
(* The inductive invariant says, per process and program point, what the   *)
(* locks guarantee: which lock the process holds, and how profile, key and *)
(* modes of its user relate to what it found and to what it remembers.     *)
(***************************************************************************)
EXTENDS ProfileDuringAttempt, TLAPS

Others(pol, u) == pol \ Entries(pol, u)

(* Points at which the policy lock is held, and the policy was loaded.     *)
Loaded == {"revoke", "aside", "install", "reinstate", "verify", "activate", "rerevoke", "discard",
           "reseat", "discardagain", "reseatagain", "restore", "putback", "write", "moveprofile",
           "movekey", "unmove", "clear", "done"}
Policed == {"load"} \cup Loaded

(* Points at which all targets of the user are off. *)
Swapping == {"aside", "install", "reinstate", "verify", "activate", "discard", "reseat",
             "discardagain", "reseatagain", "restore", "moveprofile", "movekey", "unmove", "clear"}

(* Points before the first change of the modes. *)
Looking == {"key", "stage", "setup", "validate", "policylock", "load", "revoke", "write"}

(* A usable pair: enabled targets have a profile and its key, and the key  *)
(* is the profile's.                                                       *)
Usable(f) ==
    /\ f.entries # {} => f.profile \in Profiles /\ f.key = f.profile.key
    /\ f.profile \in Profiles /\ f.key # None => f.key = f.profile.key

(* The locks: from the profile lock on, what was found is known. *)
LockInv(p) ==
    /\ pc[p] \in {"idle", "lock"} => before[p] = None /\ ~newKey[p]
    /\ pc[p] \notin {"idle", "lock", "exit"} => before[p] # None
    /\ before[p] # None => /\ Usable(before[p])
                           /\ op[p] \in Ops /\ profileLock[User(p)] = p
    /\ pc[p] \in Policed => policyLock = p

(* Which operation is at a point. *)
KindInv(p) ==
    /\ pc[p] \in {"key", "stage", "aside", "install", "reinstate", "verify", "activate", "rerevoke",
                  "discard", "reseat", "discardagain", "reseatagain", "restore", "dropkey"}
           => Kind(p) \in SyncKinds
    /\ pc[p] \in {"validate", "moveprofile", "movekey", "unmove", "clear"} => Kind(p) = "delete"
    /\ pc[p] = "setup" => Kind(p) \in {"enable", "set"}
    /\ pc[p] = "write" => Kind(p) \in {"disable", "unset", "set"}
    /\ pc[p] = "revoke" => Kind(p) \in SyncKinds \cup {"delete"}
    /\ pc[p] = "putback" => Kind(p) \in SyncKinds \cup {"delete", "set"}

(* The key: a new one is made only where nothing was, and no target of its *)
(* user is enabled until the operation is over.                            *)
KeyInv(p) ==
    before[p] # None =>
    /\ pc[p] = "dropkey" => newKey[p]
    /\ newKey[p] =>
          /\ Kind(p) \in SyncKinds /\ before[p].profile = None /\ before[p].key = None
          /\ Entries(policy, User(p)) = {}
          /\ Kind(p) = "enable" => pc[p] \in {"stage", "setup", "unwind", "dropkey", "exit"}
          /\ pc[p] # "key"
          /\ IF pc[p] = "exit" THEN hit[p] <= 1 => key[User(p)] = None
             ELSE key[User(p)] = sysKey[p]
    /\ ~newKey[p] /\ (Kind(p) = "delete" => pc[p] \notin {"clear", "done", "unwind", "exit"})
          => key[User(p)] = before[p].key
    /\ Kind(p) \in SyncKinds
          /\ pc[p] \in {"stage", "setup", "policylock", "load", "done"} \cup Loaded
          => sysKey[p] = key[User(p)] /\ key[User(p)] \in Nat

(* The modes: they are what was found until the operation writes, and what *)
(* it loaded differs from the file in its own user's modes only.           *)
ModeInv(p) ==
    before[p] # None =>
    /\ pc[p] \in Looking => Entries(policy, User(p)) = before[p].entries
    /\ pc[p] \in Loaded => /\ Entries(prev[p], User(p)) = before[p].entries
                           /\ Others(policy, User(p)) = Others(prev[p], User(p))
    /\ pc[p] \in Swapping => Entries(policy, User(p)) = {}
    /\ pc[p] = "putback" => before[p].entries = {} \/ Opens(User(p), key[User(p)])
    /\ pc[p] \in {"policylock", "load", "write"} /\ Kind(p) = "set"
          => before[p].profile \in Profiles /\ before[p].key # None

(* The profile: as found, moved aside or staged. *)
ProfileInv(p) ==
    before[p] # None =>
    /\ pc[p] \in Looking \cup {"aside", "moveprofile"} => profile[User(p)] = before[p].profile
    /\ pc[p] \in {"install", "reinstate", "reseat", "reseatagain", "movekey", "unmove", "clear"}
          => profile[User(p)] = None
    /\ pc[p] \in {"install", "reinstate", "verify", "activate", "rerevoke", "discard", "reseat",
                  "discardagain", "reseatagain", "movekey", "unmove"}
          => backup[p] = before[p].profile
    /\ pc[p] \in {"verify", "activate", "rerevoke"} => profile[User(p)] = Staged(p)
    /\ pc[p] = "clear" => key[User(p)] = None

(* A copy is set aside only between two moves of the profile. *)
BackupInv(p) ==
    pc[p] \in {"idle", "lock", "validate", "policylock", "load", "revoke", "moveprofile", "key",
               "stage", "setup", "aside", "write"} => backup[p] = None

(* The errors met: one is undone, for two or more nothing is promised. *)
HitInv(p) ==
    /\ pc[p] \in {"reinstate", "rerevoke", "discard", "reseat", "restore", "putback", "unwind",
                  "dropkey", "unmove"} => hit[p] >= 1
    /\ pc[p] \in {"discardagain", "reseatagain"} => hit[p] >= 2
    /\ before[p] # None /\ Kind(p) \in SyncKinds \cup {"set"} /\ hit[p] <= 1 =>
          /\ pc[p] \in {"restore", "putback", "unwind", "dropkey", "exit"}
                => profile[User(p)] = before[p].profile
          /\ pc[p] \in {"unwind", "dropkey", "exit"} => Entries(policy, User(p)) = before[p].entries

(* What is reported with SUCCESS. *)
DoneInv(p) ==
    pc[p] = "done" =>
        LET u == User(p) IN
        /\ Kind(p) \in SyncKinds => profile[u] = Staged(p) /\ Opens(u, key[u])
        /\ Kind(p) = "resync" => Entries(policy, u) = before[p].entries
        /\ Kind(p) \in {"enable", "set"} => Entries(policy, u) = before[p].entries \cup {Entry(p)}
        /\ Kind(p) \in {"disable", "unset"} => Entries(policy, u) = before[p].entries \ {Entry(p)}
        /\ Kind(p) = "delete" => /\ profile[u] = None /\ key[u] = None
                                 /\ revoked[u] = {} /\ Entries(policy, u) = {}

ProcInv(p) ==
    LockInv(p) /\ KindInv(p) /\ KeyInv(p) /\ ModeInv(p) /\ ProfileInv(p) /\ BackupInv(p)
    /\ HitInv(p) /\ DoneInv(p)

(* EnabledProfileOpens and KeyFitsProfile, for one user. *)
UserInv(u) ==
    /\ Entries(policy, u) # {} => Opens(u, key[u])
    /\ Intact(u) /\ key[u] # None => Opens(u, key[u])

Inv ==
    /\ TypeOK
    /\ \A p \in Procs : ProcInv(p)
    /\ \A u \in Users : UserInv(u)
-----------------------------------------------------------------------------
USE DEF policyVars, dataVars, lockVars, memVars

LEMMA TypeInit == ASSUME SyncAssumption, Init PROVE TypeOK
<1>1. PICK S \in SUBSET Users :
          /\ profile = [u \in Users |-> IF u \in S THEN [run |-> 0, key |-> 0] ELSE None]
          /\ key = [u \in Users |-> IF u \in S THEN 0 ELSE None]
          /\ policy \in SUBSET (S \X Targets)
  BY Zenon DEF Init
<1>2. policy \in Policies
  BY <1>1, Zenon DEF Policies
<1>3. profile \in [Users -> Profiles \cup {None, Partial}] /\ key \in [Users -> Nat \cup {None}]
  BY <1>1, Zenon DEF Profiles
<1> QED BY <1>2, <1>3, Zenon DEF Init, TypeOK, Points, Policies

(* The parts of a step that many actions share. *)
LEMMA GoesType ==
    ASSUME TypeOK, NEW p \in Procs, NEW to \in Points, Goes(p, to) \/ Refuses(p, to) \/ Fails(p, to)
    PROVE  /\ pc' \in [Procs -> Points] /\ hit' \in [Procs -> Nat] /\ faults' \in Nat
           /\ \A q \in Procs : q # p => pc'[q] = pc[q] /\ hit'[q] = hit[q]
           /\ pc'[p] = to
           /\ hit'[p] \in {hit[p], hit[p] + 1}
  BY DEF TypeOK, Goes, Refuses, Fails, Fault

LEMMA PolicyWritten ==
    ASSUME TypeOK, NEW p \in Procs, op[p] \in Ops
    PROVE  /\ prev[p] \in Policies /\ revoke_user_targets(p) \in Policies /\ set_mode(p) \in Policies
           /\ Entry(p) \in Users \X Targets /\ Entry(p)[1] = User(p) /\ User(p) \in Users
<1>1. prev[p] \in Policies /\ op[p].user \in Users /\ op[p].target \in Targets
  BY Zenon DEF TypeOK, Ops
<1>2. Entry(p) \in Users \X Targets /\ Entry(p)[1] = User(p)
  BY <1>1, Zenon DEF Entry, User
<1>3. revoke_user_targets(p) \in Policies
  BY <1>1, Zenon DEF revoke_user_targets, Policies
<1>4. set_mode(p) \in Policies
  <2>1. prev[p] \cup {Entry(p)} \in Policies /\ prev[p] \ {Entry(p)} \in Policies
    BY <1>1, <1>2, Zenon DEF Policies
  <2> QED BY <1>1, <2>1, Zenon DEF set_mode
<1> QED BY <1>1, <1>2, <1>3, <1>4, Zenon DEF User
(* A step of p between two points, as far as types go. *)
Moves(p) == \E to \in Points \ {"idle"} : Goes(p, to) \/ Refuses(p, to) \/ Fails(p, to)

LEMMA MovesType ==
    ASSUME TypeOK, NEW p \in Procs, pc[p] # "idle", Moves(p),
           policy' \in Policies, policyId' \in Nat,
           profile' \in [Users -> Profiles \cup {None, Partial}], key' \in [Users -> Nat \cup {None}],
           revoked' \in [Users -> SUBSET ({"profile", "key"} \X Nat)],
           profileLock' \in [Users -> Procs \cup {None}], policyLock' \in Procs \cup {None},
           op' = op, prev' \in [Procs -> Policies], sysKey' \in [Procs -> Nat \cup {None}],
           newKey' \in [Procs -> BOOLEAN], backup' \in [Procs -> Profiles \cup {None, Partial}],
           before' \in [Procs -> Founds \cup {None}], runs' = runs
    PROVE  TypeOK'
<1>1. PICK to \in Points \ {"idle"} : Goes(p, to) \/ Refuses(p, to) \/ Fails(p, to)
  BY Zenon DEF Moves
<1>2. /\ pc' \in [Procs -> Points] /\ hit' \in [Procs -> Nat] /\ faults' \in Nat
      /\ \A q \in Procs : q # p => pc'[q] = pc[q]
  BY <1>1, GoesType, Zenon
<1> QED BY <1>2, Zenon DEF TypeOK

LEMMA PointsAre ==
    {"lock", "key", "stage", "setup", "policylock", "load", "revoke", "aside",
     "install", "reinstate", "verify", "activate", "rerevoke", "discard", "reseat",
     "discardagain", "reseatagain", "restore", "putback", "write", "validate",
     "moveprofile", "movekey", "unmove", "clear", "unwind", "dropkey", "exit", "done"}
        \subseteq Points \ {"idle"}
  BY DEF Points

LEMMA EndsType ==
    ASSUME TypeOK, SyncAssumption, NEW p \in Procs, pc' = [pc EXCEPT ![p] = "idle"], Release(p), Forget(p),
           UNCHANGED <<policyVars, key, revoked, runs>>, faults' \in Nat,
           profile' \in [Users -> Profiles \cup {None, Partial}]
    PROVE  TypeOK'
<1>1. /\ profileLock' \in [Users -> Procs \cup {None}] /\ policyLock' \in Procs \cup {None}
  BY Zenon DEF TypeOK, Release
<1>2. {} \in Policies
  BY Zenon DEF Policies
<1>3. /\ op' \in [Procs -> Ops \cup {None}] /\ prev' \in [Procs -> Policies]
      /\ sysKey' \in [Procs -> Nat \cup {None}] /\ newKey' \in [Procs -> BOOLEAN]
      /\ backup' \in [Procs -> Profiles \cup {None, Partial}]
      /\ before' \in [Procs -> Founds \cup {None}] /\ hit' \in [Procs -> Nat]
  BY <1>2, Zenon DEF TypeOK, Forget
<1>4. pc' \in [Procs -> Points] /\ \A q \in Procs : pc'[q] # "idle" => op'[q] \in Ops
  BY Zenon DEF TypeOK, Forget, Points
<1> QED BY <1>1, <1>3, <1>4, Zenon DEF TypeOK

LEMMA TypeStep ==
    ASSUME SyncAssumption, TypeOK, NEW p \in Procs, pc[p] = "install" => sysKey[p] \in Nat, Step(p)
    PROVE  TypeOK'
<1> USE PointsAre
<1>a. /\ policy \in Policies /\ policyId \in Nat
      /\ profile \in [Users -> Profiles \cup {None, Partial}] /\ key \in [Users -> Nat \cup {None}]
      /\ revoked \in [Users -> SUBSET ({"profile", "key"} \X Nat)]
      /\ profileLock \in [Users -> Procs \cup {None}] /\ policyLock \in Procs \cup {None}
      /\ op \in [Procs -> Ops \cup {None}] /\ prev \in [Procs -> Policies]
      /\ sysKey \in [Procs -> Nat \cup {None}] /\ newKey \in [Procs -> BOOLEAN]
      /\ backup \in [Procs -> Profiles \cup {None, Partial}]
      /\ before \in [Procs -> Founds \cup {None}]
  BY Zenon DEF TypeOK
<1>b. ASSUME pc[p] # "idle"
      PROVE  op[p] \in Ops /\ User(p) \in Users /\ op[p].run \in Nat
  BY <1>b, Zenon DEF TypeOK, Ops, User
<1>w. ASSUME pc[p] # "idle", NEW pol \in Policies, NEW ok \in Points \ {"idle"}, NEW err \in Points \ {"idle"},
             write_policy(p, pol, ok, err)
      PROVE  TypeOK'
  <2>1. Moves(p) /\ policy' \in Policies /\ policyId' \in Nat
    BY <1>a, <1>w DEF write_policy, Moves, Replace
  <2> QED BY <1>a, <1>w, <2>1, MovesType, Zenon DEF write_policy
<1>p. ASSUME pc[p] # "idle", NEW prof \in Profiles \cup {None, Partial}, NEW ok \in Points \ {"idle"},
             NEW err \in Points \ {"idle"}, PutProfile(p, prof, ok, err)
      PROVE  TypeOK'
  <2>1. Moves(p) /\ profile' \in [Users -> Profiles \cup {None, Partial}]
    BY <1>a, <1>b, <1>p DEF PutProfile, Moves
  <2> QED BY <1>a, <1>p, <2>1, MovesType, Zenon DEF PutProfile
<1>r. ASSUME pc[p] # "idle", NEW ok \in Points \ {"idle"}, NEW err \in Points \ {"idle"}, RemoveProfile(p, ok, err)
      PROVE  TypeOK'
  <2>1. Moves(p) /\ profile' \in [Users -> Profiles \cup {None, Partial}]
    BY <1>a, <1>b, <1>r, Zenon DEF RemoveProfile, Moves
  <2> QED BY <1>a, <1>r, <2>1, MovesType, Zenon DEF RemoveProfile
<1>1. CASE Begin(p)
  <2>1. PICK k \in Kinds, u \in Users, t \in Targets :
            op' = [op EXCEPT ![p] = [kind |-> k, user |-> u, target |-> t, run |-> runs + 1]]
    BY <1>1, Zenon DEF Begin
  <2>2. [kind |-> k, user |-> u, target |-> t, run |-> runs + 1] \in Ops
    BY DEF Ops, SyncAssumption, TypeOK
  <2>3. op' \in [Procs -> Ops \cup {None}] /\ op'[p] \in Ops /\ \A q \in Procs : q # p => op'[q] = op[q]
    BY <1>a, <2>1, <2>2, Zenon
  <2>4. /\ pc' \in [Procs -> Points] /\ hit' \in [Procs -> Nat] /\ faults' \in Nat
        /\ \A q \in Procs : q # p => pc'[q] = pc[q]
    BY <1>1, GoesType, Zenon DEF Begin
  <2> QED BY <1>1, <2>3, <2>4 DEF Begin, TypeOK
<1>2. CASE Lock(p)
  <2>0. op[p] \in Ops /\ User(p) \in Users
    BY <1>2, <1>b, Zenon DEF Lock
  <2>1. Found(p) \in Founds
    BY <1>a, <2>0, Zenon DEF Found, Founds, Entries, Policies
  <2>2. before' \in [Procs -> Founds \cup {None}] /\ profileLock' \in [Users -> Procs \cup {None}]
    BY <1>2, <1>a, <2>0, <2>1 DEF Lock
  <2>3. AfterLock(p) \in Points \ {"idle"}
    BY <2>0, Zenon DEF AfterLock, Kind, Ops, AllKinds, SyncKinds
  <2>4. Moves(p)
    BY <1>2, <2>3, Zenon DEF Lock, Moves
  <2> QED BY <1>2, <1>a, <2>2, <2>4, MovesType, Zenon DEF Lock
<1>3. CASE TakePolicyLock(p)
  <2>1. Moves(p) /\ policyLock' \in Procs \cup {None}
    BY <1>3, <1>a, Zenon DEF TakePolicyLock, Moves
  <2> QED BY <1>3, <1>a, <2>1, MovesType, Zenon DEF TakePolicyLock
<1>4. CASE Load(p)
  <2>1. Moves(p) /\ prev' \in [Procs -> Policies]
    BY <1>4, <1>a DEF Load, Moves
  <2> QED BY <1>4, <1>a, <2>1, MovesType, Zenon DEF Load
<1>5. CASE Setup(p)
  <2>1. Moves(p)
    BY <1>5, Zenon DEF Setup, Moves
  <2> QED BY <1>5, <1>a, <2>1, MovesType, Zenon DEF Setup
<1>6. CASE Write(p)
  BY <1>6, <1>w, <1>b, PolicyWritten, Zenon DEF Write
<1>7. CASE PutBack(p)
  BY <1>7, <1>w, <1>b, PolicyWritten, Zenon DEF PutBack
<1>8. CASE LoadKey(p)
  <2>0. op[p] \in Ops /\ User(p) \in Users /\ op[p].run \in Nat
    BY <1>8, <1>b, Zenon DEF LoadKey
  <2>1. load_or_generate_system_key(p) \in Nat \cup {None}
    BY <1>a, <2>0, Zenon DEF load_or_generate_system_key
  <2>b. (key[User(p)] = None) \in BOOLEAN
    OBVIOUS
  <2>n. newKey' \in [Procs -> BOOLEAN]
    BY <1>8, <1>a, <2>b, Zenon DEF LoadKey
  <2>2. /\ sysKey' \in [Procs -> Nat \cup {None}] /\ newKey' \in [Procs -> BOOLEAN]
        /\ key' \in [Users -> Nat \cup {None}]
    BY <1>8, <1>a, <2>0, <2>1, <2>n DEF LoadKey
  <2>3. Moves(p)
    BY <1>8, Zenon DEF LoadKey, Moves
  <2> QED BY <1>8, <1>a, <2>2, <2>3, MovesType, Zenon DEF LoadKey
<1>9. CASE Stage(p)
  <2>1. Moves(p)
    BY <1>9, Zenon DEF Stage, Moves
  <2> QED BY <1>9, <1>a, <2>1, MovesType, Zenon DEF Stage
<1>10. CASE Revoke(p)
  BY <1>10, <1>w, <1>b, PolicyWritten, Zenon DEF Revoke
<1>11. CASE MoveAside(p)
  <2>1. Moves(p) /\ profile' \in [Users -> Profiles \cup {None, Partial}]
        /\ backup' \in [Procs -> Profiles \cup {None, Partial}]
    BY <1>11, <1>a, <1>b, Zenon DEF MoveAside, Moves
  <2> QED BY <1>11, <1>a, <2>1, MovesType, Zenon DEF MoveAside
<1>12. CASE Install(p)
  <2>1. Staged(p) \in Profiles
    BY <1>12, <1>a, <1>b, Zenon DEF Install, Staged, Profiles
  <2> QED BY <1>12, <1>p, <1>a, <2>1, Zenon DEF Install
<1>13. CASE Reinstate(p)
  BY <1>13, <1>p, <1>a, Zenon DEF Reinstate
<1>14. CASE Verify(p)
  <2>1. Moves(p)
    BY <1>14, Zenon DEF Verify, Moves
  <2> QED BY <1>14, <1>a, <2>1, MovesType, Zenon DEF Verify
<1>15. CASE Activate(p)
  BY <1>15, <1>w, <1>b, PolicyWritten, Zenon DEF Activate
<1>16. CASE Rerevoke(p)
  BY <1>16, <1>w, <1>b, PolicyWritten, Zenon DEF Rerevoke
<1>17. CASE Discard(p)
  BY <1>17, <1>r, Zenon DEF Discard
<1>18. CASE Reseat(p)
  BY <1>18, <1>p, <1>a, Zenon DEF Reseat
<1>19. CASE DiscardAgain(p)
  BY <1>19, <1>r, Zenon DEF DiscardAgain
<1>20. CASE ReseatAgain(p)
  BY <1>20, <1>p, <1>a, Zenon DEF ReseatAgain
<1>21. CASE Restore(p)
  <2>1. Moves(p)
    BY <1>21, Zenon DEF Restore, Moves
  <2> QED BY <1>21, <1>a, <2>1, MovesType, Zenon DEF Restore
<1>22. CASE Validate(p)
  <2>1. Moves(p)
    BY <1>22, Zenon DEF Validate, Moves
  <2> QED BY <1>22, <1>a, <2>1, MovesType, Zenon DEF Validate
<1>23. CASE MoveProfile(p)
  <2>1. Moves(p) /\ profile' \in [Users -> Profiles \cup {None, Partial}]
        /\ backup' \in [Procs -> Profiles \cup {None, Partial}]
        /\ revoked' \in [Users -> SUBSET ({"profile", "key"} \X Nat)]
    BY <1>23, <1>a, <1>b DEF MoveProfile, Moves
  <2> QED BY <1>23, <1>a, <2>1, MovesType, Zenon DEF MoveProfile
<1>24. CASE MoveKey(p)
  <2>1. Moves(p) /\ key' \in [Users -> Nat \cup {None}]
        /\ revoked' \in [Users -> SUBSET ({"profile", "key"} \X Nat)]
    BY <1>24, <1>a, <1>b DEF MoveKey, Moves
  <2> QED BY <1>24, <1>a, <2>1, MovesType, Zenon DEF MoveKey
<1>25. CASE Unmove(p)
  <2>1. Moves(p) /\ profile' \in [Users -> Profiles \cup {None, Partial}]
        /\ revoked' \in [Users -> SUBSET ({"profile", "key"} \X Nat)]
    BY <1>25, <1>a, <1>b DEF Unmove, Moves
  <2> QED BY <1>25, <1>a, <2>1, MovesType, Zenon DEF Unmove
<1>26. CASE Clear(p)
  <2>1. Moves(p) /\ revoked' \in [Users -> SUBSET ({"profile", "key"} \X Nat)]
    BY <1>26, <1>a, <1>b DEF Clear, clear_revoked_copies, Moves
  <2> QED BY <1>26, <1>a, <2>1, MovesType, Zenon DEF Clear
<1>27. CASE Unwind(p)
  <2>1. Moves(p) /\ policyLock' \in Procs \cup {None}
    BY <1>27, <1>a, Zenon DEF Unwind, Moves
  <2> QED BY <1>27, <1>a, <2>1, MovesType, Zenon DEF Unwind
<1>28. CASE DropKey(p)
  <2>1. Moves(p) /\ key' \in [Users -> Nat \cup {None}]
    BY <1>28, <1>a, <1>b, Zenon DEF DropKey, Moves
  <2> QED BY <1>28, <1>a, <2>1, MovesType, Zenon DEF DropKey
<1>29. CASE Finish(p)
  BY <1>29, EndsType, Zenon DEF Finish, TypeOK
<1>30. CASE Crash(p)
  <2>1. profile' \in [Users -> Profiles \cup {None, Partial}] /\ faults' \in Nat
    BY <1>30, <1>a, <1>b DEF Crash, Fault, TypeOK
  <2> QED BY <1>30, <2>1, EndsType, Zenon DEF Crash
<1> QED BY <1>1, <1>2, <1>3, <1>4, <1>5, <1>6, <1>7, <1>8, <1>9, <1>10, <1>11, <1>12, <1>13, <1>14, Zenon,
           <1>15, <1>16, <1>17, <1>18, <1>19, <1>20, <1>21, <1>22, <1>23, <1>24, <1>25, <1>26, <1>27,
           <1>28, <1>29, <1>30 DEF Step
-----------------------------------------------------------------------------
(* What is written to the policy file concerns one user.                   *)
LEMMA SameOthers ==
    ASSUME NEW a, NEW b, NEW u, NEW v, u # v, Others(a, u) = Others(b, u)
    PROVE  Entries(a, v) = Entries(b, v)
<1>1. \A e : e[1] = v => (e \in a <=> e \in b)
  <2>1. \A e : (e \in Others(a, u)) <=> (e \in Others(b, u))
    OBVIOUS
  <2> QED BY <2>1, Zenon DEF Others, Entries
<1> QED BY <1>1, Zenon DEF Entries

LEMMA Written ==
    ASSUME TypeOK, NEW p \in Procs, op[p] \in Ops
    PROVE  /\ Entries(revoke_user_targets(p), User(p)) = {}
           /\ Others(revoke_user_targets(p), User(p)) = Others(prev[p], User(p))
           /\ Others(set_mode(p), User(p)) = Others(prev[p], User(p))
           /\ Kind(p) \in {"enable", "set"}
                => Entries(set_mode(p), User(p)) = Entries(prev[p], User(p)) \cup {Entry(p)}
           /\ Kind(p) \in {"disable", "unset"}
                => Entries(set_mode(p), User(p)) = Entries(prev[p], User(p)) \ {Entry(p)}
           /\ Kind(p) \in {"resync", "delete"}
                => set_mode(p) = prev[p]
<1>1. Entry(p)[1] = User(p)
  BY PolicyWritten, Zenon
<1>2. /\ Entries(revoke_user_targets(p), User(p)) = {}
      /\ Others(revoke_user_targets(p), User(p)) = Others(prev[p], User(p))
  BY Zenon DEF revoke_user_targets, Entries, Others
<1>3. /\ Others(prev[p] \cup {Entry(p)}, User(p)) = Others(prev[p], User(p))
      /\ Others(prev[p] \ {Entry(p)}, User(p)) = Others(prev[p], User(p))
  BY <1>1 DEF Entries, Others
<1>4. /\ Entries(prev[p] \cup {Entry(p)}, User(p)) = Entries(prev[p], User(p)) \cup {Entry(p)}
      /\ Entries(prev[p] \ {Entry(p)}, User(p)) = Entries(prev[p], User(p)) \ {Entry(p)}
  BY <1>1, Zenon DEF Entries
<1>5. Kind(p) \in {"enable", "set"} => set_mode(p) = prev[p] \cup {Entry(p)}
  BY Zenon DEF set_mode
<1>6. Kind(p) \in {"disable", "unset"} => set_mode(p) = prev[p] \ {Entry(p)}
  BY Zenon DEF set_mode
<1>7. Kind(p) \notin {"enable", "set", "disable", "unset"} => set_mode(p) = prev[p]
  BY Zenon DEF set_mode
<1>8. Others(set_mode(p), User(p)) = Others(prev[p], User(p))
  BY <1>3, <1>5, <1>6, <1>7, Zenon
<1> QED BY <1>2, <1>4, <1>5, <1>6, <1>7, <1>8, Zenon

(* What a step of q leaves alone: the memory of other processes; files and *)
(* modes of users it has not locked; locks of others.                      *)
MemoryKept(p) ==
    /\ pc'[p] = pc[p] /\ hit'[p] = hit[p] /\ op'[p] = op[p] /\ prev'[p] = prev[p]
    /\ sysKey'[p] = sysKey[p] /\ newKey'[p] = newKey[p] /\ backup'[p] = backup[p]
    /\ before'[p] = before[p]

FilesKept(u) == profile'[u] = profile[u] /\ key'[u] = key[u] /\ revoked'[u] = revoked[u]

Framed(q) ==
    /\ \A p \in Procs \ {q} : MemoryKept(p)
    /\ \A u \in Users : (before[q] # None /\ User(q) = u) \/ FilesKept(u)
    /\ \A u \in Users : profileLock[u] \notin {None, q} => profileLock'[u] = profileLock[u]
    /\ policyLock \notin {None, q} => policyLock' = policyLock

PolicyFramed(q) ==
    \/ policy' = policy
    \/ /\ pc[q] \in Loaded
       /\ Others(policy', User(q)) = Others(policy, User(q))
LEMMA FrameStep == ASSUME Inv, NEW q \in Procs, Step(q) PROVE Framed(q)
<1>t. /\ TypeOK
      /\ pc[q] \notin {"idle", "lock", "exit"} => before[q] # None
  BY Zenon DEF Inv, ProcInv, LockInv
<1>g. ASSUME NEW to \in Points, Goes(q, to) \/ Refuses(q, to) \/ Fails(q, to)
      PROVE  \A p \in Procs \ {q} : pc'[p] = pc[p] /\ hit'[p] = hit[p]
  BY <1>t, <1>g, GoesType, Zenon
<1>m. ASSUME NEW to \in Points, Goes(q, to) \/ Refuses(q, to) \/ Fails(q, to), UNCHANGED memVars
      PROVE  \A p \in Procs \ {q} : MemoryKept(p)
  BY <1>g, <1>m, Zenon DEF MemoryKept
<1>w. ASSUME NEW pol, NEW ok \in Points, NEW err \in Points, write_policy(q, pol, ok, err)
      PROVE  Framed(q)
  <2>1. \A p \in Procs \ {q} : MemoryKept(p)
    BY <1>m, <1>w, Zenon DEF write_policy
  <2> QED BY <1>w, <2>1, Zenon DEF write_policy, Framed, FilesKept
<1>u. ASSUME NEW to \in Points, Goes(q, to) \/ Refuses(q, to) \/ Fails(q, to), UNCHANGED <<memVars, lockVars>>,
             before[q] # None, \A u \in Users \ {User(q)} : FilesKept(u)
      PROVE  Framed(q)
  <2>1. \A p \in Procs \ {q} : MemoryKept(p)
    BY <1>m, <1>u, Zenon
  <2> QED BY <1>u, <2>1, Zenon DEF Framed
<1>p. ASSUME NEW prof, NEW ok \in Points, NEW err \in Points, PutProfile(q, prof, ok, err), before[q] # None
      PROVE  Framed(q)
  <2>1. \A u \in Users \ {User(q)} : FilesKept(u)
    BY <1>t, <1>p, Zenon DEF PutProfile, FilesKept, TypeOK
  <2> QED BY <1>p, <1>u, <2>1, Zenon DEF PutProfile
<1>r. ASSUME NEW ok \in Points, NEW err \in Points, RemoveProfile(q, ok, err), before[q] # None
      PROVE  Framed(q)
  <2>1. \A u \in Users \ {User(q)} : FilesKept(u)
    BY <1>t, <1>r, Zenon DEF RemoveProfile, FilesKept, TypeOK
  <2> QED BY <1>r, <1>u, <2>1, Zenon DEF RemoveProfile
<1>e. ASSUME Release(q), Forget(q), pc' = [pc EXCEPT ![q] = "idle"],
             \A u \in Users : (before[q] # None /\ User(q) = u) \/ FilesKept(u)
      PROVE  Framed(q)
  <2>1. \A p \in Procs \ {q} : MemoryKept(p)
    BY <1>t, <1>e, Zenon DEF Forget, MemoryKept, TypeOK
  <2> QED BY <1>e, <1>t, <2>1, Zenon DEF Release, Framed, TypeOK
<1>1. CASE Begin(q)
  <2>1. \A p \in Procs \ {q} : MemoryKept(p)
    <3>1. \A p \in Procs \ {q} : pc'[p] = pc[p] /\ hit'[p] = hit[p]
      BY <1>1, <1>g, PointsAre, Zenon DEF Begin
    <3>2. \A p \in Procs \ {q} : op'[p] = op[p]
      BY <1>1, <1>t, Zenon DEF Begin, TypeOK
    <3>3. UNCHANGED <<prev, sysKey, newKey, backup, before>>
      BY <1>1, Zenon DEF Begin
    <3> QED BY <3>1, <3>2, <3>3, Zenon DEF MemoryKept
  <2> QED BY <1>1, <2>1, Zenon DEF Begin, Framed, FilesKept
<1>2. CASE Lock(q)
  <2>0. AfterLock(q) \in Points
    BY <1>2, <1>t, PointsAre, Zenon DEF Lock, AfterLock, Kind, Ops, AllKinds, SyncKinds, TypeOK
  <2>1. \A p \in Procs \ {q} : MemoryKept(p)
    BY <1>2, <1>t, <1>g, <2>0, PointsAre DEF Lock, MemoryKept, TypeOK
  <2> QED BY <1>2, <1>t, <2>1, Zenon DEF Lock, Framed, FilesKept, TypeOK
<1>3. CASE TakePolicyLock(q)
  <2>1. \A p \in Procs \ {q} : MemoryKept(p)
    BY <1>3, <1>m, PointsAre, Zenon DEF TakePolicyLock
  <2> QED BY <1>3, <2>1, Zenon DEF TakePolicyLock, Framed, FilesKept
<1>4. CASE Load(q)
  <2>1. \A u \in Users \ {User(q)} : FilesKept(u)
    BY <1>4, <1>t, Zenon DEF Load, FilesKept, TypeOK
  <2>2. \A p \in Procs \ {q} : MemoryKept(p)
    <3>1. prev' = [prev EXCEPT ![q] = policy] \/ prev' = prev
      BY <1>4, Zenon DEF Load
    <3>2. ASSUME NEW p \in Procs \ {q} PROVE prev'[p] = prev[p]
      BY <1>t, <3>1, Zenon DEF TypeOK
    <3>3. ASSUME NEW p \in Procs \ {q} PROVE pc'[p] = pc[p] /\ hit'[p] = hit[p]
      BY <1>4, <1>g, PointsAre, Zenon DEF Load
    <3> QED BY <1>4, <3>2, <3>3, Zenon DEF Load, MemoryKept
  <2> QED BY <1>4, <1>t, <2>1, <2>2, Zenon DEF Load, Framed
<1>5. CASE Setup(q)
  BY <1>5, <1>t, <1>u, PointsAre, Zenon DEF Setup, FilesKept
<1>6. CASE Write(q)
  BY <1>6, <1>w, PointsAre, Zenon DEF Write
<1>7. CASE PutBack(q)
  BY <1>7, <1>w, PointsAre, Zenon DEF PutBack
<1>8. CASE LoadKey(q)
  <2>1. \A u \in Users \ {User(q)} : FilesKept(u)
    BY <1>8, <1>t, Zenon DEF LoadKey, FilesKept, TypeOK
  <2>2. \A p \in Procs \ {q} : MemoryKept(p)
    BY <1>8, <1>t, <1>g, PointsAre DEF LoadKey, MemoryKept, TypeOK
  <2> QED BY <1>8, <1>t, <2>1, <2>2, Zenon DEF LoadKey, Framed
<1>9. CASE Stage(q)
  BY <1>9, <1>t, <1>u, PointsAre, Zenon DEF Stage, FilesKept
<1>10. CASE Revoke(q)
  BY <1>10, <1>w, PointsAre, Zenon DEF Revoke
<1>11. CASE MoveAside(q)
  <2>1. \A u \in Users \ {User(q)} : FilesKept(u)
    BY <1>11, <1>t, Zenon DEF MoveAside, FilesKept, TypeOK
  <2>2. \A p \in Procs \ {q} : MemoryKept(p)
    BY <1>11, <1>t, <1>g, PointsAre DEF MoveAside, MemoryKept, TypeOK
  <2> QED BY <1>11, <1>t, <2>1, <2>2, Zenon DEF MoveAside, Framed
<1>12. CASE Install(q)
  BY <1>12, <1>p, <1>t, PointsAre, Zenon DEF Install
<1>13. CASE Reinstate(q)
  BY <1>13, <1>p, <1>t, PointsAre, Zenon DEF Reinstate
<1>14. CASE Verify(q)
  BY <1>14, <1>t, <1>u, PointsAre, Zenon DEF Verify, FilesKept
<1>15. CASE Activate(q)
  BY <1>15, <1>w, PointsAre, Zenon DEF Activate
<1>16. CASE Rerevoke(q)
  BY <1>16, <1>w, PointsAre, Zenon DEF Rerevoke
<1>17. CASE Discard(q)
  BY <1>17, <1>r, <1>t, PointsAre, Zenon DEF Discard
<1>18. CASE Reseat(q)
  BY <1>18, <1>p, <1>t, PointsAre, Zenon DEF Reseat
<1>19. CASE DiscardAgain(q)
  BY <1>19, <1>r, <1>t, PointsAre, Zenon DEF DiscardAgain
<1>20. CASE ReseatAgain(q)
  BY <1>20, <1>p, <1>t, PointsAre, Zenon DEF ReseatAgain
<1>21. CASE Restore(q)
  BY <1>21, <1>t, <1>u, PointsAre, Zenon DEF Restore, FilesKept
<1>22. CASE Validate(q)
  BY <1>22, <1>t, <1>u, PointsAre, Zenon DEF Validate, FilesKept
<1>23. CASE MoveProfile(q)
  <2>1. \A u \in Users \ {User(q)} : FilesKept(u)
    BY <1>23, <1>t, Zenon DEF MoveProfile, FilesKept, TypeOK
  <2>2. \A p \in Procs \ {q} : MemoryKept(p)
    <3>1. backup' = [backup EXCEPT ![q] = profile[User(q)]] \/ backup' = backup
      BY <1>23, Zenon DEF MoveProfile
    <3>2. ASSUME NEW p \in Procs \ {q} PROVE backup'[p] = backup[p]
      BY <1>t, <3>1, Zenon DEF TypeOK
    <3>3. ASSUME NEW p \in Procs \ {q} PROVE pc'[p] = pc[p] /\ hit'[p] = hit[p]
      BY <1>23, <1>g, PointsAre, Zenon DEF MoveProfile
    <3> QED BY <1>23, <3>2, <3>3, Zenon DEF MoveProfile, MemoryKept
  <2> QED BY <1>23, <1>t, <2>1, <2>2, Zenon DEF MoveProfile, Framed
<1>24. CASE MoveKey(q)
  <2>1. \A u \in Users \ {User(q)} : FilesKept(u)
    BY <1>24, <1>t, Zenon DEF MoveKey, FilesKept, TypeOK
  <2> QED BY <1>24, <1>t, <1>u, <2>1, PointsAre, Zenon DEF MoveKey
<1>25. CASE Unmove(q)
  <2>1. \A u \in Users \ {User(q)} : FilesKept(u)
    BY <1>25, <1>t, Zenon DEF Unmove, FilesKept, TypeOK
  <2> QED BY <1>25, <1>t, <1>u, <2>1, PointsAre, Zenon DEF Unmove
<1>26. CASE Clear(q)
  <2>1. \A u \in Users \ {User(q)} : FilesKept(u)
    BY <1>26, <1>t, Zenon DEF Clear, FilesKept, TypeOK, clear_revoked_copies
  <2> QED BY <1>26, <1>t, <1>u, <2>1, PointsAre, Zenon DEF Clear
<1>27. CASE Unwind(q)
  <2>1. \A p \in Procs \ {q} : MemoryKept(p)
    BY <1>27, <1>m, PointsAre, Zenon DEF Unwind
  <2> QED BY <1>27, <2>1, Zenon DEF Unwind, Framed, FilesKept
<1>28. CASE DropKey(q)
  <2>1. \A u \in Users \ {User(q)} : FilesKept(u)
    BY <1>28, <1>t, Zenon DEF DropKey, FilesKept, TypeOK
  <2> QED BY <1>28, <1>t, <1>u, <2>1, PointsAre, Zenon DEF DropKey
<1>29. CASE Finish(q)
  BY <1>29, <1>e, Zenon DEF Finish, FilesKept
<1>30. CASE Crash(q)
  <2>1. \A u \in Users : (before[q] # None /\ User(q) = u) \/ FilesKept(u)
    BY <1>30, <1>t, Zenon DEF Crash, FilesKept, TypeOK
  <2> QED BY <1>30, <1>e, <2>1, Zenon DEF Crash
<1> QED BY <1>1, <1>2, <1>3, <1>4, <1>5, <1>6, <1>7, <1>8, <1>9, <1>10, <1>11, <1>12, <1>13, Zenon,
           <1>14, <1>15, <1>16, <1>17, <1>18, <1>19, <1>20, <1>21, <1>22, <1>23, <1>24, <1>25,
           <1>26, <1>27, <1>28, <1>29, <1>30 DEF Step

LEMMA PolicyStep == ASSUME Inv, NEW q \in Procs, Step(q) PROVE PolicyFramed(q)
<1>t. TypeOK /\ ProcInv(q)
  BY Zenon DEF Inv
<1>1. ASSUME NEW pol, NEW ok, NEW err, write_policy(q, pol, ok, err), pc[q] \in Loaded,
             Others(pol, User(q)) = Others(prev[q], User(q))
      PROVE  PolicyFramed(q)
  <2>1. Others(policy, User(q)) = Others(prev[q], User(q))
    BY <1>t, <1>1, Zenon DEF ProcInv, LockInv, ModeInv, Loaded
  <2> QED BY <1>1, <2>1, Zenon DEF write_policy, Replace, PolicyFramed
<1>2. pc[q] \in Loaded => op[q] \in Ops
  BY <1>t, Zenon DEF Loaded, TypeOK
<1>3. CASE Write(q) \/ PutBack(q) \/ Revoke(q) \/ Activate(q) \/ Rerevoke(q)
  <2>1. pc[q] \in Loaded
    BY <1>3, Zenon DEF Write, PutBack, Revoke, Activate, Rerevoke, Loaded
  <2> QED BY <1>t, <1>1, <1>2, <1>3, <2>1, Written, Zenon DEF Write, PutBack, Revoke, Activate, Rerevoke
<1>4. CASE ~(Write(q) \/ PutBack(q) \/ Revoke(q) \/ Activate(q) \/ Rerevoke(q))
  <2>1. policy' = policy
    BY <1>4, Zenon DEF Step, Begin, Lock, TakePolicyLock, Load, Setup, LoadKey, Stage, MoveAside, Install,
       Reinstate, Verify, Discard, Reseat, DiscardAgain, ReseatAgain, Restore, Validate, MoveProfile,
       MoveKey, Unmove, Clear, Unwind, DropKey, Finish, Crash, PutProfile, RemoveProfile
  <2> QED BY <2>1, Zenon DEF PolicyFramed
<1> QED BY <1>3, <1>4, Zenon

(* A process keeps its invariant when its memory, its locks and its user's *)
(* files and modes are kept.                                               *)
LEMMA KeptInv ==
    ASSUME TypeOK, NEW p \in Procs, ProcInv(p), MemoryKept(p),
           before[p] # None => /\ FilesKept(User(p)) /\ profileLock'[User(p)] = p
                               /\ Entries(policy', User(p)) = Entries(policy, User(p)),
           pc[p] \in Policed => policyLock' = p,
           pc[p] \in Loaded => policy' = policy
    PROVE  ProcInv(p)'
<1>1. /\ User(p)' = User(p) /\ Kind(p)' = Kind(p) /\ Entry(p)' = Entry(p) /\ Staged(p)' = Staged(p)
      /\ pc'[p] = pc[p] /\ hit'[p] = hit[p] /\ op'[p] = op[p] /\ prev'[p] = prev[p]
      /\ sysKey'[p] = sysKey[p] /\ newKey'[p] = newKey[p] /\ backup'[p] = backup[p]
      /\ before'[p] = before[p]
  BY Zenon DEF MemoryKept, User, Kind, Entry, Staged
<1>2. pc[p] \in Loaded => Others(policy', User(p)) = Others(policy, User(p))
  OBVIOUS
<1>3. before[p] # None => \A k : Opens(User(p), k)' <=> Opens(User(p), k)
  BY Zenon DEF Opens, Intact, FilesKept, MemoryKept, User
<1>4. before[p] # None => /\ profile'[User(p)] = profile[User(p)] /\ key'[User(p)] = key[User(p)]
                          /\ revoked'[User(p)] = revoked[User(p)]
  BY Zenon DEF FilesKept
<1>5. LockInv(p)'
  BY <1>1, Zenon DEF ProcInv, LockInv
<1>6. KindInv(p)' /\ BackupInv(p)'
  BY <1>1, Zenon DEF ProcInv, KindInv, BackupInv
<1>7. KeyInv(p)'
  BY <1>1, <1>4, Zenon DEF ProcInv, KeyInv
<1>8. ModeInv(p)'
  BY <1>1, <1>2, <1>4, <1>3, Zenon DEF ProcInv, ModeInv
<1>9. ProfileInv(p)'
  BY <1>1, <1>4, Zenon DEF ProcInv, ProfileInv
<1>10. HitInv(p)'
  BY <1>1, <1>4, Zenon DEF ProcInv, HitInv
<1>11. DoneInv(p)'
  <2>1. pc[p] = "done" => before[p] # None
    BY Zenon DEF ProcInv, LockInv
  <2> QED BY <1>1, <1>3, <1>4, <2>1, Zenon DEF ProcInv, DoneInv
<1> QED BY <1>5, <1>6, <1>7, <1>8, <1>9, <1>10, <1>11, Zenon DEF ProcInv

LEMMA KeptUser ==
    ASSUME NEW u \in Users, UserInv(u), FilesKept(u), Entries(policy', u) = Entries(policy, u)
    PROVE  UserInv(u)'
  BY Zenon DEF UserInv, FilesKept, Opens, Intact

(* The profile lock and the policy lock exclude: a step of q keeps the     *)
(* invariants of every other process and of every user it has not locked.  *)
LEMMA OtherStep ==
    ASSUME SyncAssumption, Inv, NEW q \in Procs, Step(q)
    PROVE  /\ \A p \in Procs \ {q} : ProcInv(p)'
           /\ \A u \in Users : (before[q] # None /\ User(q) = u) \/ UserInv(u)'
<1>1. Framed(q) /\ PolicyFramed(q)
  BY FrameStep, PolicyStep, Zenon
<1>2. pc[q] \in Loaded => before[q] # None /\ policyLock = q
  BY Zenon DEF Inv, ProcInv, LockInv, Loaded, Policed
<1>3. ASSUME NEW u \in Users, ~(before[q] # None /\ User(q) = u)
      PROVE  FilesKept(u) /\ Entries(policy', u) = Entries(policy, u)
  BY <1>1, <1>2, <1>3, SameOthers DEF Framed, PolicyFramed
<1>4. ASSUME NEW p \in Procs \ {q} PROVE ProcInv(p)'
  <2>1. TypeOK /\ ProcInv(p) /\ ProcInv(q) /\ MemoryKept(p) /\ p \in Procs
    BY <1>1, <1>4, Zenon DEF Inv, Framed
  <2>2. p # None
    BY <2>1, Zenon DEF SyncAssumption
  <2>3. ASSUME before[p] # None
        PROVE  /\ FilesKept(User(p)) /\ profileLock'[User(p)] = p
               /\ Entries(policy', User(p)) = Entries(policy, User(p))
    <3>1. User(p) \in Users /\ profileLock[User(p)] = p
      BY <2>1, <2>3, Zenon DEF ProcInv, LockInv, User, Ops
    <3>2. ~(before[q] # None /\ User(q) = User(p))
      BY <2>1, <3>1, <1>4, Zenon DEF ProcInv, LockInv
    <3>3. profileLock'[User(p)] = p
      BY <1>1, <1>4, <2>2, <3>1, Zenon DEF Framed
    <3> QED BY <1>3, <3>1, <3>2, <3>3, Zenon
  <2>4. ASSUME pc[p] \in Policed PROVE policyLock = p /\ policyLock' = p /\ policy' = policy
    <3>1. policyLock = p
      BY <2>1, <2>4, Zenon DEF ProcInv, LockInv
    <3>2. policyLock' = p
      BY <1>1, <1>4, <2>2, <3>1, Zenon DEF Framed
    <3> QED BY <1>1, <1>2, <1>4, <3>1, <3>2, Zenon DEF PolicyFramed
  <2> QED BY <2>1, <2>3, <2>4, KeptInv, Zenon DEF Policed
<1>5. ASSUME NEW u \in Users, ~(before[q] # None /\ User(q) = u) PROVE UserInv(u)'
  BY <1>3, <1>5, KeptUser, Zenon DEF Inv
<1> QED BY <1>4, <1>5, Zenon

-----------------------------------------------------------------------------
(* Steps of a helper keep the invariant for the helper and its user. *)

(* The process's own steps: it goes on to a point, or meets an error and   *)
(* goes to one.                                                            *)
Reaches(p, to) == pc'[p] = to /\ hit'[p] = hit[p]
Errs(p, to) == pc'[p] = to /\ hit'[p] = hit[p] + 1

MemoryStill(p) ==
    /\ op'[p] = op[p] /\ prev'[p] = prev[p] /\ sysKey'[p] = sysKey[p] /\ newKey'[p] = newKey[p]
    /\ backup'[p] = backup[p] /\ before'[p] = before[p]

LEMMA Went ==
    ASSUME TypeOK, NEW p \in Procs, NEW to
    PROVE  /\ Goes(p, to) => Reaches(p, to)
           /\ Refuses(p, to) \/ Fails(p, to) => Errs(p, to)
           /\ hit[p] \in Nat
  BY Zenon DEF TypeOK, Goes, Refuses, Fails, Reaches, Errs

LEMMA SameOperation ==
    ASSUME NEW p \in Procs, op'[p] = op[p]
    PROVE  User(p)' = User(p) /\ Kind(p)' = Kind(p) /\ Entry(p)' = Entry(p)
  BY Zenon DEF User, Kind, Entry

(* Steps that only look: nothing but the point and the errors changes. *)
LEMMA QuietStep ==
    ASSUME SyncAssumption, Inv, NEW p \in Procs,
           Setup(p) \/ Stage(p) \/ Verify(p) \/ Restore(p) \/ Validate(p)
    PROVE  ProcInv(p)' /\ \A u \in Users : UserInv(u)'
<1>1. TypeOK /\ ProcInv(p) /\ hit[p] \in Nat /\ pc[p] \notin {"idle", "lock", "exit"}
  BY Zenon DEF Inv, TypeOK, Setup, Stage, Verify, Restore, Validate
<1>2. /\ op[p] \in Ops /\ User(p) \in Users /\ before[p] # None /\ before[p] \in Founds
      /\ LockInv(p) /\ KindInv(p) /\ KeyInv(p) /\ ModeInv(p) /\ ProfileInv(p) /\ BackupInv(p) /\ HitInv(p)
      /\ UserInv(User(p))
  BY <1>1 DEF TypeOK, ProcInv, LockInv, User, Ops, Inv
<1>3. MemoryStill(p) /\ UNCHANGED <<policyVars, dataVars, lockVars>>
  BY Zenon DEF MemoryStill, Setup, Stage, Verify, Restore, Validate
<1>4. User(p)' = User(p) /\ Kind(p)' = Kind(p) /\ Entry(p)' = Entry(p)
  BY <1>3, SameOperation, Zenon DEF MemoryStill
<1>5. \A u \in Users : UserInv(u)'
  BY <1>3, Zenon DEF Inv, UserInv, Opens, Intact
<1>6. \/ pc[p] = "setup" /\ profile_is_ready(User(p)) /\ Reaches(p, "policylock")
      \/ pc[p] = "stage" /\ Reaches(p, IF Kind(p) = "enable" THEN "setup" ELSE "policylock")
      \/ pc[p] = "verify" /\ (Reaches(p, "activate") \/ Errs(p, "discard"))
      \/ pc[p] = "restore" /\ Reaches(p, "putback")
            /\ (Entries(prev[p], User(p)) = {} \/ Opens(User(p), sysKey[p]))
      \/ pc[p] = "validate" /\ Reaches(p, "policylock")
      \/ pc[p] \in {"setup", "stage", "validate"} /\ Errs(p, "unwind")
      \/ pc[p] = "restore" /\ Errs(p, "unwind")
  BY <1>1, Went, Zenon DEF Setup, Stage, Verify, Restore, Validate
<1>10. LockInv(p)'
  BY <1>1, <1>2, <1>3, <1>4, <1>6, Zenon DEF MemoryStill, Reaches, Errs, LockInv, Policed, Loaded
<1>11. KindInv(p)'
  BY <1>1, <1>2, <1>3, <1>4, <1>6, Zenon DEF MemoryStill, Reaches, Errs, KindInv, SyncKinds
<1>12. KeyInv(p)'
  <2>1. newKey[p] /\ Kind(p) = "enable" /\ pc[p] = "setup" => ~profile_is_ready(User(p))
    BY <1>2, Zenon DEF KeyInv, ProfileInv, Looking, profile_is_ready, Intact
  <2>2. /\ pc[p] \notin {"dropkey", "key", "exit", "clear", "done", "unwind"}
        /\ pc'[p] \notin {"dropkey", "key", "exit"}
    BY <1>6, Zenon DEF Reaches, Errs
  <2>3. newKey[p] /\ Kind(p) = "enable" => pc'[p] \in {"stage", "setup", "unwind", "dropkey", "exit"}
    BY <1>2, <1>6, <2>1, Zenon DEF Reaches, Errs, KeyInv
  <2>4. Kind(p) \in SyncKinds
            /\ pc'[p] \in {"stage", "setup", "policylock", "load", "done"} \cup Loaded
            => sysKey[p] = key[User(p)] /\ key[User(p)] \in Nat
    BY <1>2, <1>6, Zenon DEF Reaches, Errs, KeyInv, KindInv, SyncKinds, Loaded
  <2>5. /\ before'[p] = before[p] /\ newKey'[p] = newKey[p] /\ sysKey'[p] = sysKey[p]
        /\ key' = key /\ policy' = policy
    BY <1>3, Zenon DEF MemoryStill, policyVars, dataVars
  <2>6. Entries(policy, User(p))' = Entries(policy, User(p))
    BY <1>4, <2>5, Zenon DEF Entries
  <2> QED BY <1>2, <1>4, <2>2, <2>3, <2>4, <2>5, <2>6, Zenon DEF KeyInv
<1>13. ModeInv(p)'
  <2>1. pc[p] = "restore" => sysKey[p] = key[User(p)] /\ Entries(prev[p], User(p)) = before[p].entries
    BY <1>2, Zenon DEF KindInv, KeyInv, ModeInv, Loaded
  <2>2. pc[p] = "setup" /\ profile_is_ready(User(p)) /\ Kind(p) = "set"
           => before[p].profile \in Profiles /\ before[p].key # None
    BY <1>1, <1>2, Zenon DEF KeyInv, ProfileInv, Looking, profile_is_ready, Intact, TypeOK, SyncKinds
  <2>3. pc[p] \in {"stage", "validate"} => Kind(p) # "set"
    BY <1>2, Zenon DEF KindInv, SyncKinds
  <2>4. \A k : Opens(User(p), k)' <=> Opens(User(p), k)
    BY <1>3, <1>4, Zenon DEF Opens, Intact
  <2> QED BY <1>1, <1>2, <1>3, <1>4, <1>6, <2>1, <2>2, <2>3, <2>4, Zenon
    DEF MemoryStill, Reaches, Errs, ModeInv, Looking, Loaded, Swapping
<1>14. ProfileInv(p)'
  <2>1. Staged(p)' = Staged(p)
    BY <1>3, Zenon DEF MemoryStill, Staged
  <2> QED BY <1>1, <1>2, <1>3, <1>4, <1>6, <2>1, Zenon DEF MemoryStill, Reaches, Errs, ProfileInv, Looking
<1>15. BackupInv(p)'
  BY <1>1, <1>2, <1>3, <1>4, <1>6, Zenon DEF MemoryStill, Reaches, Errs, BackupInv
<1>16. HitInv(p)'
  <2>1. pc[p] \in {"setup", "stage", "validate"}
           => profile[User(p)] = before[p].profile /\ Entries(policy, User(p)) = before[p].entries
    BY <1>2, Zenon DEF ProfileInv, ModeInv, Looking
  <2>2. pc[p] = "restore" => hit[p] >= 1
    BY <1>2, Zenon DEF HitInv
  <2>3. pc[p] = "restore" /\ Kind(p) \in SyncKinds \cup {"set"} /\ hit[p] <= 1
           => profile[User(p)] = before[p].profile
    BY <1>1, <1>2, Zenon DEF HitInv
  <2>4. /\ UNCHANGED <<profile, policy>> /\ before'[p] = before[p]
        /\ Entries(policy, User(p))' = Entries(policy, User(p))
    BY <1>3, <1>4, Zenon DEF MemoryStill, Entries
  <2>5. hit[p] \in Nat
    BY <1>1, Zenon
  <2>6. \/ pc'[p] \in {"policylock", "setup", "activate"}
        \/ pc[p] = "verify" /\ pc'[p] = "discard" /\ hit'[p] = hit[p] + 1
        \/ pc[p] = "restore" /\ pc'[p] = "putback" /\ hit'[p] = hit[p]
        \/ pc[p] \in {"setup", "stage", "validate"} /\ pc'[p] = "unwind" /\ hit'[p] = hit[p] + 1
        \/ pc[p] = "restore" /\ pc'[p] = "unwind" /\ hit'[p] = hit[p] + 1
    BY <1>6, Zenon DEF Reaches, Errs
  <2>7. pc'[p] \in {"discard", "putback", "unwind"} => hit'[p] >= 1
    BY <2>2, <2>5, <2>6
  <2>8. pc[p] = "restore" /\ pc'[p] = "unwind" => ~(hit'[p] <= 1)
    BY <2>2, <2>5, <2>6
  <2>9. /\ pc'[p] \notin {"reinstate", "rerevoke", "reseat", "restore", "dropkey", "unmove"}
        /\ pc'[p] \notin {"discardagain", "reseatagain", "exit"}
    BY <2>6, Zenon
  <2> QED BY <1>4, <2>1, <2>3, <2>4, <2>6, <2>7, <2>8, <2>9, Zenon DEF HitInv
<1>17. DoneInv(p)'
  BY <1>1, <1>2, <1>3, <1>4, <1>6, Zenon DEF MemoryStill, Reaches, Errs, DoneInv
<1> QED BY <1>5, <1>10, <1>11, <1>12, <1>13, <1>14, <1>15, <1>16, <1>17, Zenon DEF ProcInv

(* What holds of a process that has taken its profile lock. *)
LEMMA Holding ==
    ASSUME SyncAssumption, Inv, NEW p \in Procs, before[p] # None
    PROVE  /\ TypeOK /\ op[p] \in Ops /\ User(p) \in Users /\ before[p] \in Founds /\ hit[p] \in Nat
           /\ profile[User(p)] \in Profiles \cup {None, Partial} /\ key[User(p)] \in Nat \cup {None}
           /\ LockInv(p) /\ KindInv(p) /\ KeyInv(p) /\ ModeInv(p) /\ ProfileInv(p) /\ BackupInv(p)
           /\ HitInv(p) /\ DoneInv(p)
           /\ UserInv(User(p)) /\ Usable(before[p])
<1>1. TypeOK /\ ProcInv(p)
  BY Zenon DEF Inv
<1>2. op[p] \in Ops /\ Usable(before[p])
  BY <1>1, Zenon DEF ProcInv, LockInv
<1>3. User(p) \in Users
  BY <1>2, Zenon DEF User, Ops
<1> QED BY <1>1, <1>2, <1>3, Zenon DEF TypeOK, ProcInv, Inv

(* The pair found is usable, so its modes may be put back. *)
LEMMA FoundOpens ==
    ASSUME SyncAssumption, NEW u \in Users, NEW f \in Founds, Usable(f),
           profile[u] = f.profile, key[u] = f.key,
           f.entries # {} \/ (f.profile \in Profiles /\ f.key # None)
    PROVE  Opens(u, key[u])
  BY Zenon DEF Usable, Opens, Intact, SyncAssumption, Profiles, Founds

(* Steps that write the policy. *)
LEMMA WriteStep ==
    ASSUME SyncAssumption, Inv, NEW p \in Procs,
           Write(p) \/ PutBack(p) \/ Revoke(p) \/ Activate(p) \/ Rerevoke(p)
    PROVE  ProcInv(p)' /\ UserInv(User(p))'
<1> DEFINE u == User(p)
<1> DEFINE E == Entries(policy, u)
<1> DEFINE F == Entries(policy', u)
<1>1. pc[p] \in {"write", "putback", "revoke", "activate", "rerevoke"} /\ before[p] # None
  BY Zenon DEF Inv, ProcInv, LockInv, Write, PutBack, Revoke, Activate, Rerevoke
<1>2. /\ TypeOK /\ op[p] \in Ops /\ u \in Users /\ before[p] \in Founds /\ hit[p] \in Nat
      /\ LockInv(p) /\ KindInv(p) /\ KeyInv(p) /\ ModeInv(p) /\ ProfileInv(p) /\ BackupInv(p) /\ HitInv(p)
      /\ UserInv(u) /\ Usable(before[p])
  BY <1>1, Holding, Zenon
<1>3. MemoryStill(p) /\ UNCHANGED <<dataVars, lockVars>>
  BY Zenon DEF MemoryStill, Write, PutBack, Revoke, Activate, Rerevoke, write_policy
<1>4. User(p)' = u /\ Kind(p)' = Kind(p) /\ Entry(p)' = Entry(p) /\ Staged(p)' = Staged(p)
  BY <1>3, SameOperation, Zenon DEF MemoryStill, Staged
<1>5. /\ Entries(prev[p], u) = before[p].entries
      /\ Others(policy, u) = Others(prev[p], u)
      /\ pc[p] \in {"write", "revoke"} => E = before[p].entries /\ profile[u] = before[p].profile
      /\ pc[p] = "activate" => E = {}
      /\ pc[p] \in {"activate", "rerevoke"} => profile[u] = Staged(p) /\ backup[p] = before[p].profile
  BY <1>1, <1>2, Zenon DEF ModeInv, ProfileInv, Loaded, Looking, Swapping
<1>6. Others(policy', u) = Others(prev[p], u)
  BY <1>2, <1>5, Written, Zenon DEF Write, PutBack, Revoke, Activate, Rerevoke, write_policy, Replace
<1>7. \/ pc[p] = "write" /\ F = Entries(set_mode(p), u) /\ Reaches(p, "done")
      \/ /\ pc[p] = "write" /\ F \in {Entries(set_mode(p), u), E}
         /\ Errs(p, IF Kind(p) = "set" THEN "putback" ELSE "unwind")
      \/ pc[p] = "putback" /\ F = before[p].entries /\ Reaches(p, "unwind")
      \/ pc[p] = "putback" /\ F \in {before[p].entries, E} /\ Errs(p, "unwind")
      \/ pc[p] = "revoke" /\ F = {} /\ Reaches(p, IF Kind(p) = "delete" THEN "moveprofile" ELSE "aside")
      \/ /\ pc[p] = "revoke" /\ F \in {{}, E}
         /\ Errs(p, IF Kind(p) = "delete" THEN "unwind" ELSE "putback")
      \/ pc[p] = "activate" /\ F = Entries(set_mode(p), u) /\ Reaches(p, "done")
      \/ pc[p] = "activate" /\ F \in {Entries(set_mode(p), u), E} /\ Errs(p, "rerevoke")
      \/ pc[p] = "rerevoke" /\ F = {} /\ Reaches(p, "discard")
      \/ pc[p] = "rerevoke" /\ F \in {{}, E} /\ Errs(p, "unwind")
  <2>1. ASSUME NEW pol, NEW ok, NEW err, write_policy(p, pol, ok, err)
        PROVE  (F = Entries(pol, u) /\ Reaches(p, ok)) \/ (F \in {Entries(pol, u), E} /\ Errs(p, err))
    BY <1>2, <2>1, Went, Zenon DEF write_policy, Replace
  <2>2. Entries(revoke_user_targets(p), u) = {}
    BY <1>2, Written, Zenon
  <2> QED BY <1>5, <2>1, <2>2, Zenon DEF Write, PutBack, Revoke, Activate, Rerevoke
<1>8. /\ Kind(p) \in {"enable", "set"} => Entries(set_mode(p), u) = before[p].entries \cup {Entry(p)}
      /\ Kind(p) \in {"disable", "unset"} => Entries(set_mode(p), u) = before[p].entries \ {Entry(p)}
      /\ Kind(p) \in {"resync", "delete"} => Entries(set_mode(p), u) = before[p].entries
  BY <1>2, <1>5, Written, Zenon
<1>k. /\ pc[p] = "write" => Kind(p) \in {"disable", "unset", "set"}
      /\ pc[p] = "revoke" => Kind(p) \in {"enable", "resync", "delete"}
      /\ pc[p] = "putback" => Kind(p) \in {"enable", "resync", "delete", "set"}
      /\ pc[p] \in {"activate", "rerevoke"} => Kind(p) \in {"enable", "resync"}
      /\ newKey[p] => Kind(p) = "resync" /\ before[p].profile = None /\ E = {}
      /\ ~newKey[p] => key[u] = before[p].key
      /\ Kind(p) \in SyncKinds => sysKey[p] = key[u] /\ key[u] \in Nat
  BY <1>1, <1>2, Zenon DEF KindInv, KeyInv, SyncKinds, Loaded
<1>9. newKey[p] => before[p].entries = {}
  BY <1>2, <1>k, Zenon DEF Usable, SyncAssumption
<1>o. Opens(u, key[u]) <=> Opens(u, key[u])'
  BY <1>3, <1>4, Zenon DEF Opens, Intact
<1>10. pc[p] \in {"activate", "rerevoke"} => Opens(u, key[u])
  <2> SUFFICES ASSUME pc[p] \in {"activate", "rerevoke"} PROVE Opens(u, key[u])
    OBVIOUS
  <2>1. profile[u] = Staged(p)
    BY <1>5, Zenon
  <2>2. sysKey[p] = key[u] /\ key[u] \in Nat
    BY <1>k, Zenon DEF SyncKinds
  <2>3. Staged(p).key = key[u]
    BY <2>2 DEF Staged
  <2>4. Staged(p) \in Profiles
    <3>1. op[p].run \in Nat
      BY <1>2, Zenon DEF Ops
    <3> QED BY <2>2, <3>1 DEF Staged, Profiles
  <2>5. None \notin Profiles /\ Partial \notin Profiles /\ None \notin Nat
    BY Zenon DEF SyncAssumption
  <2> QED BY <2>1, <2>2, <2>3, <2>4, <2>5, Zenon DEF Opens, Intact
<1>11. pc[p] \in {"write", "revoke"} /\ before[p].entries # {} => Opens(u, key[u])
  BY <1>2, <1>5, <1>k, <1>9, FoundOpens, Zenon
<1>12. pc[p] = "write" /\ Kind(p) = "set" => Opens(u, key[u])
  <2>1. pc[p] = "write" /\ Kind(p) = "set" => before[p].profile \in Profiles /\ before[p].key # None
    BY <1>1, <1>2, Zenon DEF ModeInv
  <2> QED BY <1>2, <1>5, <1>k, <2>1, FoundOpens, Zenon DEF SyncKinds
<1>13. pc[p] = "putback" => before[p].entries = {} \/ Opens(u, key[u])
  BY <1>1, <1>2, Zenon DEF ModeInv
<1>14. F # {} => Opens(u, key[u]) \/ (F = E)
  BY <1>7, <1>8, <1>k, <1>10, <1>11, <1>12, <1>13, Zenon
<1>15. UserInv(u)'
  BY <1>2, <1>3, <1>4, <1>14, Zenon DEF UserInv, Opens, Intact
<1> HIDE DEF u, E, F
<1>s. /\ pc'[p] \in {"done", "putback", "unwind", "moveprofile", "aside", "rerevoke", "discard"}
      /\ pc'[p] \in {"moveprofile", "aside"}
            => pc[p] = "revoke" /\ F = {} /\ (pc'[p] = "moveprofile" <=> Kind(p) = "delete")
      /\ pc'[p] = "putback" => pc[p] \in {"write", "revoke"} /\ Kind(p) \in {"enable", "resync", "set"}
      /\ pc'[p] \in {"rerevoke", "discard"} => pc[p] \in {"activate", "rerevoke"}
      /\ pc'[p] = "discard" => F = {}
      /\ pc'[p] = "done" => pc[p] \in {"write", "activate"} /\ F = Entries(set_mode(p), u)
  BY <1>7, <1>k, Zenon DEF Reaches, Errs
<1>n. newKey[p] => F = {}
  BY <1>7, <1>8, <1>9, <1>k, Zenon
<1>20. LockInv(p)'
  <2>1. pc[p] \in Policed /\ pc'[p] \notin {"idle", "lock", "exit"}
    BY <1>1, <1>s, Zenon DEF Policed, Loaded
  <2> QED BY <1>1, <1>2, <1>3, <1>4, <2>1, Zenon DEF u, MemoryStill, LockInv
<1>21. KindInv(p)'
  BY <1>4, <1>k, <1>s, Zenon DEF KindInv, SyncKinds
<1>22. KeyInv(p)'
  <2>1. /\ pc'[p] \notin {"dropkey", "key", "exit"}
        /\ Kind(p) \in {"enable", "resync", "delete", "set", "disable", "unset"}
    BY <1>2, <1>s, Zenon DEF Kind, Ops, AllKinds, SyncKinds
  <2>2. newKey[p] => before[p].key = None /\ key[u] = sysKey[p]
    BY <1>1, <1>2, Zenon DEF u, KeyInv
  <2> QED BY <1>3, <1>4, <1>k, <1>n, <2>1, <2>2, Zenon DEF u, F, MemoryStill, KeyInv, SyncKinds
<1>23. ModeInv(p)'
  <2>1. pc'[p] \in Loaded => Entries(prev[p], u) = before[p].entries
    BY <1>5, Zenon
  <2>2. pc'[p] \in Swapping => F = {}
    BY <1>s, Zenon DEF Swapping
  <2>3. pc'[p] = "putback" => before[p].entries = {} \/ Opens(u, key[u])
    BY <1>s, <1>11, Zenon
  <2>4. pc'[p] \notin Looking
    BY <1>s, Zenon DEF Looking
  <2> QED BY <1>3, <1>4, <1>6, <1>o, <2>1, <2>2, <2>3, <2>4, Zenon DEF u, F, MemoryStill, ModeInv, Looking
<1>24. ProfileInv(p)'
  BY <1>3, <1>4, <1>5, <1>s, Zenon DEF u, MemoryStill, ProfileInv, Looking
<1>25. BackupInv(p)'
  <2>1. pc[p] = "revoke" => backup[p] = None
    BY <1>2, Zenon DEF BackupInv
  <2> QED BY <1>3, <1>s, <2>1, Zenon DEF MemoryStill, BackupInv
<1>26. HitInv(p)'
  <2>0. pc[p] \in {"putback", "rerevoke"} => hit[p] >= 1
    BY <1>2, Zenon DEF HitInv
  <2>p. Kind(p) \in SyncKinds \cup {"set"} /\ hit[p] <= 1 /\ pc[p] = "putback" => profile[u] = before[p].profile
    BY <1>1, <1>2, Zenon DEF u, HitInv
  <2>1. /\ pc'[p] \in {"putback", "unwind", "rerevoke", "discard"} => hit'[p] >= 1
        /\ pc'[p] \notin {"reinstate", "reseat", "restore", "dropkey", "unmove", "discardagain", "reseatagain"}
    <3>1. hit[p] \in Nat
      BY <1>2, Zenon
    <3>2. \/ hit'[p] = hit[p] + 1
          \/ hit'[p] = hit[p] /\ pc'[p] \in {"done", "moveprofile", "aside"}
          \/ hit'[p] = hit[p] /\ pc[p] \in {"putback", "rerevoke"}
      BY <1>7, Zenon DEF Reaches, Errs
    <3>3. pc'[p] \in {"putback", "unwind", "rerevoke", "discard"} => hit'[p] >= 1
      BY <2>0, <3>1, <3>2
    <3> QED BY <1>s, <3>3, Zenon
  <2>2. ASSUME Kind(p) \in {"enable", "resync", "set"}, hit'[p] <= 1
        PROVE  /\ pc'[p] = "putback" => profile[u] = before[p].profile
               /\ pc'[p] = "unwind" => profile[u] = before[p].profile /\ F = before[p].entries
               /\ pc'[p] \notin {"restore", "dropkey", "exit"}
    <3>1. hit[p] \in Nat /\ (pc[p] \in {"putback", "rerevoke"} => hit'[p] = hit[p])
      <4>1. hit'[p] = hit[p] \/ hit'[p] = hit[p] + 1
        BY <1>7, Zenon DEF Reaches, Errs
      <4> QED BY <1>2, <2>0, <2>2, <4>1
    <3>2. pc[p] \in {"putback", "rerevoke"} => ~Errs(p, "unwind")
      BY <3>1 DEF Errs
    <3>3. /\ pc[p] = "write" => Kind(p) = "set"
          /\ Kind(p) # "delete"
      BY <1>k, <2>2, Zenon
    <3>4. \/ pc[p] = "write" /\ pc'[p] \in {"done", "putback"}
          \/ pc[p] = "putback" /\ pc'[p] = "unwind" /\ F = before[p].entries
          \/ pc[p] = "revoke" /\ pc'[p] \in {"aside", "putback"}
          \/ pc[p] = "activate" /\ pc'[p] \in {"done", "rerevoke"}
          \/ pc[p] = "rerevoke" /\ pc'[p] = "discard"
      BY <1>7, <3>2, <3>3, Zenon DEF Reaches, Errs
    <3>5. pc[p] = "putback" => profile[u] = before[p].profile
      BY <2>2, <2>p, <3>1, Zenon DEF SyncKinds
    <3>6. pc[p] \in {"write", "revoke"} => profile[u] = before[p].profile
      BY <1>5, Zenon
    <3> QED BY <3>4, <3>5, <3>6, Zenon
  <2> QED BY <1>3, <1>4, <2>1, <2>2, Zenon DEF u, F, MemoryStill, HitInv, SyncKinds
<1>27. DoneInv(p)'
  <2>1. pc'[p] = "done" => pc[p] \in {"write", "activate"} /\ F = Entries(set_mode(p), u)
    BY <1>s, Zenon
  <2> QED BY <1>3, <1>4, <1>5, <1>8, <1>k, <1>10, <1>o, <2>1, Zenon DEF u, F, MemoryStill, DoneInv, SyncKinds
<1> QED BY <1>15, <1>20, <1>21, <1>22, <1>23, <1>24, <1>25, <1>26, <1>27, Zenon DEF ProcInv, u

(* Steps of commit_verified_profile and its rollback that move a profile. *)
LEMMA SwapStep ==
    ASSUME SyncAssumption, Inv, NEW p \in Procs,
           \/ MoveAside(p) \/ Install(p) \/ Reinstate(p) \/ Discard(p) \/ Reseat(p)
           \/ DiscardAgain(p) \/ ReseatAgain(p)
    PROVE  ProcInv(p)' /\ UserInv(User(p))'
<1> DEFINE u == User(p)
<1>1. /\ pc[p] \in {"aside", "install", "reinstate", "discard", "reseat", "discardagain", "reseatagain"}
      /\ before[p] # None
  BY Zenon DEF Inv, ProcInv, LockInv, MoveAside, Install, Reinstate, Discard, Reseat, DiscardAgain, ReseatAgain
<1>2. /\ TypeOK /\ op[p] \in Ops /\ u \in Users /\ before[p] \in Founds /\ hit[p] \in Nat
      /\ LockInv(p) /\ KindInv(p) /\ KeyInv(p) /\ ModeInv(p) /\ ProfileInv(p) /\ BackupInv(p) /\ HitInv(p)
      /\ UserInv(u) /\ Usable(before[p])
  BY <1>1, Holding, Zenon
<1>3. /\ op'[p] = op[p] /\ prev'[p] = prev[p] /\ sysKey'[p] = sysKey[p] /\ newKey'[p] = newKey[p]
      /\ before'[p] = before[p] /\ UNCHANGED <<policyVars, key, revoked, lockVars>>
  BY Zenon DEF MoveAside, Install, Reinstate, Discard, Reseat, DiscardAgain, ReseatAgain, PutProfile, RemoveProfile
<1>4. User(p)' = u /\ Kind(p)' = Kind(p) /\ Entry(p)' = Entry(p) /\ Staged(p)' = Staged(p)
  BY <1>3, SameOperation, Zenon DEF Staged
<1>5. /\ Kind(p) \in SyncKinds /\ sysKey[p] = key[u] /\ key[u] \in Nat
      /\ Entries(policy, u) = {}
      /\ Entries(prev[p], u) = before[p].entries /\ Others(policy, u) = Others(prev[p], u)
      /\ pc[p] = "aside" => profile[u] = before[p].profile
      /\ pc[p] \in {"install", "reinstate", "reseat", "reseatagain"} => profile[u] = None
      /\ pc[p] # "aside" => backup[p] = before[p].profile
      /\ newKey[p] => before[p].profile = None /\ Kind(p) # "enable" /\ before[p].key = None
      /\ ~newKey[p] => key[u] = before[p].key
  BY <1>1, <1>2, Zenon DEF KindInv, KeyInv, ModeInv, ProfileInv, Loaded, Looking, Swapping, SyncKinds
<1>6. \/ /\ pc[p] = "aside" /\ profile[u] # Partial /\ backup'[p] = profile[u] /\ profile'[u] = None
         /\ Reaches(p, "install")
      \/ pc[p] = "aside" /\ backup'[p] = backup[p] /\ profile'[u] = profile[u] /\ Errs(p, "restore")
      \/ /\ pc[p] # "aside" /\ backup'[p] = backup[p]
         /\ \/ pc[p] = "install" /\ profile'[u] = Staged(p) /\ Reaches(p, "verify")
            \/ pc[p] = "install" /\ profile'[u] = profile[u] /\ Errs(p, "reinstate")
            \/ pc[p] \in {"reinstate", "reseat"} /\ profile'[u] = backup[p] /\ Reaches(p, "restore")
            \/ pc[p] = "reinstate" /\ profile'[u] = profile[u] /\ Errs(p, "restore")
            \/ pc[p] = "discard" /\ profile'[u] = None /\ Reaches(p, "reseat")
            \/ pc[p] = "discard" /\ profile'[u] \in {profile[u], Partial} /\ Errs(p, "discardagain")
            \/ pc[p] = "reseat" /\ profile'[u] = profile[u] /\ Errs(p, "discardagain")
            \/ pc[p] = "discardagain" /\ profile'[u] = None /\ Reaches(p, "reseatagain")
            \/ pc[p] = "discardagain" /\ profile'[u] \in {profile[u], Partial} /\ Errs(p, "unwind")
            \/ pc[p] = "reseatagain" /\ profile'[u] = backup[p] /\ Reaches(p, "unwind")
            \/ pc[p] = "reseatagain" /\ profile'[u] = profile[u] /\ Errs(p, "unwind")
  <2>1. ASSUME NEW prof, NEW ok, NEW err, PutProfile(p, prof, ok, err)
        PROVE  /\ backup'[p] = backup[p]
               /\ \/ profile'[u] = prof /\ Reaches(p, ok)
                  \/ profile'[u] = profile[u] /\ Errs(p, err)
    BY <1>2, <2>1, Went, Zenon DEF PutProfile, TypeOK
  <2>2. ASSUME NEW ok, NEW err, RemoveProfile(p, ok, err)
        PROVE  /\ backup'[p] = backup[p]
               /\ \/ profile'[u] = None /\ Reaches(p, ok)
                  \/ profile'[u] \in {profile[u], Partial} /\ Errs(p, err)
    BY <1>2, <2>2, Went, Zenon DEF RemoveProfile, TypeOK
  <2>3. CASE MoveAside(p)
    BY <1>2, <2>3, Went, Zenon DEF MoveAside, TypeOK
  <2>4. CASE Install(p) \/ Reinstate(p) \/ Reseat(p) \/ ReseatAgain(p)
    BY <2>1, <2>4, Zenon DEF Install, Reinstate, Reseat, ReseatAgain
  <2>5. CASE Discard(p) \/ DiscardAgain(p)
    BY <2>2, <2>5, Zenon DEF Discard, DiscardAgain
  <2> QED BY <2>3, <2>4, <2>5, Zenon
<1> HIDE DEF u
<1>7. profile'[u] \in {None, Partial, Staged(p), before[p].profile, profile[u]}
  BY <1>5, <1>6, Zenon
<1>8. UserInv(u)'
  <2>1. Staged(p) \in Profiles /\ Staged(p).key = key[u]
    BY <1>2, <1>5, Zenon DEF Staged, Profiles, Ops
  <2>2. profile'[u] = before[p].profile /\ before[p].profile \in Profiles => before[p].profile.key = key[u]
    BY <1>2, <1>5, Zenon DEF Usable, SyncAssumption
  <2>3. before[p].profile \in Profiles \cup {None, Partial}
    BY <1>2, Zenon DEF Founds
  <2>4. profile'[u] \in {None, Partial} \/ profile'[u].key = key[u]
    BY <1>2, <1>5, <1>7, <2>1, <2>2, <2>3, Zenon DEF UserInv, Opens, Intact, SyncAssumption
  <2> QED BY <1>3, <1>4, <1>5, <2>4, Zenon DEF u, UserInv, Opens, Intact
<1>s. pc'[p] \in {"install", "restore", "verify", "reinstate", "reseat", "discardagain", "reseatagain", "unwind"}
  BY <1>6, Zenon DEF Reaches, Errs
<1>20. LockInv(p)'
  <2>1. pc[p] \in Policed /\ pc'[p] \notin {"idle", "lock", "exit"}
    BY <1>1, <1>s, Zenon DEF Policed, Loaded
  <2> QED BY <1>1, <1>2, <1>3, <1>4, <2>1, Zenon DEF u, LockInv
<1>21. KindInv(p)'
  BY <1>4, <1>5, <1>s, Zenon DEF KindInv
<1>22. KeyInv(p)'
  <2>1. pc'[p] \notin {"dropkey", "key", "exit"}
    BY <1>s, Zenon
  <2> QED BY <1>3, <1>4, <1>5, <2>1, Zenon DEF u, KeyInv, SyncKinds
<1>23. ModeInv(p)'
  <2>1. pc'[p] \in Swapping \cup {"unwind"} /\ pc'[p] \notin Looking \cup {"putback"}
    BY <1>s, Zenon DEF Swapping, Looking
  <2> QED BY <1>3, <1>4, <1>5, <2>1, Zenon DEF u, ModeInv, Looking
<1>24. ProfileInv(p)'
  BY <1>1, <1>3, <1>4, <1>5, <1>6, Zenon DEF u, Reaches, Errs, ProfileInv, Looking
<1>25. BackupInv(p)'
  BY <1>s, Zenon DEF BackupInv
<1>26. HitInv(p)'
  <2>1. /\ pc[p] \in {"reinstate", "discard", "reseat"} => hit[p] >= 1
        /\ pc[p] \in {"discardagain", "reseatagain"} => hit[p] >= 2
    BY <1>2, Zenon DEF HitInv
  <2>h. hit[p] \in Nat
    BY <1>2, Zenon
  <2>a. \/ /\ pc[p] = "aside" /\ hit'[p] = hit[p] /\ pc'[p] = "install"
        \/ /\ pc[p] = "aside" /\ hit'[p] = hit[p] + 1 /\ pc'[p] = "restore" /\ profile'[u] = profile[u]
        \/ pc[p] = "install" /\ hit'[p] = hit[p] /\ pc'[p] = "verify"
        \/ pc[p] = "install" /\ hit'[p] = hit[p] + 1 /\ pc'[p] = "reinstate"
        \/ /\ pc[p] \in {"reinstate", "reseat"} /\ hit'[p] = hit[p] /\ pc'[p] = "restore"
           /\ profile'[u] = backup[p]
        \/ pc[p] = "reinstate" /\ hit'[p] = hit[p] + 1 /\ pc'[p] = "restore"
        \/ pc[p] = "discard" /\ hit'[p] = hit[p] /\ pc'[p] = "reseat"
        \/ pc[p] \in {"discard", "reseat"} /\ hit'[p] = hit[p] + 1 /\ pc'[p] = "discardagain"
        \/ /\ pc[p] \in {"discardagain", "reseatagain"} /\ hit'[p] \in {hit[p], hit[p] + 1}
           /\ pc'[p] \in {"reseatagain", "unwind"}
    BY <1>6, <2>h, Zenon DEF Reaches, Errs
  <2>2. /\ pc'[p] \in {"reinstate", "reseat", "restore", "unwind"} => hit'[p] >= 1
        /\ pc'[p] \in {"discardagain", "reseatagain", "unwind"} => hit'[p] >= 2
        /\ pc'[p] \notin {"rerevoke", "discard", "putback", "dropkey", "unmove", "exit"}
    BY <2>a, <2>h, <2>1
  <2>3. pc'[p] = "restore" /\ hit'[p] <= 1 => profile'[u] = before[p].profile
    <3>1. pc[p] = "reinstate" /\ hit'[p] = hit[p] + 1 => ~(hit'[p] <= 1)
      BY <2>h, <2>1
    <3> QED BY <1>5, <2>a, <3>1, Zenon
  <2>4. hit'[p] \in Nat
    BY <2>a, <2>h
  <2>5. pc'[p] \in {"unwind"} => ~(hit'[p] <= 1)
    BY <2>2, <2>4
  <2>6. pc'[p] \notin {"rerevoke", "discard", "putback", "dropkey", "unmove", "exit"} /\ before'[p] = before[p]
        /\ User(p)' = u
    BY <1>3, <1>4, <2>2, Zenon DEF u
  <2> QED BY <2>2, <2>3, <2>5, <2>6, Zenon DEF HitInv
<1>27. DoneInv(p)'
  BY <1>s, Zenon DEF DoneInv
<1> QED BY <1>8, <1>4, <1>20, <1>21, <1>22, <1>23, <1>24, <1>25, <1>26, <1>27, Zenon DEF ProcInv, u

-----------------------------------------------------------------------------
LEMMA FoundFits ==
    ASSUME SyncAssumption, NEW f \in Founds, Usable(f), f.entries # {}
    PROVE  f.profile \notin {None, Partial} /\ f.key # None /\ f.profile.key = f.key
  BY Zenon DEF Usable, SyncAssumption, Profiles, Founds

(* Steps of delete_system_profile. *)
LEMMA DeleteStep ==
    ASSUME SyncAssumption, Inv, NEW p \in Procs, MoveProfile(p) \/ MoveKey(p) \/ Unmove(p) \/ Clear(p)
    PROVE  ProcInv(p)' /\ UserInv(User(p))'
<1> DEFINE u == User(p)
<1>1. pc[p] \in {"moveprofile", "movekey", "unmove", "clear"} /\ before[p] # None
  BY Zenon DEF Inv, ProcInv, LockInv, MoveProfile, MoveKey, Unmove, Clear
<1>2. /\ TypeOK /\ op[p] \in Ops /\ u \in Users /\ before[p] \in Founds /\ hit[p] \in Nat
      /\ LockInv(p) /\ KindInv(p) /\ KeyInv(p) /\ ModeInv(p) /\ ProfileInv(p) /\ BackupInv(p) /\ HitInv(p)
      /\ UserInv(u) /\ Usable(before[p])
  BY <1>1, Holding, Zenon
<1>3. /\ op'[p] = op[p] /\ prev'[p] = prev[p] /\ sysKey'[p] = sysKey[p] /\ newKey'[p] = newKey[p]
      /\ before'[p] = before[p] /\ UNCHANGED <<policyVars, lockVars>>
  BY Zenon DEF MoveProfile, MoveKey, Unmove, Clear
<1>4. User(p)' = u /\ Kind(p)' = Kind(p) /\ Entry(p)' = Entry(p) /\ Staged(p)' = Staged(p)
  BY <1>3, SameOperation, Zenon DEF Staged
<1>5. /\ Kind(p) = "delete" /\ ~newKey[p] /\ Entries(policy, u) = {}
      /\ Entries(prev[p], u) = before[p].entries /\ Others(policy, u) = Others(prev[p], u)
      /\ pc[p] = "moveprofile" => profile[u] = before[p].profile /\ backup[p] = None
      /\ pc[p] # "moveprofile" => profile[u] = None
      /\ pc[p] \in {"movekey", "unmove"} => backup[p] = before[p].profile
      /\ IF pc[p] = "clear" THEN key[u] = None ELSE key[u] = before[p].key
  BY <1>1, <1>2, Zenon DEF KindInv, KeyInv, ModeInv, ProfileInv, BackupInv, Loaded, Looking, Swapping, SyncKinds
<1>h. hit[p] \in Nat
  BY <1>2, Zenon
<1>6. \/ /\ pc[p] = "moveprofile" /\ backup'[p] = before[p].profile /\ profile'[u] = None
         /\ pc'[p] = "movekey" /\ hit'[p] = hit[p] /\ key'[u] = key[u]
      \/ /\ pc[p] = "moveprofile" /\ profile'[u] = profile[u]
         /\ pc'[p] = "putback" /\ hit'[p] = hit[p] + 1 /\ key'[u] = key[u]
      \/ /\ pc[p] = "movekey" /\ backup'[p] = backup[p] /\ profile'[u] = None /\ key'[u] = None
         /\ pc'[p] = "clear" /\ hit'[p] = hit[p]
      \/ /\ pc[p] = "movekey" /\ backup'[p] = backup[p] /\ profile'[u] = None /\ key'[u] = key[u]
         /\ pc'[p] = "unmove" /\ hit'[p] = hit[p] + 1
      \/ /\ pc[p] = "unmove" /\ profile'[u] = before[p].profile /\ key'[u] = key[u]
         /\ pc'[p] = "putback" /\ hit'[p] = hit[p]
      \/ /\ pc[p] = "unmove" /\ profile'[u] = None /\ key'[u] = key[u]
         /\ pc'[p] = "unwind" /\ hit'[p] = hit[p] + 1
      \/ /\ pc[p] = "clear" /\ profile'[u] = None /\ key'[u] = None /\ revoked'[u] = {}
         /\ pc'[p] = "done" /\ hit'[p] = hit[p]
      \/ /\ pc[p] = "clear" /\ profile'[u] = None /\ key'[u] = None
         /\ pc'[p] = "unwind" /\ hit'[p] = hit[p] + 1
  <2>1. CASE MoveProfile(p)
    BY <1>2, <1>5, <1>h, <2>1, Went, Zenon DEF MoveProfile, TypeOK, Reaches, Errs
  <2>2. CASE MoveKey(p)
    BY <1>2, <1>5, <1>h, <2>2, Went, Zenon DEF MoveKey, TypeOK, Reaches, Errs
  <2>3. CASE Unmove(p)
    BY <1>2, <1>5, <1>h, <2>3, Went, Zenon DEF Unmove, TypeOK, Reaches, Errs
  <2>4. CASE Clear(p)
    BY <1>2, <1>5, <1>h, <2>4, Went, Zenon DEF Clear, clear_revoked_copies, TypeOK, Reaches, Errs
  <2> QED BY <2>1, <2>2, <2>3, <2>4, Zenon
<1> HIDE DEF u
<1>8. UserInv(u)'
  <2>1. before[p].profile \in Profiles \cup {None, Partial}
    BY <1>2, Zenon DEF Founds
  <2>2. profile'[u] = None \/ (profile'[u] = before[p].profile /\ key'[u] = before[p].key)
    BY <1>5, <1>6, Zenon
  <2>3. profile'[u] \in {None, Partial} \/ key'[u] = None \/ profile'[u].key = key'[u]
    BY <1>2, <2>1, <2>2, Zenon DEF Usable
  <2> QED BY <1>3, <1>4, <1>5, <2>3, Zenon DEF u, UserInv, Opens, Intact
<1>20. LockInv(p)'
  BY <1>1, <1>2, <1>3, <1>4, <1>6, Zenon DEF u, LockInv, Policed, Loaded
<1>21. KindInv(p)'
  BY <1>4, <1>5, <1>6, Zenon DEF KindInv, SyncKinds
<1>22. KeyInv(p)'
  BY <1>1, <1>3, <1>4, <1>5, <1>6, Zenon DEF u, KeyInv, SyncKinds, Loaded
<1>23. ModeInv(p)'
  <2>1. pc'[p] \in Swapping \cup {"unwind", "putback", "done"} /\ pc'[p] \notin Looking
    BY <1>6, Zenon DEF Swapping, Looking
  <2>2. pc'[p] = "putback" => profile'[u] = before[p].profile /\ key'[u] = before[p].key
    BY <1>5, <1>6, Zenon
  <2>3. pc'[p] = "putback" /\ before[p].entries # {} => Opens(u, key[u])'
    BY <1>2, <1>4, <2>2, FoundFits, Zenon DEF u, Opens, Intact
  <2> QED BY <1>3, <1>4, <1>5, <2>1, <2>3, Zenon DEF u, ModeInv, Looking, Swapping
<1>24. ProfileInv(p)'
  BY <1>1, <1>3, <1>4, <1>5, <1>6, Zenon DEF u, ProfileInv, Looking
<1>25. BackupInv(p)'
  BY <1>6, Zenon DEF BackupInv
<1>26. HitInv(p)'
  <2>1. pc[p] = "unmove" => hit[p] >= 1
    BY <1>2, Zenon DEF HitInv
  <2>2. pc'[p] \in {"unmove", "putback", "unwind"} => hit'[p] >= 1
    <3>1. pc'[p] \in {"unmove", "putback", "unwind"} =>
             hit'[p] = hit[p] + 1 \/ (hit'[p] = hit[p] /\ pc[p] = "unmove")
      BY <1>6, Zenon
    <3> QED BY <1>h, <2>1, <3>1
  <2> QED BY <1>4, <1>5, <1>6, <2>2, Zenon DEF HitInv, SyncKinds
<1>27. DoneInv(p)'
  BY <1>3, <1>4, <1>5, <1>6, Zenon DEF u, DoneInv, SyncKinds
<1> QED BY <1>8, <1>4, <1>20, <1>21, <1>22, <1>23, <1>24, <1>25, <1>26, <1>27, Zenon DEF ProcInv, u

(* The policy lock is taken, the policy loaded: files and modes are kept.  *)
LEMMA LoadStep ==
    ASSUME SyncAssumption, Inv, NEW p \in Procs, TakePolicyLock(p) \/ Load(p)
    PROVE  ProcInv(p)' /\ UserInv(User(p))'
<1> DEFINE u == User(p)
<1>1. pc[p] \in {"policylock", "load"} /\ before[p] # None
  BY Zenon DEF Inv, ProcInv, LockInv, TakePolicyLock, Load
<1>2. /\ TypeOK /\ op[p] \in Ops /\ u \in Users /\ before[p] \in Founds /\ hit[p] \in Nat
      /\ LockInv(p) /\ KindInv(p) /\ KeyInv(p) /\ ModeInv(p) /\ ProfileInv(p) /\ BackupInv(p) /\ HitInv(p)
      /\ UserInv(u) /\ Usable(before[p])
  BY <1>1, Holding, Zenon
<1>3. /\ op'[p] = op[p] /\ backup'[p] = backup[p]
      /\ before'[p] = before[p] /\ UNCHANGED <<policyVars, profile, revoked, profileLock>>
  BY Zenon DEF TakePolicyLock, Load
<1>4. User(p)' = u /\ Kind(p)' = Kind(p) /\ Entry(p)' = Entry(p)
  BY <1>3, SameOperation, Zenon
<1>h. hit[p] \in Nat
  BY <1>2, Zenon
<1>5. UNCHANGED key /\ sysKey'[p] = sysKey[p] /\ newKey'[p] = newKey[p]
  BY Zenon DEF TakePolicyLock, Load
<1>6. \/ pc[p] = "policylock" /\ policyLock' = p /\ pc'[p] = "load" /\ hit'[p] = hit[p]
      \/ /\ pc[p] = "load" /\ policyLock' = policyLock /\ hit'[p] = hit[p] /\ prev'[p] = policy
         /\ pc'[p] = (IF Kind(p) \in SyncKinds \cup {"delete"} THEN "revoke" ELSE "write")
      \/ pc'[p] = "unwind" /\ hit'[p] = hit[p] + 1
  <2>1. CASE TakePolicyLock(p)
    BY <1>2, <1>h, <2>1, Went, Zenon DEF TakePolicyLock, Reaches, Errs
  <2>2. CASE Load(p)
    BY <1>2, <1>h, <2>2, Went, Zenon DEF Load, TypeOK, Reaches, Errs
  <2> QED BY <2>1, <2>2, Zenon
<1>7. /\ profile[u] = before[p].profile /\ Entries(policy, u) = before[p].entries /\ backup[p] = None
      /\ ~newKey[p] => key[u] = before[p].key
      /\ Kind(p) \in SyncKinds => sysKey[p] = key[u] /\ key[u] \in Nat
      /\ Kind(p) \in {"enable", "resync", "delete", "set", "disable", "unset"}
  BY <1>1, <1>2, Zenon DEF KeyInv, ModeInv, ProfileInv, BackupInv, Looking, SyncKinds, Kind, Ops, AllKinds
<1>8. newKey[p] =>
         /\ Kind(p) = "resync" /\ before[p].profile = None /\ before[p].key = None
         /\ Entries(policy, u) = {} /\ key[u] = sysKey[p]
  BY <1>1, <1>2, Zenon DEF KeyInv, SyncKinds
<1>9. UserInv(u)'
  BY <1>2, <1>3, <1>4, <1>5, Zenon DEF UserInv, Opens, Intact
<1> HIDE DEF u
<1>20. LockInv(p)'
  BY <1>1, <1>2, <1>3, <1>4, <1>5, <1>6, Zenon DEF u, LockInv, Policed, Loaded
<1>21. KindInv(p)'
  BY <1>4, <1>6, <1>7, Zenon DEF KindInv, SyncKinds
<1>22. KeyInv(p)'
  BY <1>3, <1>4, <1>5, <1>6, <1>7, <1>8, Zenon DEF u, KeyInv, SyncKinds
<1>23. ModeInv(p)'
  <2>1. Kind(p) = "set" => before[p].profile \in Profiles /\ before[p].key # None
    BY <1>1, <1>2, Zenon DEF ModeInv
  <2> QED BY <1>3, <1>4, <1>6, <1>7, <2>1, Zenon DEF u, ModeInv, Looking, Loaded, Swapping
<1>24. ProfileInv(p)'
  BY <1>3, <1>4, <1>6, <1>7, Zenon DEF u, ProfileInv, Looking
<1>25. BackupInv(p)'
  BY <1>3, <1>7, Zenon DEF BackupInv
<1>26. HitInv(p)'
  <2>1. pc'[p] \in {"load", "revoke", "write", "unwind"} /\ (pc'[p] = "unwind" => hit'[p] = hit[p] + 1)
    BY <1>6, Zenon
  <2>2. pc'[p] = "unwind" => hit'[p] >= 1
    BY <1>h, <2>1
  <2> QED BY <1>3, <1>4, <1>7, <2>1, <2>2, Zenon DEF u, HitInv
<1>27. DoneInv(p)'
  BY <1>6, Zenon DEF DoneInv
<1> QED BY <1>4, <1>9, <1>20, <1>21, <1>22, <1>23, <1>24, <1>25, <1>26, <1>27, Zenon DEF ProcInv, u

(* The key is loaded or made: the profile and the modes are kept.          *)
LEMMA LoadKeyStep ==
    ASSUME SyncAssumption, Inv, NEW p \in Procs, LoadKey(p)
    PROVE  ProcInv(p)' /\ UserInv(User(p))'
<1> DEFINE u == User(p)
<1>1. pc[p] = "key" /\ before[p] # None
  BY Zenon DEF Inv, ProcInv, LockInv, LoadKey
<1>2. /\ TypeOK /\ op[p] \in Ops /\ u \in Users /\ before[p] \in Founds /\ hit[p] \in Nat
      /\ LockInv(p) /\ KindInv(p) /\ KeyInv(p) /\ ModeInv(p) /\ ProfileInv(p) /\ BackupInv(p) /\ HitInv(p)
      /\ UserInv(u) /\ Usable(before[p])
  BY <1>1, Holding, Zenon
<1>3. /\ op'[p] = op[p] /\ backup'[p] = backup[p]
      /\ before'[p] = before[p] /\ UNCHANGED <<policyVars, profile, revoked, profileLock>>
  BY Zenon DEF LoadKey
<1>4. User(p)' = u /\ Kind(p)' = Kind(p) /\ Entry(p)' = Entry(p)
  BY <1>3, SameOperation, Zenon
<1>h. hit[p] \in Nat
  BY <1>2, Zenon
<1>5. /\ Kind(p) \in SyncKinds /\ ~newKey[p] /\ key[u] = before[p].key /\ backup[p] = None
      /\ profile[u] = before[p].profile /\ Entries(policy, u) = before[p].entries
  BY <1>1, <1>2, Zenon DEF KindInv, KeyInv, ModeInv, ProfileInv, BackupInv, Looking
<1>6. \/ /\ key[u] # None /\ ~newKey'[p] /\ key'[u] = key[u]
         /\ sysKey'[p] = key[u] /\ pc'[p] = "stage" /\ hit'[p] = hit[p]
      \/ /\ key[u] = None /\ profile[u] = None /\ newKey'[p] /\ key'[u] = op[p].run
         /\ sysKey'[p] = op[p].run /\ pc'[p] = "stage" /\ hit'[p] = hit[p]
      \/ /\ key[u] = None /\ profile[u] = None /\ newKey'[p] /\ key'[u] = op[p].run
         /\ sysKey'[p] = op[p].run /\ pc'[p] = "unwind" /\ hit'[p] = hit[p] + 1
      \/ ~newKey'[p] /\ key'[u] = key[u] /\ pc'[p] = "unwind" /\ hit'[p] = hit[p] + 1
  <2> DEFINE k == load_or_generate_system_key(p)
  <2>1. CASE /\ k # None
             /\ sysKey' = [sysKey EXCEPT ![p] = k]
             /\ newKey' = [newKey EXCEPT ![p] = (key[u] = None)]
             /\ key' = [key EXCEPT ![u] = k]
             /\ Goes(p, "stage") \/ (key[u] = None /\ Fails(p, "unwind"))
    <3>1. sysKey'[p] = k /\ (newKey'[p] <=> key[u] = None) /\ key'[u] = k
      BY <1>2, <2>1, Zenon DEF TypeOK
    <3>2. \/ pc'[p] = "stage" /\ hit'[p] = hit[p]
          \/ key[u] = None /\ pc'[p] = "unwind" /\ hit'[p] = hit[p] + 1
      BY <1>2, <2>1, Went, Zenon DEF Reaches, Errs
    <3>3. \/ key[u] # None /\ k = key[u]
          \/ key[u] = None /\ profile[u] = None /\ k = op[p].run
      BY <2>1, Zenon DEF load_or_generate_system_key
    <3> HIDE DEF k, u
    <3> QED BY <3>1, <3>2, <3>3, Zenon
  <2>2. CASE (Refuses(p, "unwind") \/ Fails(p, "unwind")) /\ UNCHANGED <<key, sysKey, newKey>>
    <3>1. pc'[p] = "unwind" /\ hit'[p] = hit[p] + 1
      BY <1>2, <2>2, Went, Zenon DEF Errs
    <3> QED BY <1>5, <2>2, <3>1, Zenon
  <2> QED BY <2>1, <2>2, Zenon DEF LoadKey
<1>7. key[u] \in Nat \cup {None} /\ op[p].run \in Nat
  BY <1>2, Zenon DEF TypeOK, Ops
<1>8. key[u] = None => Entries(policy, u) = {}
  BY <1>2, Zenon DEF UserInv, Opens
<1> HIDE DEF u
<1>9. UserInv(u)'
  <2>1. CASE key'[u] = key[u]
    BY <1>2, <1>3, <1>4, <2>1, Zenon DEF u, UserInv, Opens, Intact
  <2>2. CASE key[u] = None /\ profile[u] = None
    BY <1>3, <1>4, <1>8, <2>2, Zenon DEF u, UserInv, Opens, Intact
  <2> QED BY <1>6, <2>1, <2>2, Zenon
<1>20. LockInv(p)'
  BY <1>1, <1>2, <1>3, <1>4, <1>6, Zenon DEF u, LockInv, Policed, Loaded
<1>21. KindInv(p)'
  BY <1>4, <1>5, <1>6, Zenon DEF KindInv, SyncKinds
<1>22. KeyInv(p)'
  BY <1>3, <1>4, <1>5, <1>6, <1>7, <1>8, Zenon DEF u, KeyInv, SyncKinds, Loaded
<1>23. ModeInv(p)'
  BY <1>3, <1>4, <1>5, <1>6, Zenon DEF u, ModeInv, Looking, Loaded, Swapping
<1>24. ProfileInv(p)'
  BY <1>3, <1>4, <1>5, <1>6, Zenon DEF u, ProfileInv, Looking
<1>25. BackupInv(p)'
  BY <1>3, <1>5, Zenon DEF BackupInv
<1>26. HitInv(p)'
  <2>1. pc'[p] \in {"stage", "unwind"} /\ (pc'[p] = "unwind" => hit'[p] = hit[p] + 1)
    BY <1>6, Zenon
  <2>2. pc'[p] = "unwind" => hit'[p] >= 1
    BY <1>h, <2>1
  <2> QED BY <1>3, <1>4, <1>5, <2>1, <2>2, Zenon DEF u, HitInv
<1>27. DoneInv(p)'
  BY <1>6, Zenon DEF DoneInv
<1> QED BY <1>4, <1>9, <1>20, <1>21, <1>22, <1>23, <1>24, <1>25, <1>26, <1>27, Zenon DEF ProcInv, u

(* An operation that failed leaves: the policy lock is dropped, then a key *)
(* that it made.                                                           *)
LEMMA LeaveStep ==
    ASSUME SyncAssumption, Inv, NEW p \in Procs, Unwind(p) \/ DropKey(p)
    PROVE  ProcInv(p)' /\ UserInv(User(p))'
<1> DEFINE u == User(p)
<1>1. pc[p] \in {"unwind", "dropkey"} /\ before[p] # None
  BY Zenon DEF Inv, ProcInv, LockInv, Unwind, DropKey
<1>2. /\ TypeOK /\ op[p] \in Ops /\ u \in Users /\ before[p] \in Founds /\ hit[p] \in Nat
      /\ LockInv(p) /\ KindInv(p) /\ KeyInv(p) /\ ModeInv(p) /\ ProfileInv(p) /\ BackupInv(p) /\ HitInv(p)
      /\ UserInv(u) /\ Usable(before[p])
  BY <1>1, Holding, Zenon
<1>3. /\ op'[p] = op[p] /\ backup'[p] = backup[p]
      /\ before'[p] = before[p] /\ UNCHANGED <<policyVars, profile, revoked, profileLock>>
  BY Zenon DEF Unwind, DropKey
<1>4. User(p)' = u /\ Kind(p)' = Kind(p) /\ Entry(p)' = Entry(p)
  BY <1>3, SameOperation, Zenon
<1>h. hit[p] \in Nat
  BY <1>2, Zenon
<1>5. sysKey'[p] = sysKey[p] /\ newKey'[p] = newKey[p]
  BY Zenon DEF Unwind, DropKey
<1>6. \/ pc[p] = "unwind" /\ newKey[p] /\ pc'[p] = "dropkey" /\ hit'[p] = hit[p] /\ key'[u] = key[u]
      \/ pc[p] = "unwind" /\ ~newKey[p] /\ pc'[p] = "exit" /\ hit'[p] = hit[p] /\ key'[u] = key[u]
      \/ pc[p] = "dropkey" /\ newKey[p] /\ pc'[p] = "exit" /\ hit'[p] = hit[p] /\ key'[u] = None
      \/ pc[p] = "dropkey" /\ newKey[p] /\ pc'[p] = "exit" /\ hit'[p] = hit[p] + 1 /\ key'[u] = key[u]
  <2>1. CASE Unwind(p)
    BY <1>2, <1>h, <2>1, Went, Zenon DEF Unwind, Reaches, Errs
  <2>2. CASE DropKey(p)
    <3>1. newKey[p]
      BY <1>1, <1>2, <2>2, Zenon DEF DropKey, KeyInv
    <3> QED BY <1>2, <1>h, <2>2, <3>1, Went, Zenon DEF DropKey, TypeOK, Reaches, Errs
  <2> QED BY <2>1, <2>2, Zenon
<1>7. newKey[p] =>
         /\ Kind(p) \in SyncKinds /\ before[p].profile = None /\ before[p].key = None
         /\ Entries(policy, u) = {} /\ key[u] = sysKey[p]
  BY <1>1, <1>2, Zenon DEF KeyInv
<1>8. ~newKey[p] /\ Kind(p) # "delete" => key[u] = before[p].key
  BY <1>1, <1>2, Zenon DEF KeyInv
<1> HIDE DEF u
<1>9. UserInv(u)'
  <2>1. CASE key'[u] = key[u]
    BY <1>2, <1>3, <1>4, <2>1, Zenon DEF u, UserInv, Opens, Intact
  <2>2. CASE newKey[p] /\ key'[u] = None
    BY <1>3, <1>4, <1>7, <2>2, Zenon DEF u, UserInv, Opens, Intact
  <2> QED BY <1>6, <2>1, <2>2, Zenon
<1>e. hit[p] >= 1 /\ hit'[p] >= 1 /\ (hit'[p] <= 1 => hit'[p] = hit[p])
  <2>1. hit[p] >= 1
    BY <1>1, <1>2, Zenon DEF HitInv
  <2>2. hit'[p] = hit[p] \/ hit'[p] = hit[p] + 1
    BY <1>6, Zenon
  <2> QED BY <1>h, <2>1, <2>2
<1>f. hit'[p] <= 1 /\ pc[p] = "dropkey" => key'[u] = None
  BY <1>6, <1>e, <1>h
<1>20. LockInv(p)'
  BY <1>1, <1>2, <1>3, <1>4, <1>6, Zenon DEF u, LockInv, Policed, Loaded
<1>21. KindInv(p)'
  BY <1>4, <1>6, <1>7, Zenon DEF KindInv
<1>22. KeyInv(p)'
  BY <1>3, <1>4, <1>5, <1>6, <1>7, <1>8, <1>f, Zenon DEF u, KeyInv, Loaded
<1>23. ModeInv(p)'
  BY <1>6, Zenon DEF ModeInv, Looking, Loaded, Swapping
<1>24. ProfileInv(p)'
  BY <1>6, Zenon DEF ProfileInv, Looking
<1>25. BackupInv(p)'
  BY <1>6, Zenon DEF BackupInv
<1>26. HitInv(p)'
  <2>1. Kind(p) \in SyncKinds \cup {"set"} /\ hit'[p] <= 1
           => profile[u] = before[p].profile /\ Entries(policy, u) = before[p].entries
    BY <1>1, <1>2, <1>e, Zenon DEF u, HitInv
  <2>2. pc'[p] \in {"dropkey", "exit"}
    BY <1>6, Zenon
  <2> QED BY <1>3, <1>4, <1>e, <2>1, <2>2, Zenon DEF u, HitInv
<1>27. DoneInv(p)'
  BY <1>6, Zenon DEF DoneInv
<1> QED BY <1>4, <1>9, <1>20, <1>21, <1>22, <1>23, <1>24, <1>25, <1>26, <1>27, Zenon DEF ProcInv, u

(* A process begins, takes its profile lock, ends, or is killed. *)
LEMMA BoundStep ==
    ASSUME SyncAssumption, Inv, NEW p \in Procs, Begin(p) \/ Lock(p) \/ Finish(p) \/ Crash(p)
    PROVE  ProcInv(p)' /\ \A u \in Users : UserInv(u)'
<1>1. TypeOK /\ ProcInv(p)
  BY Zenon DEF Inv
<1>2. CASE Begin(p)
  <2>1. pc'[p] = "lock" /\ hit'[p] = hit[p] /\ before'[p] = None /\ ~newKey'[p] /\ backup'[p] = None
    BY <1>1, <1>2, Went, Zenon DEF Begin, ProcInv, LockInv, BackupInv, Reaches, Errs
  <2>2. ProcInv(p)'
    BY <2>1, Zenon DEF ProcInv, LockInv, KindInv, KeyInv, ModeInv, ProfileInv, BackupInv, HitInv, DoneInv,
       Policed, Loaded
  <2>3. ASSUME NEW u \in Users PROVE UserInv(u)'
    BY <1>2, <2>3, Zenon DEF Begin, Inv, UserInv, Opens, Intact
  <2> QED BY <2>2, <2>3, Zenon
<1>3. CASE Lock(p)
  <2>1. /\ pc[p] = "lock" /\ before[p] = None /\ ~newKey[p] /\ backup[p] = None /\ op[p] \in Ops
        /\ User(p) \in Users
    BY <1>1, <1>3, Zenon DEF Lock, ProcInv, LockInv, BackupInv, TypeOK, User, Ops
  <2>2. /\ op'[p] = op[p] /\ newKey'[p] = newKey[p] /\ backup'[p] = backup[p]
        /\ UNCHANGED <<policyVars, dataVars>>
    BY <1>3, Zenon DEF Lock
  <2>3. User(p)' = User(p) /\ Kind(p)' = Kind(p)
    BY <2>2, SameOperation, Zenon
  <2>4. \/ pc'[p] = AfterLock(p) /\ before'[p] = Found(p) /\ profileLock'[User(p)] = p
        \/ pc'[p] = "exit" /\ before'[p] = None
    <3>1. /\ pc \in [Procs -> Points] /\ before \in [Procs -> Founds \cup {None}]
          /\ profileLock \in [Users -> Procs \cup {None}]
      BY <1>1, Zenon DEF TypeOK
    <3>2. CASE /\ profileLock' = [profileLock EXCEPT ![User(p)] = p]
               /\ before' = [before EXCEPT ![p] = Found(p)]
               /\ Goes(p, AfterLock(p))
      BY <2>1, <3>1, <3>2, Zenon DEF Goes
    <3>3. CASE (Refuses(p, "exit") \/ Fails(p, "exit")) /\ before' = before
      BY <2>1, <3>1, <3>3, Zenon DEF Refuses, Fails
    <3> QED BY <1>3, <3>2, <3>3, Zenon DEF Lock
  <2>5. UserInv(User(p))
    BY <2>1, Zenon DEF Inv
  <2>u. ASSUME NEW u \in Users PROVE UserInv(u)'
    BY <2>2, <2>u, Zenon DEF Inv, UserInv, Opens, Intact
  <2>6. CASE pc'[p] = "exit" /\ before'[p] = None
    BY <2>1, <2>2, <2>6, <2>u, Zenon DEF ProcInv, LockInv, KindInv, KeyInv, ModeInv, ProfileInv, BackupInv, HitInv,
       DoneInv, Policed, Loaded
  <2>7. CASE pc'[p] = AfterLock(p) /\ before'[p] = Found(p) /\ profileLock'[User(p)] = p
    <3>1. \/ Kind(p) \in SyncKinds /\ pc'[p] = "key"
          \/ Kind(p) = "delete" /\ pc'[p] = "validate"
          \/ Kind(p) = "set" /\ pc'[p] = "setup"
          \/ Kind(p) \in {"disable", "unset"} /\ pc'[p] = "policylock"
      BY <2>1, <2>7, Zenon DEF AfterLock, Kind, Ops, AllKinds, SyncKinds
    <3>2. /\ Found(p).profile = profile[User(p)] /\ Found(p).key = key[User(p)]
          /\ Found(p).entries = Entries(policy, User(p))
      BY Zenon DEF Found
    <3>3. Usable(Found(p))
      BY <1>1, <2>1, <2>5, <3>2 DEF Usable, UserInv, Opens, Intact, TypeOK, SyncAssumption
    <3>n. Found(p) # None
      <4>1. Found(p) \in Founds
        BY <1>1, <2>1, Zenon DEF Found, Founds, Entries, Policies, TypeOK
      <4> QED BY <4>1, Zenon DEF SyncAssumption
    <3>4. LockInv(p)'
      BY <2>1, <2>2, <2>3, <2>7, <3>1, <3>3, <3>n, Zenon DEF LockInv, Policed, Loaded
    <3>5. KindInv(p)' /\ BackupInv(p)' /\ HitInv(p)' /\ DoneInv(p)'
      BY <2>1, <2>2, <2>3, <3>1, Zenon DEF KindInv, BackupInv, HitInv, DoneInv, SyncKinds
    <3>6. KeyInv(p)'
      BY <2>1, <2>2, <2>3, <2>7, <3>1, <3>2, Zenon DEF KeyInv, SyncKinds, Loaded
    <3>7. ModeInv(p)' /\ ProfileInv(p)'
      BY <2>2, <2>3, <2>7, <3>1, <3>2, Zenon DEF ModeInv, ProfileInv, Looking, Loaded, Swapping
    <3> QED BY <2>u, <3>4, <3>5, <3>6, <3>7, Zenon DEF ProcInv
  <2> QED BY <2>4, <2>6, <2>7, Zenon
<1>4. CASE Finish(p) \/ Crash(p)
  <2>1. pc'[p] = "idle" /\ before'[p] = None /\ newKey'[p] = FALSE /\ backup'[p] = None
    BY <1>1, <1>4, Zenon DEF Finish, Crash, Forget, TypeOK
  <2>2. ProcInv(p)'
    BY <2>1, Zenon DEF ProcInv, LockInv, KindInv, KeyInv, ModeInv, ProfileInv, BackupInv, HitInv, DoneInv,
       Policed, Loaded
  <2>3. ASSUME NEW u \in Users PROVE UserInv(u)'
    <3>1. UserInv(u) /\ policy' = policy /\ key' = key
      BY <1>4, <2>3, Zenon DEF Inv, Finish, Crash
    <3>2. CASE profile'[u] = profile[u]
      BY <3>1, <3>2, Zenon DEF UserInv, Opens, Intact
    <3>3. CASE profile'[u] # profile[u]
      <4>1. pc[p] \in {"discard", "discardagain"} /\ User(p) = u /\ profile'[u] = Partial
        BY <1>1, <1>4, <2>3, <3>3, Zenon DEF Finish, Crash, TypeOK
      <4>2. Entries(policy, u) = {}
        BY <1>1, <4>1, Zenon DEF ProcInv, LockInv, ModeInv, Swapping
      <4> QED BY <3>1, <4>1, <4>2, Zenon DEF UserInv, Opens, Intact
    <3> QED BY <3>2, <3>3, Zenon
  <2> QED BY <2>2, <2>3, Zenon
<1> QED BY <1>2, <1>3, <1>4, Zenon

LEMMA InitInv == ASSUME SyncAssumption, Init PROVE Inv
<1>1. TypeOK
  BY TypeInit, Zenon
<1>2. ASSUME NEW p \in Procs PROVE ProcInv(p)
  <2>1. pc[p] = "idle" /\ before[p] = None /\ newKey[p] = FALSE /\ backup[p] = None
    BY <1>2, Zenon DEF Init
  <2> QED BY <2>1, Zenon DEF ProcInv, LockInv, KindInv, KeyInv, ModeInv, ProfileInv, BackupInv, HitInv,
       DoneInv, Policed, Loaded
<1>3. ASSUME NEW u \in Users PROVE UserInv(u)
  <2>1. PICK S \in SUBSET Users :
            /\ profile = [v \in Users |-> IF v \in S THEN [run |-> 0, key |-> 0] ELSE None]
            /\ key = [v \in Users |-> IF v \in S THEN 0 ELSE None]
            /\ policy \in SUBSET (S \X Targets)
    BY Zenon DEF Init
  <2>2. [run |-> 0, key |-> 0] \in Profiles
    BY Zenon DEF Profiles
  <2>3. CASE u \in S
    <3>1. profile[u] = [run |-> 0, key |-> 0] /\ key[u] = 0
      BY <1>3, <2>1, <2>3, Zenon
    <3>2. profile[u].key = key[u]
      BY <3>1
    <3>3. profile[u] \notin {None, Partial}
      BY <2>2, <3>1, Zenon DEF SyncAssumption
    <3>4. key[u] # None
      BY <3>1 DEF SyncAssumption
    <3> QED BY <3>2, <3>3, <3>4, Zenon DEF UserInv, Opens, Intact
  <2>4. CASE u \notin S
    <3>1. Entries(policy, u) = {}
      BY <2>1, <2>4, Zenon DEF Entries
    <3> QED BY <1>3, <2>1, <2>4, <3>1, Zenon DEF UserInv, Opens, Intact
  <2> QED BY <2>3, <2>4, Zenon
<1> QED BY <1>1, <1>2, <1>3, Zenon DEF Inv

LEMMA NextInv == ASSUME SyncAssumption, Inv, Next PROVE Inv'
<1>1. PICK q \in Procs : Step(q)
  BY Zenon DEF Next
<1>2. /\ \A p \in Procs \ {q} : ProcInv(p)'
      /\ \A u \in Users : (before[q] # None /\ User(q) = u) \/ UserInv(u)'
  BY <1>1, OtherStep, Zenon
<1>3. ASSUME \/ Setup(q) \/ Stage(q) \/ Verify(q) \/ Restore(q) \/ Validate(q)
             \/ Begin(q) \/ Lock(q) \/ Finish(q) \/ Crash(q)
      PROVE  ProcInv(q)' /\ \A u \in Users : UserInv(u)'
  BY <1>3, QuietStep, BoundStep, Zenon
<1>4. ASSUME ~(\/ Setup(q) \/ Stage(q) \/ Verify(q) \/ Restore(q) \/ Validate(q)
               \/ Begin(q) \/ Lock(q) \/ Finish(q) \/ Crash(q))
      PROVE  ProcInv(q)' /\ \A u \in Users : UserInv(u)'
  <2>1. ProcInv(q)' /\ UserInv(User(q))'
    BY <1>1, <1>4, WriteStep, SwapStep, DeleteStep, LoadStep, LoadKeyStep, LeaveStep, Zenon DEF Step
  <2>2. op'[q] = op[q]
    BY <1>1, <1>4, Zenon DEF Step, TakePolicyLock, Load, Write, PutBack, LoadKey, Revoke, MoveAside, Install,
       Reinstate, Activate, Rerevoke, Discard, Reseat, DiscardAgain, ReseatAgain, MoveProfile,
       MoveKey, Unmove, Clear, Unwind, DropKey, PutProfile, RemoveProfile, write_policy
  <2>3. User(q)' = User(q)
    BY <2>2, Zenon DEF User
  <2>4. ASSUME NEW u \in Users, User(q) = u PROVE UserInv(u)'
    <3>1. User(q)' = u
      BY <2>3, <2>4, Zenon
    <3> QED BY <2>1, <3>1, Zenon DEF UserInv
  <2> QED BY <1>2, <2>1, <2>4, Zenon
<1>5. TypeOK'
  <2>1. pc[q] = "install" => sysKey[q] \in Nat
    BY Zenon DEF Inv, ProcInv, LockInv, KindInv, KeyInv, Loaded
  <2> QED BY <1>1, <2>1, TypeStep, Zenon DEF Inv
<1> QED BY <1>2, <1>3, <1>4, <1>5, Zenon DEF Inv

-----------------------------------------------------------------------------
LEMMA StutterInv == ASSUME Inv, UNCHANGED vars PROVE Inv'
<1>1. TypeOK'
  BY Zenon DEF vars, Inv, TypeOK
<1>2. ASSUME NEW p \in Procs PROVE ProcInv(p)'
  <2>1. TypeOK /\ ProcInv(p) /\ MemoryKept(p) /\ policy' = policy /\ FilesKept(User(p))
    BY <1>2, Zenon DEF vars, Inv, MemoryKept, FilesKept
  <2>2. (before[p] # None => profileLock'[User(p)] = p) /\ (pc[p] \in Policed => policyLock' = p)
    BY <2>1, Zenon DEF vars, ProcInv, LockInv
  <2> QED BY <2>1, <2>2, KeptInv, Zenon
<1>3. ASSUME NEW u \in Users PROVE UserInv(u)'
  BY <1>3, KeptUser, Zenon DEF vars, Inv, FilesKept
<1> QED BY <1>1, <1>2, <1>3, Zenon DEF Inv

(* Whatever the helpers do, at every program point of every helper the     *)
(* locks it holds are its own and the files of its user are in one of the  *)
(* states the code provides for.                                           *)
THEOREM HelpersInvariant == ASSUME SyncAssumption PROVE Spec => []Inv
<1>1. Init => Inv
  BY InitInv, Zenon
<1>2. Inv /\ [Next]_vars => Inv'
  <2> SUFFICES ASSUME Inv, [Next]_vars PROVE Inv'
    OBVIOUS
  <2>1. CASE Next
    BY <2>1, NextInv, Zenon
  <2>2. CASE UNCHANGED vars
    BY <2>2, StutterInv, Zenon
  <2> QED BY <2>1, <2>2
<1> QED BY <1>1, <1>2, PTL DEF Spec

(* However many helpers run, fail or are killed, a target that is enabled  *)
(* has an intact profile and the key that opens it, and an installed       *)
(* profile and key belong together (commit_verified_profile,               *)
(* load_or_generate_system_key).                                           *)
THEOREM InstalledUsable == ASSUME SyncAssumption PROVE Spec => []ProfilesUsable
<1>1. Inv => ProfilesUsable
  <2> SUFFICES ASSUME Inv PROVE ProfilesUsable
    OBVIOUS
  <2>1. ASSUME NEW e \in policy PROVE Opens(e[1], key[e[1]])
    <3>1. e[1] \in Users /\ e \in Entries(policy, e[1])
      BY <2>1, Zenon DEF Inv, TypeOK, Policies, Entries
    <3> QED BY <3>1, Zenon DEF Inv, UserInv
  <2>2. KeyFitsProfile
    BY Zenon DEF Inv, UserInv, KeyFitsProfile
  <2> QED BY <2>1, <2>2, Zenon DEF ProfilesUsable, EnabledProfileOpens
<1> QED BY <1>1, HelpersInvariant, PTL

(* What a helper's SUCCESS reports is the case when it is reported.        *)
THEOREM SuccessAsReported == ASSUME SyncAssumption PROVE Spec => []DoneAsReported
<1>1. Inv => DoneAsReported
  BY Zenon DEF Inv, ProcInv, DoneInv, DoneAsReported
<1> QED BY <1>1, HelpersInvariant, PTL

(* After a single error enable, resync and set end with profile, key and   *)
(* modes as they found them (the rollbacks of commit_verified_profile).    *)
THEOREM OneErrorUndone == ASSUME SyncAssumption PROVE Spec => []SingleFailureRestores
<1>1. Inv => SingleFailureRestores
  <2> SUFFICES ASSUME Inv, NEW p \in Procs, pc[p] = "exit", before[p] # None,
                      Kind(p) \in SyncKinds \cup {"set"}, hit[p] <= 1
               PROVE  /\ profile[User(p)] = before[p].profile
                      /\ key[User(p)] = before[p].key
                      /\ Entries(policy, User(p)) = before[p].entries
    BY Zenon DEF SingleFailureRestores
  <2>1. KeyInv(p) /\ HitInv(p)
    BY Zenon DEF Inv, ProcInv
  <2>2. profile[User(p)] = before[p].profile /\ Entries(policy, User(p)) = before[p].entries
    BY <2>1, Zenon DEF HitInv
  <2>3. key[User(p)] = before[p].key
    BY <2>1, Zenon DEF KeyInv, SyncKinds
  <2> QED BY <2>2, <2>3
<1> QED BY <1>1, HelpersInvariant, PTL

-----------------------------------------------------------------------------
Writes(q) == Write(q) \/ PutBack(q) \/ Revoke(q) \/ Activate(q) \/ Rerevoke(q)

(* Only the steps that write the policy change it, each gives it a new     *)
(* identity, and they change no profile and no key.                        *)
LEMMA WritesOnly ==
    ASSUME TypeOK, NEW q \in Procs, Step(q)
    PROVE  \/ /\ Writes(q) /\ UNCHANGED dataVars /\ pc'[q] # pc[q] /\ pc[q] # "idle"
              /\ (policyId' = policyId + 1) \/ UNCHANGED policyVars
           \/ ~Writes(q) /\ UNCHANGED policyVars
<1>1. CASE Writes(q)
  <2>1. ASSUME NEW pol, NEW ok, NEW err, write_policy(q, pol, ok, err)
        PROVE  /\ UNCHANGED dataVars /\ pc'[q] \in {ok, err}
               /\ (policyId' = policyId + 1) \/ UNCHANGED policyVars
    BY <2>1, Went, Zenon DEF write_policy, Replace, Reaches, Errs
  <2> QED BY <1>1, <2>1 DEF Writes, Write, PutBack, Revoke, Activate, Rerevoke
<1>2. CASE ~Writes(q)
  <2>1. UNCHANGED policyVars
    BY <1>2, Zenon DEF Writes, Step, Begin, Lock, TakePolicyLock, Load, Setup, LoadKey, Stage, MoveAside, Install,
       Reinstate, Verify, Discard, Reseat, DiscardAgain, ReseatAgain, Restore, Validate, MoveProfile,
       MoveKey, Unmove, Clear, Unwind, DropKey, Finish, Crash, PutProfile, RemoveProfile
  <2> QED BY <1>2, <2>1, Zenon
<1> QED BY <1>1, <1>2, Zenon

LEMMA SwapWhileRevoked == ASSUME SyncAssumption, Inv, Next PROVE SwapOnlyWhileRevoked
<1>1. PICK q \in Procs : Step(q)
  BY Zenon DEF Next
<1>2. SUFFICES ASSUME NEW u \in Users, profile'[u] # profile[u] \/ key'[u] # key[u]
               PROVE  Entries(policy, u) = {} /\ Entries(policy', u) = {}
  BY Zenon DEF SwapOnlyWhileRevoked
<1>3. TypeOK /\ before[q] # None /\ User(q) = u
  BY <1>1, <1>2, FrameStep, Zenon DEF Framed, FilesKept, Inv
<1>4. policy' = policy /\ ~Writes(q)
  BY <1>1, <1>2, <1>3, WritesOnly, Zenon
<1>5. KeyInv(q) /\ ModeInv(q) /\ UserInv(u)
  BY <1>2, <1>3, Holding, Zenon
<1>6. Entries(policy, u) = {}
  <2>1. CASE pc[q] \in Swapping
    BY <1>3, <1>5, <2>1, Zenon DEF ModeInv
  <2>2. CASE LoadKey(q)
    <3>1. profile' = profile
      BY <2>2, Zenon DEF LoadKey
    <3>2. key'[u] = key[u] \/ key[u] = None
      BY <1>2, <1>3, <2>2, Zenon DEF LoadKey, load_or_generate_system_key, TypeOK
    <3> QED BY <1>2, <1>5, <3>1, <3>2, Zenon DEF UserInv, Opens
  <2>3. CASE DropKey(q)
    BY <1>3, <1>5, <2>3, Zenon DEF DropKey, KeyInv
  <2>4. CASE pc[q] \notin Swapping /\ ~LoadKey(q) /\ ~DropKey(q)
    <3>1. UNCHANGED <<profile, key>>
      BY <1>1, <1>4, <2>4, Zenon DEF Swapping, Writes, Step, Begin, Lock, TakePolicyLock, Load, Setup, Stage, MoveAside,
         Install, Reinstate, Verify, Discard, Reseat, DiscardAgain, ReseatAgain, Restore, Validate, MoveProfile,
         MoveKey, Unmove, Clear, Unwind, Finish, Crash
    <3> QED BY <1>2, <3>1, Zenon
  <2> QED BY <2>1, <2>2, <2>3, <2>4, Zenon
<1> QED BY <1>4, <1>6, Zenon

LEMMA OwnModesOnly == ASSUME SyncAssumption, Inv, Next PROVE OthersUntouched
<1>1. PICK q \in Procs : Step(q)
  BY Zenon DEF Next
<1>2. SUFFICES ASSUME NEW u \in Users, Entries(policy', u) # Entries(policy, u)
               PROVE  \E p \in Procs : pc'[p] # pc[p] /\ op[p] # None /\ op[p].user = u
  BY Zenon DEF OthersUntouched
<1>3. pc'[q] # pc[q] /\ pc[q] # "idle" /\ TypeOK
  BY <1>1, <1>2, WritesOnly, Zenon DEF Inv
<1>4. op[q] \in Ops
  BY <1>3, Zenon DEF TypeOK
<1>5. User(q) = u
  BY <1>1, <1>2, PolicyStep, SameOthers DEF PolicyFramed
<1> QED BY <1>3, <1>4, <1>5, Zenon DEF User, SyncAssumption

(* A profile or a key changes only while all of its user's targets are     *)
(* off, and a helper changes the modes of its own user only, although it   *)
(* rewrites the whole policy file (revoke_user_targets, the policy lock).  *)
THEOREM HelpersConfined == ASSUME SyncAssumption PROVE Spec => ChangesConfined
<1>1. Inv /\ [Next]_vars => [SwapOnlyWhileRevoked /\ OthersUntouched]_vars
  BY SwapWhileRevoked, OwnModesOnly
<1> QED BY <1>1, HelpersInvariant, PTL DEF Spec, ChangesConfined

-----------------------------------------------------------------------------
(* An attempt of the daemon.  While the policy file is the one it opened,  *)
(* its target is enabled and the profile and the key are those it began    *)
(* with.                                                                   *)
Trying == {"key", "status", "match", "recheck"}

AttemptInv ==
    /\ at \in Trying => snap \in Nat /\ snap <= policyId
    /\ at \in Trying /\ policyId = snap =>
          /\ who \in policy /\ profile[who[1]] = began.profile /\ key[who[1]] = began.key
          /\ at # "key" => attKey = began.key
          /\ at = "recheck" => matched = began.profile

LEMMA AttemptHelpers ==
    ASSUME SyncAssumption, Inv, AttemptInv, HelpersNext PROVE AttemptInv'
<1>1. PICK q \in Procs : Step(q)
  BY Zenon DEF HelpersNext, Next
<1>2. UNCHANGED <<at, who, snap, attKey, matched, began>> /\ TypeOK /\ policyId \in Nat
  BY Zenon DEF HelpersNext, attemptVars, Inv, TypeOK
<1>3. policyId' = policyId + 1 \/ UNCHANGED policyVars
  BY <1>1, <1>2, WritesOnly, Zenon
<1>4. at \in Trying => snap \in Nat /\ snap <= policyId'
  BY <1>2, <1>3 DEF AttemptInv
<1>5. ASSUME at \in Trying, policyId' = snap
      PROVE  policyId = snap /\ who \in policy' /\ profile'[who[1]] = profile[who[1]] /\ key'[who[1]] = key[who[1]]
  <2>1. policyId = snap /\ policy' = policy
    BY <1>2, <1>3, <1>5 DEF AttemptInv
  <2>2. who \in policy
    BY <1>5, <2>1, Zenon DEF AttemptInv
  <2>3. who[1] \in Users /\ Entries(policy, who[1]) # {}
    BY <1>2, <2>2, Zenon DEF TypeOK, Policies, Entries
  <2>4. SwapOnlyWhileRevoked
    BY SwapWhileRevoked, Zenon DEF HelpersNext
  <2> QED BY <2>1, <2>2, <2>3, <2>4, Zenon DEF SwapOnlyWhileRevoked
<1> QED BY <1>2, <1>4, <1>5, Zenon DEF AttemptInv

(* While the policy file is the one the attempt opened, what it looks for  *)
(* is there.                                                               *)
LEMMA AttemptFinds ==
    ASSUME SyncAssumption, Inv, AttemptInv, at \in Trying, policyId = snap
    PROVE  who[1] \in Users /\ Opens(who[1], began.key) /\ began.key # None
<1>1. who \in policy /\ key[who[1]] = began.key
  BY Zenon DEF AttemptInv
<1>2. who[1] \in Users /\ Entries(policy, who[1]) # {}
  BY <1>1, Zenon DEF Inv, TypeOK, Policies, Entries
<1> QED BY <1>1, <1>2, Zenon DEF Inv, UserInv, Opens

LEMMA AttemptOwn ==
    ASSUME SyncAssumption, Inv, AttemptInv, AttemptNext
    PROVE  AttemptInv' /\ GrantByInstalledProfile /\ NoProfileOnlyIfReplaced
<1>1. UNCHANGED vars /\ policyId \in Nat /\ TypeOK
  BY Zenon DEF AttemptNext, AttemptBegin, AttemptKey, AttemptStatus, AttemptMatch, AttemptRecheck, AttemptStops,
     Inv, TypeOK
<1>2. policy' = policy /\ policyId' = policyId /\ profile' = profile /\ key' = key
  BY <1>1, Zenon DEF vars
<1>3. ASSUME NEW ans \in {"none", "noprofile"}, AttemptEnds(ans), ans = "noprofile" => policyId # snap
      PROVE  AttemptInv' /\ GrantByInstalledProfile /\ NoProfileOnlyIfReplaced
  BY <1>3, Zenon DEF AttemptEnds, AttemptInv, Trying, GrantByInstalledProfile, NoProfileOnlyIfReplaced
<1>4. CASE AttemptBegin
  <2>1. PICK e \in policy : /\ at' = "key" /\ who' = e /\ snap' = policyId
                            /\ began' = [profile |-> profile[e[1]], key |-> key[e[1]]]
    BY <1>4, Zenon DEF AttemptBegin
  <2> QED BY <1>1, <1>2, <2>1 DEF AttemptInv, Trying, GrantByInstalledProfile, NoProfileOnlyIfReplaced
<1>5. CASE AttemptKey
  <2>0. at = "key" /\ at \in Trying
    BY <1>5, Zenon DEF AttemptKey, Trying
  <2>1. CASE /\ who \in policy /\ key[who[1]] # None
             /\ attKey' = key[who[1]] /\ at' = "status"
             /\ UNCHANGED <<who, snap, matched, began>>
    BY <1>2, <2>0, <2>1, Zenon DEF AttemptInv, Trying, GrantByInstalledProfile, NoProfileOnlyIfReplaced
  <2>2. CASE who \in policy /\ key[who[1]] = None /\ AttemptEnds("noprofile")
    <3>1. policyId # snap
      BY <2>0, <2>2, AttemptFinds, Zenon DEF AttemptInv
    <3> QED BY <1>3, <2>2, <3>1, Zenon
  <2>3. CASE who \notin policy /\ AttemptEnds("none")
    BY <1>3, <2>3, Zenon
  <2> QED BY <1>5, <2>1, <2>2, <2>3, Zenon DEF AttemptKey
<1>6. CASE AttemptStatus
  <2>0. at = "status" /\ at \in Trying
    BY <1>6, Zenon DEF AttemptStatus, Trying
  <2>1. CASE at' = "match" /\ UNCHANGED <<who, snap, attKey, matched, began>>
    BY <1>2, <2>0, <2>1, Zenon DEF AttemptInv, Trying, GrantByInstalledProfile, NoProfileOnlyIfReplaced
  <2>2. CASE ~Opens(who[1], attKey) /\ AttemptEnds("noprofile")
    <3>1. policyId # snap
      BY <2>0, <2>2, AttemptFinds, Zenon DEF AttemptInv
    <3> QED BY <1>3, <2>2, <3>1, Zenon
  <2> QED BY <1>6, <2>1, <2>2, Zenon DEF AttemptStatus
<1>7. CASE AttemptMatch
  <2>0. at = "match" /\ at \in Trying
    BY <1>7, Zenon DEF AttemptMatch, Trying
  <2>1. CASE matched' = profile[who[1]] /\ at' = "recheck" /\ UNCHANGED <<who, snap, attKey, began>>
    BY <1>2, <2>0, <2>1, Zenon DEF AttemptInv, Trying, GrantByInstalledProfile, NoProfileOnlyIfReplaced
  <2>2. CASE ~Opens(who[1], attKey) /\ AttemptEnds("noprofile")
    <3>1. policyId # snap
      BY <2>0, <2>2, AttemptFinds, Zenon DEF AttemptInv
    <3> QED BY <1>3, <2>2, <3>1, Zenon
  <2> QED BY <1>7, <2>1, <2>2, Zenon DEF AttemptMatch
<1>8. CASE AttemptRecheck
  <2>0. at = "recheck" /\ at \in Trying
    BY <1>8, Zenon DEF AttemptRecheck, Trying
  <2>1. CASE policyId = snap /\ at' = "granted" /\ UNCHANGED <<who, snap, attKey, matched, began>>
    BY <2>0, <2>1, Zenon DEF AttemptInv, Trying, GrantByInstalledProfile, NoProfileOnlyIfReplaced
  <2>2. CASE AttemptEnds("none")
    BY <1>3, <2>2, Zenon
  <2> QED BY <1>8, <2>1, <2>2, Zenon DEF AttemptRecheck
<1>9. CASE AttemptStops
  BY <1>3, <1>9, Zenon DEF AttemptStops
<1> QED BY <1>4, <1>5, <1>6, <1>7, <1>8, <1>9, Zenon DEF AttemptNext

(* An attempt of the daemon never sees half of a swap: it grants on one    *)
(* profile, installed with its key from its beginning to its end, and      *)
(* finds none only if the policy was replaced meanwhile                    *)
(* (AuthPolicySnapshot::same_file_as).                                     *)
THEOREM AttemptConsistent == ASSUME SyncAssumption PROVE AttemptSpec => AttemptSeesOneProfile
<1> DEFINE Both == Inv /\ AttemptInv
<1>1. AttemptInit => Both
  BY InitInv, Zenon DEF AttemptInit, AttemptInv, Trying
<1>2. Both /\ [HelpersNext \/ AttemptNext]_allVars
         => Both' /\ [GrantByInstalledProfile /\ NoProfileOnlyIfReplaced]_allVars
  <2> SUFFICES ASSUME Inv, AttemptInv, [HelpersNext \/ AttemptNext]_allVars
               PROVE  Both' /\ [GrantByInstalledProfile /\ NoProfileOnlyIfReplaced]_allVars
    OBVIOUS
  <2>1. ASSUME UNCHANGED vars PROVE Inv'
    BY <2>1, StutterInv, Zenon
  <2>2. CASE HelpersNext
    <3>1. at' = at
      BY <2>2, Zenon DEF HelpersNext, attemptVars
    <3>2. GrantByInstalledProfile /\ NoProfileOnlyIfReplaced
      BY <3>1, Zenon DEF GrantByInstalledProfile, NoProfileOnlyIfReplaced
    <3> QED BY <2>2, <3>2, AttemptHelpers, NextInv, Zenon DEF HelpersNext
  <2>3. CASE AttemptNext
    <3>1. UNCHANGED vars
      BY <2>3, Zenon DEF AttemptNext, AttemptBegin, AttemptKey, AttemptStatus, AttemptMatch, AttemptRecheck,
         AttemptStops
    <3> QED BY <2>1, <2>3, <3>1, AttemptOwn, Zenon
  <2>4. CASE UNCHANGED allVars
    <3>1. UNCHANGED vars /\ AttemptInv'
      BY <2>4, Zenon DEF allVars, vars, attemptVars, AttemptInv
    <3> QED BY <2>1, <2>4, <3>1, Zenon
  <2> QED BY <2>2, <2>3, <2>4
<1> QED BY <1>1, <1>2, PTL DEF AttemptSpec, AttemptSeesOneProfile
====
