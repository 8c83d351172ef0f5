---------------------------- MODULE TemplateVault -----------------------------
(***************************************************************************)
(* One template vault directory (Vault in templates/src/lib.rs) and the    *)
(* processes that work on it: identity workers of the settings module,     *)
(* kfaceauth-sync-vault, the authentication worker.  The writers take      *)
(* identity.lock by creating it; the readers take no lock.                 *)
(*                                                                         *)
(* A vault file is a record: the build (UID, models, formats) its          *)
(* associated data name, its key, the plaintext, and whether its bytes are *)
(* whole and have reached the disk.  Any call may fail, a process may be   *)
(* killed and the power may go between two steps.                          *)
(***************************************************************************)
EXTENDS Naturals, Sequences

CONSTANTS
    Procs,        \* processes
    Keys,         \* master keys
    Profiles,     \* profiles of 3 to 8 samples
    Builds,       \* builds that may have sealed a vault
    This,         \* the build that runs
    Kinds,        \* the operations an instance exercises
    None,         \* no file, no key, nobody
    ExistsFails,  \* may the metadata call behind Path::exists fail
    Unreadable,   \* what VaultStore sees of a file this build cannot open
    Left,         \* the owner of a lock file whose process is gone
    MaxOps,       \* bound of the model: operations started
    MaxFaults     \* bound of the model: failing calls, kills and power losses

Writers == {"commit", "rotate", "delete", "reset"}
Readers == {"open", "anchored", "status"}

VARIABLES
    dir,       \* the vault directory: absent, safe, or with unsafe metadata
    file,      \* what identity.vault names
    pending,   \* what identity.vault may name after a power loss
    lock,      \* who created identity.lock
    orphan,    \* a temporary file whose process is gone is in the directory
    pc,        \* [Procs -> program point]
    op,        \* [Procs -> the operation and its arguments]
    stat,      \* [Procs -> the file whose metadata was taken first]
    seen,      \* [Procs -> the file that was opened]
    temp,      \* [Procs -> the temporary file]
    res,       \* [Procs -> result of the operation]
    window,    \* [Procs -> files identity.vault named since the call] (history)
    hit,       \* [Procs -> did a call of this operation fail] (history)
    promised,  \* the last success reported, until the next change (history)
    ops,       \* operations started
    faults     \* failures so far

fileVars == <<file, pending>>
dirVars == <<dir, lock, orphan>>
procVars == <<op, stat, seen, temp>>
history == <<window, hit, promised>>
vars == <<fileVars, dirVars, pc, procVars, res, history, ops, faults>>

Plaintexts == [build : Builds, prof : Profiles]
Files == [id : Nat, aad : Builds, key : Keys, text : Plaintexts, whole : BOOLEAN,
          synced : BOOLEAN]
Ops == [kind : Writers \cup Readers, key : Keys \cup {None}, new : Keys \cup {None},
        prof : Profiles \cup {None}, run : Nat]

VaultAssumption ==
    /\ This \in Builds /\ Kinds \subseteq Writers \cup Readers
    /\ None \notin Procs \cup Keys \cup Profiles \cup Files \cup Ops
    /\ None \notin [key : Keys, prof : Profiles] \cup {Unreadable}
    /\ Left \notin Procs \cup {None}
    /\ ExistsFails \in BOOLEAN /\ MaxOps \in Nat /\ MaxFaults \in Nat

Errors == {"NotFound", "UnsafeFilesystem", "LockTimeout", "Corrupt",
           "AuthenticationFailure", "WrongUid", "ModelMismatch", "Io"}
Statuses == {"Absent", "Ready", "CorruptStatus", "ModelMismatchStatus", "Unavailable"}
Points == {"idle", "dir", "lock", "created", "exists", "stat", "open", "fstat", "recheck",
           "decode", "encode", "write", "fsync", "verify", "rename", "remove", "syncdir",
           "drop", "told"}

Kind(p) == op[p].kind

TypeOK ==
    /\ dir \in {"absent", "safe", "unsafe"}
    /\ file \in Files \cup {None} /\ pending \subseteq Files \cup {None}
    /\ lock \in Procs \cup {None, Left} /\ orphan \in BOOLEAN
    /\ pc \in [Procs -> Points]
    /\ op \in [Procs -> Ops \cup {None}] /\ \A p \in Procs : pc[p] # "idle" => op[p] \in Ops
    /\ stat \in [Procs -> Files \cup {None}] /\ seen \in [Procs -> Files \cup {None}]
    /\ temp \in [Procs -> Files \cup {None}]
    /\ res \in [Procs -> Errors \cup Statuses \cup {"none", "ok"}]
    /\ \A p \in Procs : pc[p] \in {"drop", "told"} => res[p] # "none"
    /\ window \in [Procs -> SUBSET (Files \cup {None})] /\ hit \in [Procs -> BOOLEAN]
    /\ promised \subseteq Files \cup {None} /\ ops \in Nat /\ faults \in Nat

(* A vault of an earlier session, sealed by this build or by another one.  *)
Init ==
    /\ dir \in {"absent", "safe", "unsafe"}
    /\ file \in {None} \cup {[id |-> 0, aad |-> b, key |-> k, text |-> [build |-> b, prof |-> d],
                              whole |-> TRUE, synced |-> TRUE] :
                             b \in Builds, k \in Keys, d \in Profiles}
    /\ dir = "absent" => file = None
    /\ pending = {file}
    /\ lock = None /\ orphan = FALSE
    /\ pc = [p \in Procs |-> "idle"]
    /\ op = [p \in Procs |-> None]
    /\ stat = [p \in Procs |-> None] /\ seen = [p \in Procs |-> None]
    /\ temp = [p \in Procs |-> None]
    /\ res = [p \in Procs |-> "none"]
    /\ window = [p \in Procs |-> {}] /\ hit = [p \in Procs |-> FALSE]
    /\ promised = {}
    /\ ops = 0 /\ faults = 0

-----------------------------------------------------------------------------
(* The codec.  The plaintext repeats what the associated data bind; the    *)
(* tag is checked first, with the associated data of the build that reads. *)
associated_data == This

encode_profile(d) == [build |-> This, prof |-> d]

decode_profile(t) == IF t.build = This THEN "ok" ELSE "ModelMismatch"

(* A fresh nonce makes every encoding a new file. *)
encode_vault(run, k, d) ==
    [id |-> run, aad |-> associated_data, key |-> k, text |-> encode_profile(d),
     whole |-> FALSE, synced |-> FALSE]

decode_vault(f, k) ==
    CASE ~f.whole -> "Corrupt"
      [] f.whole /\ (f.key # k \/ f.aad # associated_data) -> "AuthenticationFailure"
      [] OTHER -> decode_profile(f.text)

(* Mutant: unsafe metadata counts as a corrupt vault. *)
UnsafeIsCorrupt(r) ==
    CASE r = "ok" -> "Ready"
      [] r = "NotFound" -> "Absent"
      [] r \in {"AuthenticationFailure", "Corrupt", "UnsafeFilesystem"} -> "CorruptStatus"
      [] OTHER -> "Unavailable"

(* What status makes of the result of open_profile.                        *)
StatusOf(r) ==
    CASE r = "ok" -> "Ready"
      [] r = "NotFound" -> "Absent"
      [] r = "ModelMismatch" -> "ModelMismatchStatus"
      [] r \in {"AuthenticationFailure", "Corrupt"} -> "CorruptStatus"
      [] OTHER -> "Unavailable"

-----------------------------------------------------------------------------
(* The operations, as the program points they pass.                        *)
read_secure_file == <<"stat", "open", "fstat">>

write_verified_atomic == <<"encode", "write", "fsync", "verify", "rename", "syncdir">>

commit_profile == <<"dir", "lock", "created", "exists">> \o read_secure_file
                  \o <<"decode">> \o write_verified_atomic \o <<"drop">>

rotate_key == <<"dir", "lock", "created">> \o read_secure_file
              \o <<"decode">> \o write_verified_atomic \o <<"drop">>

delete_profile == <<"dir", "lock", "created">> \o read_secure_file
                  \o <<"decode", "remove", "syncdir", "drop">>

reset_unreadable == <<"dir", "lock", "created", "stat", "remove", "syncdir", "drop">>

open_profile_snapshot == <<"dir">> \o read_secure_file \o <<"decode", "told">>

open_anchored_profile_snapshot == <<"dir", "open", "fstat", "recheck", "decode", "told">>

status == <<"dir", "exists">> \o read_secure_file \o <<"decode", "told">>

Program(k) ==
    CASE k = "commit" -> commit_profile
      [] k = "rotate" -> rotate_key
      [] k = "delete" -> delete_profile
      [] k = "reset" -> reset_unreadable
      [] k = "open" -> open_profile_snapshot
      [] k = "anchored" -> open_anchored_profile_snapshot
      [] k = "status" -> status

Successor(p) ==
    LET P == Program(Kind(p)) IN P[1 + CHOOSE i \in DOMAIN P : P[i] = pc[p]]

-----------------------------------------------------------------------------
(* Steps: p goes on, answers, or leaves through the destructors of the     *)
(* lock and of the temporary file.                                         *)
Jumps(p, to) == pc' = [pc EXCEPT ![p] = to] /\ res' = res

Goes(p) == Jumps(p, Successor(p))

Tells(p, r) ==
    /\ pc' = [pc EXCEPT ![p] = "told"]
    /\ res' = [res EXCEPT ![p] = IF Kind(p) = "status" THEN StatusOf(r) ELSE r]

Leaves(p, r) ==
    IF lock = p /\ Kind(p) \in Writers
    THEN pc' = [pc EXCEPT ![p] = "drop"] /\ res' = [res EXCEPT ![p] = r]
    ELSE Tells(p, r)

NoFault == UNCHANGED <<hit, faults>>

Fault(p) ==
    /\ faults < MaxFaults /\ faults' = faults + 1
    /\ hit' = [hit EXCEPT ![p] = TRUE]

(* A call of p fails and changes nothing. *)
CallFails(p) ==
    /\ Fault(p) /\ Leaves(p, "Io")
    /\ UNCHANGED <<fileVars, dirVars, procVars, window, promised, ops>>

(* A call is still looking at the vault: an anchored read from its open to *)
(* its last comparison, another from its start to its answer.              *)
Looking(p) == IF pc[p] = "idle" THEN FALSE
              ELSE IF Kind(p) = "anchored" THEN pc[p] \in {"fstat", "recheck"}
              ELSE pc[p] # "told"

Notes(f) == window' = [q \in Procs |-> IF Looking(q) THEN window[q] \cup {f} ELSE window[q]]

Begin(p) ==
    /\ pc[p] = "idle" /\ ops < MaxOps /\ ops' = ops + 1
    /\ \E k \in Kinds, a \in Keys \cup {None}, b \in Keys \cup {None},
         d \in Profiles \cup {None} :
          /\ a = None => k \in {"status", "reset"}
          /\ k = "reset" => a = None
          /\ (b # None) <=> (k = "rotate")
          /\ (d # None) <=> (k = "commit")
          /\ op' = [op EXCEPT ![p] = [kind |-> k, key |-> a, new |-> b, prof |-> d,
                                      run |-> ops + 1]]
    /\ window' = [window EXCEPT ![p] = {file}]
    /\ Jumps(p, "dir")
    /\ NoFault
    /\ UNCHANGED <<fileVars, dirVars, stat, seen, temp, promised>>

(* ensure_directory in a commit, validate_directory elsewhere.  A system   *)
(* directory whose permissions could not be set stays behind unsafe.       *)
Directory(p) ==
    /\ pc[p] = "dir"
    /\ \/ /\ dir = "safe" \/ (dir = "absent" /\ Kind(p) = "commit")
          /\ dir' = "safe"
          /\ Goes(p) /\ NoFault
       \/ dir = "absent" /\ Kind(p) # "commit" /\ Tells(p, "NotFound") /\ NoFault /\ dir' = dir
       \/ dir = "unsafe" /\ Tells(p, "UnsafeFilesystem") /\ NoFault /\ dir' = dir
       \/ /\ dir = "absent" /\ Kind(p) = "commit" /\ Fault(p)
          /\ \/ dir' = "unsafe" /\ Tells(p, "UnsafeFilesystem")
             \/ dir' = dir /\ Tells(p, "Io")
    /\ UNCHANGED <<fileVars, lock, orphan, procVars, window, promised, ops>>

-----------------------------------------------------------------------------
(* VaultLock::acquire: create identity.lock, or find it there.             *)

Acquire(p) ==
    /\ pc[p] = "lock" /\ lock = None
    /\ lock' = p /\ Goes(p) /\ NoFault
    /\ UNCHANGED <<fileVars, dir, orphan, procVars, window, promised, ops>>

(* Mutant: the deadline counts only while the lock has a live owner. *)
WaitForOwner(p) ==
    /\ pc[p] = "lock" /\ lock \in Procs
    /\ Tells(p, "LockTimeout") /\ NoFault
    /\ UNCHANGED <<fileVars, dirVars, procVars, window, promised, ops>>

(* The retries, every 10 ms, end after LOCK_TIMEOUT. *)
AcquireTimesOut(p) ==
    /\ pc[p] = "lock" /\ lock # None
    /\ Tells(p, "LockTimeout") /\ NoFault
    /\ UNCHANGED <<fileVars, dirVars, procVars, window, promised, ops>>

(* The new lock file is checked and synced.  A failing call leaves it in   *)
(* the directory; wrong metadata removes it.                               *)
LockCreated(p) ==
    /\ pc[p] = "created"
    /\ \/ Goes(p) /\ NoFault /\ lock' = lock
       \/ Fault(p) /\ Tells(p, "Io") /\ lock' = Left
       \/ Fault(p) /\ Tells(p, "UnsafeFilesystem") /\ lock' = None
    /\ UNCHANGED <<fileVars, dir, orphan, procVars, window, promised, ops>>

-----------------------------------------------------------------------------
(* Looking at the vault: exists, then read_secure_file.                    *)

(* Path::exists is false also when the metadata call fails. *)
Exists(p) ==
    /\ pc[p] = "exists"
    /\ \/ /\ file = None /\ NoFault
          /\ IF Kind(p) = "commit" THEN Jumps(p, "encode") ELSE Tells(p, "NotFound")
       \/ /\ file # None /\ NoFault
          /\ IF op[p].key = None THEN Tells(p, "KeyProvider") ELSE Goes(p)
       \/ /\ ExistsFails /\ file # None /\ Fault(p)
          /\ IF Kind(p) = "commit" THEN Jumps(p, "encode") ELSE Tells(p, "NotFound")
    /\ UNCHANGED <<fileVars, dirVars, procVars, window, promised, ops>>

(* validate_secure_path; a reset goes no further into the file. *)
Stat(p) ==
    /\ pc[p] = "stat"
    /\ \/ file = None /\ Leaves(p, "NotFound") /\ stat' = stat
       \/ /\ file # None /\ stat' = [stat EXCEPT ![p] = file]
          /\ Goes(p)
    /\ NoFault
    /\ UNCHANGED <<fileVars, dirVars, op, seen, temp, window, promised, ops>>

Open(p) ==
    /\ pc[p] = "open"
    /\ \/ file = None /\ Leaves(p, "NotFound") /\ seen' = seen
       \/ file # None /\ seen' = [seen EXCEPT ![p] = file] /\ Goes(p)
    /\ window' = IF Kind(p) = "anchored" THEN [window EXCEPT ![p] = {file}] ELSE window
    /\ NoFault
    /\ UNCHANGED <<fileVars, dirVars, op, stat, temp, promised, ops>>

(* The open file must have one link and the inode seen before.  Another    *)
(* file may have got the inode number of one that is gone.                 *)
Fstat(p) ==
    /\ pc[p] = "fstat"
    /\ \/ seen[p] = file /\ Goes(p)
       \/ /\ seen[p] # file \/ (Kind(p) # "anchored" /\ stat[p] # seen[p])
          /\ Leaves(p, "UnsafeFilesystem")
    /\ NoFault
    /\ UNCHANGED <<fileVars, dirVars, procVars, window, promised, ops>>

(* Mutant: an anchored read does not look at the directory again. *)
RecheckNothing(p) ==
    /\ pc[p] = "recheck" /\ Goes(p) /\ NoFault
    /\ UNCHANGED <<fileVars, dirVars, procVars, window, promised, ops>>

(* open_anchored_profile_snapshot: after the read the times of the open    *)
(* file are as before, and the name still leads to it.                     *)
Recheck(p) ==
    /\ pc[p] = "recheck"
    /\ \/ seen[p] = file /\ Goes(p)
       \/ file = None /\ Tells(p, "NotFound")
       \/ file \notin {None, seen[p]} /\ Tells(p, "UnsafeFilesystem")
    /\ NoFault
    /\ UNCHANGED <<fileVars, dirVars, procVars, window, promised, ops>>

Decode(p) ==
    LET r == decode_vault(seen[p], op[p].key) IN
    /\ pc[p] = "decode"
    /\ CASE r # "ok" -> Leaves(p, r)
         [] r = "ok" /\ Kind(p) \in Readers -> Tells(p, "ok")
         [] OTHER -> Goes(p)
    /\ NoFault
    /\ UNCHANGED <<fileVars, dirVars, procVars, window, promised, ops>>

-----------------------------------------------------------------------------
(* write_verified_atomic, and the removals of delete and reset.            *)

NewKey(p) == IF Kind(p) = "rotate" THEN op[p].new ELSE op[p].key
NewProfile(p) == IF Kind(p) = "rotate" THEN seen[p].text.prof ELSE op[p].prof

(* encode_vault, and the O_EXCL temporary file with a random name. *)
Encode(p) ==
    /\ pc[p] = "encode"
    /\ temp' = [temp EXCEPT ![p] = encode_vault(op[p].run, NewKey(p), NewProfile(p))]
    /\ Goes(p) /\ NoFault
    /\ UNCHANGED <<fileVars, dirVars, op, stat, seen, window, promised, ops>>

Write(p) ==
    /\ pc[p] = "write"
    /\ temp' = [temp EXCEPT ![p].whole = TRUE]
    /\ Goes(p) /\ NoFault
    /\ UNCHANGED <<fileVars, dirVars, op, stat, seen, window, promised, ops>>

(* Mutant: the temporary file is not synced. *)
FsyncNothing(p) ==
    /\ pc[p] = "fsync" /\ Goes(p) /\ NoFault
    /\ UNCHANGED <<fileVars, dirVars, procVars, window, promised, ops>>

Fsync(p) ==
    /\ pc[p] = "fsync"
    /\ temp' = [temp EXCEPT ![p].synced = TRUE]
    /\ Goes(p) /\ NoFault
    /\ UNCHANGED <<fileVars, dirVars, op, stat, seen, window, promised, ops>>

Verify(p) ==
    LET r == decode_vault(temp[p], NewKey(p)) IN
    /\ pc[p] = "verify"
    /\ IF r = "ok" THEN Goes(p) ELSE Leaves(p, r)
    /\ NoFault
    /\ UNCHANGED <<fileVars, dirVars, procVars, window, promised, ops>>

Names(f) ==
    /\ file' = f /\ pending' = pending \cup {f}
    /\ Notes(f) /\ promised' = {}

Rename(p) ==
    /\ pc[p] = "rename"
    /\ Names(temp[p])
    /\ temp' = [temp EXCEPT ![p] = None]
    /\ Goes(p) /\ NoFault
    /\ UNCHANGED <<dirVars, op, stat, seen, ops>>

Remove(p) ==
    /\ pc[p] = "remove"
    /\ \/ file # None /\ Names(None) /\ Goes(p)
       \/ file = None /\ Leaves(p, "NotFound") /\ UNCHANGED <<fileVars, window, promised>>
    /\ NoFault
    /\ UNCHANGED <<dirVars, procVars, ops>>

(* Mutant: the directory is not synced. *)
SyncNothing(p) ==
    /\ pc[p] = "syncdir" /\ Leaves(p, "ok") /\ NoFault
    /\ UNCHANGED <<fileVars, dirVars, procVars, window, promised, ops>>

sync_directory(p) ==
    /\ pc[p] = "syncdir"
    /\ pending' = {file}
    /\ Leaves(p, "ok") /\ NoFault
    /\ UNCHANGED <<file, dirVars, procVars, window, promised, ops>>

(* The destructors remove an armed temporary file and identity.lock, and   *)
(* ignore an error; then the caller has its result.                        *)
Drop(p) ==
    /\ pc[p] = "drop"
    /\ \/ lock' = None /\ orphan' = orphan /\ NoFault
       \/ lock' = Left /\ orphan' = (orphan \/ temp[p] # None) /\ Fault(p)
    /\ temp' = [temp EXCEPT ![p] = None]
    /\ pc' = [pc EXCEPT ![p] = "told"] /\ res' = res
    /\ promised' = IF res[p] = "ok" THEN {file} ELSE promised
    /\ UNCHANGED <<fileVars, dir, op, stat, seen, window, ops>>

Forgets(S) ==
    /\ pc' = [p \in Procs |-> IF p \in S THEN "idle" ELSE pc[p]]
    /\ op' = [p \in Procs |-> IF p \in S THEN None ELSE op[p]]
    /\ stat' = [p \in Procs |-> IF p \in S THEN None ELSE stat[p]]
    /\ seen' = [p \in Procs |-> IF p \in S THEN None ELSE seen[p]]
    /\ temp' = [p \in Procs |-> IF p \in S THEN None ELSE temp[p]]
    /\ res' = [p \in Procs |-> IF p \in S THEN "none" ELSE res[p]]
    /\ window' = [p \in Procs |-> IF p \in S THEN {} ELSE window[p]]
    /\ hit' = [p \in Procs |-> IF p \in S THEN FALSE ELSE hit[p]]

End(p) ==
    /\ pc[p] = "told" /\ Forgets({p})
    /\ UNCHANGED <<fileVars, dirVars, promised, ops, faults>>

-----------------------------------------------------------------------------
(* Failures: of a call, of a process, of the machine.                      *)

MayFail == {"lock", "stat", "open", "fstat", "recheck", "decode", "encode", "write",
            "fsync", "verify", "rename", "remove", "syncdir"}

Fails(p) == pc[p] \in MayFail /\ CallFails(p)

Kill(p) ==
    /\ pc[p] \notin {"idle", "told"}
    /\ faults < MaxFaults /\ faults' = faults + 1
    /\ lock' = IF lock = p THEN Left ELSE lock
    /\ \/ orphan' = (orphan \/ temp[p] # None)
       \/ pc[p] = "drop" /\ orphan' = orphan
    /\ Forgets({p})
    /\ UNCHANGED <<fileVars, dir, promised, ops>>

(* Unsynced bytes may be lost, and directory changes since the last sync.  *)
PowerLoss ==
    /\ faults < MaxFaults /\ faults' = faults + 1
    /\ \E f \in pending :
          \/ file' = f
          \/ f # None /\ ~f.synced /\ file' = [f EXCEPT !.whole = FALSE]
    /\ pending' = {file'}
    /\ lock' \in {None, IF lock = None THEN None ELSE Left}
    /\ orphan' \in {orphan, orphan \/ \E p \in Procs : temp[p] # None}
    /\ Forgets(Procs)
    /\ UNCHANGED <<dir, promised, ops>>

Work(p) ==
    \/ Directory(p) \/ Acquire(p) \/ AcquireTimesOut(p) \/ LockCreated(p)
    \/ Exists(p) \/ Stat(p) \/ Open(p) \/ Fstat(p) \/ Recheck(p) \/ Decode(p)
    \/ Encode(p) \/ Write(p) \/ Fsync(p) \/ Verify(p) \/ Rename(p) \/ Remove(p)
    \/ sync_directory(p) \/ Drop(p) \/ End(p)

Next ==
    \/ \E p \in Procs : Begin(p) \/ Work(p) \/ Fails(p) \/ Kill(p)
    \/ PowerLoss

Spec == Init /\ [][Next]_vars

(* A process that is not killed keeps running; the lock loop ends at its   *)
(* deadline.                                                               *)
FairSpec == Spec /\ \A p \in Procs : WF_vars(Work(p))

-----------------------------------------------------------------------------
(* Properties *)

Readable(f) == f.whole /\ f.aad = This /\ f.text.build = This

Value(f) == IF f = None THEN None
            ELSE IF Readable(f) THEN [key |-> f.key, prof |-> f.text.prof] ELSE Unreadable

Store == INSTANCE VaultStore WITH
    Absent <- None, Unreadable <- Unreadable,
    store <- Value(file), survivors <- {Value(f) : f \in pending}

(* Every change of identity.vault, by any interleaving of the operations,  *)
(* failures, kills and power losses, is one of the atomic changes of       *)
(* VaultStore: what a commit, rotation or deletion replaces is what its    *)
(* key opens, what is unreadable stays until a reset, and no power loss    *)
(* leaves a torn vault (commit_profile, rotate_key, delete_profile,        *)
(* write_verified_atomic).                                                 *)
ImplementsStore == Store!StoreSpec

(* After a writer has returned success its outcome is what identity.vault  *)
(* holds, a power loss included, until another writer changes it           *)
(* (sync_directory before the return of write_verified_atomic).            *)
SuccessIsDurable == promised # {} => promised = {file} /\ pending = {file}

(* A snapshot of an anchored directory is returned only if identity.vault  *)
(* named the file that was read from its opening to its last comparison:   *)
(* no writer replaced or removed it in between                             *)
(* (open_anchored_profile_snapshot takes no lock).                         *)
SnapshotUndisturbed ==
    \A p \in Procs : pc[p] = "told" /\ Kind(p) = "anchored" /\ res[p] = "ok" =>
        window[p] = {seen[p]}

(* What status answers was so at some moment of the call: it never says    *)
(* absent while a profile was there throughout, a replacement included,    *)
(* and is unavailable only without a key, after a failing call, or when    *)
(* the vault changed under it (Vault::status takes no lock).               *)
StatusTruthful ==
    \A p \in Procs : pc[p] = "told" /\ Kind(p) = "status" /\ ~hit[p] =>
        LET W == window[p] \ {None}
            opened == {f \in W : op[p].key # None /\ decode_vault(f, op[p].key) = "ok"}
        IN  /\ res[p] = "Absent" => None \in window[p]
            /\ res[p] = "Ready" => opened # {}
            /\ res[p] = "CorruptStatus" => W \ opened # {}
            /\ res[p] = "ModelMismatchStatus" => \E f \in W : f.text.build # This
            /\ res[p] \notin {"Absent", "Ready", "CorruptStatus", "ModelMismatchStatus"} =>
                  \/ op[p].key = None \/ dir = "unsafe"
                  \/ \E f \in window[p] : \E g \in window[p] : f # g

(* The readers, which take no lock, are not misled by writers: the two     *)
(* statements above.                                                       *)
ReadersTruthful == StatusTruthful /\ SnapshotUndisturbed

(* Every operation of a process that is not killed returns: the wait for   *)
(* identity.lock is bounded, also when its owner is gone                   *)
(* (VaultLock::acquire).                                                   *)
OperationsEnd == \A p \in Procs : pc[p] # "idle" ~> pc[p] = "idle"

-----------------------------------------------------------------------------
(* Statements of the repository that the code does not keep.               *)

(* rotate_key: "The old file remains untouched on any failure."            *)
FailedRotationKeepsOld ==
    \A p \in Procs : pc[p] = "drop" /\ Kind(p) = "rotate" /\ res[p] # "ok" =>
        seen[p] = None \/ file = seen[p]

(* TEMPLATE-VAULT.md: "existing unreadable data is never overwritten       *)
(* automatically".                                                         *)
UnreadableNeverOverwritten ==
    [][file # None /\ ~Readable(file) => file' \in {file, None}]_vars

(* The status of a vault that another model version sealed is a model      *)
(* mismatch, as status and the settings module's text for it say.          *)
OtherModelIsMismatch ==
    \A p \in Procs : pc[p] = "told" /\ Kind(p) = "status" /\ res[p] = "CorruptStatus" =>
        \E f \in window[p] : f # None /\ (~f.whole \/ f.aad = This)
====
