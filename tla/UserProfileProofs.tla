--------------------------- MODULE UserProfileProofs ---------------------------
(***************************************************************************)
(* The two components that keep the user's profile: the template vault and *)
(* the freshness query.                                                    *)
(***************************************************************************)
EXTENDS TemplateVault, ProfileFreshness, TLAPS

-----------------------------------------------------------------------------
(***************************************************************************)
(* The template vault, for any number of processes, keys, profiles, builds *)
(* and operations, and any number of failing calls, kills and power        *)
(* losses.                                                                 *)
(*                                                                         *)
(* The inductive invariant rests on two facts.  Only the owner of          *)
(* identity.lock changes identity.vault, so what a writer opened is still  *)
(* there when it writes.  And every encoding is a new file, so a name that *)
(* leads to the file a reader opened has led to it all the time.           *)
(***************************************************************************)

(* Points at which a writer has the lock file. *)
Replacing == {"encode", "write", "fsync", "verify", "rename"}
Inside == {"created", "exists", "stat", "open", "fstat", "decode", "remove", "syncdir", "drop"}
          \cup Replacing

(* Points before the operation's own file, if it makes one, has the name. *)
Coming == {"dir", "lock", "created", "exists", "stat", "open", "fstat", "recheck", "decode",
           "remove"} \cup Replacing

(* Which operation is at a point, and with which arguments. *)
PlaceInv(p) ==
    /\ pc[p] \in Replacing => Kind(p) \in {"commit", "rotate"}
    /\ pc[p] \in {"lock", "created", "syncdir", "drop"} => Kind(p) \in Writers
    /\ pc[p] = "exists" => Kind(p) \in {"commit", "status"}
    /\ pc[p] = "stat" => Kind(p) # "anchored"
    /\ pc[p] \in {"open", "fstat", "decode"} => Kind(p) # "reset"
    /\ pc[p] = "recheck" => Kind(p) = "anchored"
    /\ pc[p] = "remove" => Kind(p) \in {"delete", "reset"}
    /\ Kind(p) \notin {"status", "reset"} => op[p].key \in Keys
    /\ Kind(p) = "status" /\ pc[p] \in {"stat", "open", "fstat", "decode"} => op[p].key \in Keys
    /\ Kind(p) = "rotate" => op[p].new \in Keys
    /\ Kind(p) = "commit" => op[p].prof \in Profiles

(* The lock, and what it protects: a writer that goes on after decode has  *)
(* read the vault that is still there.                                     *)
HoldInv(p) ==
    /\ Kind(p) \in Writers /\ pc[p] \in Inside => lock = p
    /\ pc[p] \notin {"dir", "told"} => dir # "absent"
    /\ pc[p] \in {"fstat", "recheck", "decode"} => seen[p] \in Files
    /\ Kind(p) \in Writers /\ pc[p] \in {"fstat", "decode"} => seen[p] = file
    /\ Kind(p) \in {"rotate", "delete"} /\ pc[p] \in Replacing \cup {"remove"} =>
          file # None /\ seen[p] = file /\ decode_vault(file, op[p].key) = "ok"
    /\ Kind(p) = "commit" /\ pc[p] \in Replacing =>
          ExistsFails \/ file = None \/ decode_vault(file, op[p].key) = "ok"
    /\ pc[p] = "drop" /\ res[p] = "ok" => pending = {file}

(* The temporary file of write_verified_atomic. *)
TempInv(p) ==
    /\ pc[p] \in Replacing \ {"encode"} =>
          /\ temp[p] \in Files /\ temp[p].id = op[p].run /\ temp[p].aad = This
          /\ temp[p].key = NewKey(p) /\ temp[p].text = encode_profile(NewProfile(p))
    /\ pc[p] \in {"fsync", "verify", "rename"} => temp[p].whole
    /\ pc[p] \in {"verify", "rename"} => temp[p].synced

(* What a call has seen, among all that the name led to meanwhile. *)
LookInv(p) ==
    /\ Looking(p) => file \in window[p]
    /\ Kind(p) # "anchored" /\ pc[p] \in {"open", "fstat"} => stat[p] \in window[p]
    /\ Kind(p) # "anchored" /\ pc[p] \in {"fstat", "decode"} => seen[p] \in window[p]
    /\ Kind(p) = "anchored" /\ pc[p] \in {"fstat", "recheck"} =>
          seen[p] \in window[p] /\ (file = seen[p] => window[p] = {seen[p]})
    /\ Kind(p) = "anchored" /\ (pc[p] = "decode" \/ (pc[p] = "told" /\ res[p] = "ok")) =>
          window[p] = {seen[p]}

Differ(S) == \E f \in S : \E g \in S : f # g

Opened(p, f) == f # None /\ op[p].key # None /\ decode_vault(f, op[p].key) = "ok"

StatusInv(p) ==
    pc[p] = "told" /\ Kind(p) = "status" /\ ~hit[p] =>
        /\ res[p] = "Absent" => None \in window[p]
        /\ res[p] = "Ready" => \E f \in window[p] : Opened(p, f)
        /\ res[p] = "CorruptStatus" => \E f \in window[p] : f # None /\ ~Opened(p, f)
        /\ res[p] = "ModelMismatchStatus" => \E f \in window[p] : f # None /\ f.text.build # This
        /\ res[p] \notin {"Absent", "Ready", "CorruptStatus", "ModelMismatchStatus"} =>
              op[p].key = None \/ dir = "unsafe" \/ Differ(window[p])

ProcInv(p) ==
    pc[p] # "idle" => PlaceInv(p) /\ HoldInv(p) /\ TempInv(p) /\ LookInv(p) /\ StatusInv(p)

(* The files that have or may get the name are whole and on the disk. *)
FilesInv ==
    /\ file \in pending
    /\ dir = "absent" => pending = {None}
    /\ \A f \in pending : f # None => f.whole /\ f.synced /\ f.aad = f.text.build
    /\ promised # {} => promised = {file} /\ pending = {file}

(* Every operation is a run of its own, and its file is new. *)
Known(f) == f # None /\ (f \in pending \/ \E p \in Procs : f \in window[p])

RunInv ==
    /\ \A p \in Procs : pc[p] # "idle" => op[p].run <= ops
    /\ \A p \in Procs, q \in Procs : p # q /\ pc[p] # "idle" /\ pc[q] # "idle" => op[p].run # op[q].run
    /\ \A f \in Files : Known(f) => f.id <= ops
    /\ \A p \in Procs, f \in Files : pc[p] \in Coming /\ Known(f) => f.id # op[p].run

Inv == TypeOK /\ FilesInv /\ RunInv /\ \A p \in Procs : ProcInv(p)

-----------------------------------------------------------------------------
(* The point after each point of a program: every point occurs once. *)
After(P, at) == P[1 + CHOOSE i \in DOMAIN P : P[i] = at]

LEMMA AfterCommit ==
    /\ After(commit_profile, "dir") = "lock" /\ After(commit_profile, "lock") = "created"
    /\ After(commit_profile, "created") = "exists" /\ After(commit_profile, "exists") = "stat"
    /\ After(commit_profile, "stat") = "open" /\ After(commit_profile, "open") = "fstat"
    /\ After(commit_profile, "fstat") = "decode" /\ After(commit_profile, "decode") = "encode"
    /\ After(commit_profile, "encode") = "write" /\ After(commit_profile, "write") = "fsync"
    /\ After(commit_profile, "fsync") = "verify" /\ After(commit_profile, "verify") = "rename"
    /\ After(commit_profile, "rename") = "syncdir" /\ After(commit_profile, "syncdir") = "drop"
<1>1. /\ DOMAIN commit_profile = 1..15 /\ commit_profile[1] = "dir"
      /\ commit_profile[2] = "lock" /\ commit_profile[3] = "created"
      /\ commit_profile[4] = "exists" /\ commit_profile[5] = "stat"
      /\ commit_profile[6] = "open" /\ commit_profile[7] = "fstat"
      /\ commit_profile[8] = "decode" /\ commit_profile[9] = "encode"
      /\ commit_profile[10] = "write" /\ commit_profile[11] = "fsync"
      /\ commit_profile[12] = "verify" /\ commit_profile[13] = "rename"
      /\ commit_profile[14] = "syncdir" /\ commit_profile[15] = "drop"
  BY DEF commit_profile, read_secure_file, write_verified_atomic
<1> QED BY <1>1 DEF After

LEMMA AfterRotate ==
    /\ After(rotate_key, "dir") = "lock" /\ After(rotate_key, "lock") = "created"
    /\ After(rotate_key, "created") = "stat" /\ After(rotate_key, "stat") = "open"
    /\ After(rotate_key, "open") = "fstat" /\ After(rotate_key, "fstat") = "decode"
    /\ After(rotate_key, "decode") = "encode" /\ After(rotate_key, "encode") = "write"
    /\ After(rotate_key, "write") = "fsync" /\ After(rotate_key, "fsync") = "verify"
    /\ After(rotate_key, "verify") = "rename" /\ After(rotate_key, "rename") = "syncdir"
    /\ After(rotate_key, "syncdir") = "drop"
<1>1. /\ DOMAIN rotate_key = 1..14 /\ rotate_key[1] = "dir" /\ rotate_key[2] = "lock"
      /\ rotate_key[3] = "created" /\ rotate_key[4] = "stat" /\ rotate_key[5] = "open"
      /\ rotate_key[6] = "fstat" /\ rotate_key[7] = "decode" /\ rotate_key[8] = "encode"
      /\ rotate_key[9] = "write" /\ rotate_key[10] = "fsync" /\ rotate_key[11] = "verify"
      /\ rotate_key[12] = "rename" /\ rotate_key[13] = "syncdir" /\ rotate_key[14] = "drop"
  BY DEF rotate_key, read_secure_file, write_verified_atomic
<1> QED BY <1>1 DEF After

LEMMA AfterDelete ==
    /\ After(delete_profile, "dir") = "lock" /\ After(delete_profile, "lock") = "created"
    /\ After(delete_profile, "created") = "stat" /\ After(delete_profile, "stat") = "open"
    /\ After(delete_profile, "open") = "fstat" /\ After(delete_profile, "fstat") = "decode"
    /\ After(delete_profile, "decode") = "remove"
    /\ After(delete_profile, "remove") = "syncdir" /\ After(delete_profile, "syncdir") = "drop"
<1>1. /\ DOMAIN delete_profile = 1..10 /\ delete_profile[1] = "dir"
      /\ delete_profile[2] = "lock" /\ delete_profile[3] = "created"
      /\ delete_profile[4] = "stat" /\ delete_profile[5] = "open"
      /\ delete_profile[6] = "fstat" /\ delete_profile[7] = "decode"
      /\ delete_profile[8] = "remove" /\ delete_profile[9] = "syncdir"
      /\ delete_profile[10] = "drop"
  BY DEF delete_profile, read_secure_file
<1> QED BY <1>1 DEF After

LEMMA AfterReset ==
    /\ After(reset_unreadable, "dir") = "lock" /\ After(reset_unreadable, "lock") = "created"
    /\ After(reset_unreadable, "created") = "stat"
    /\ After(reset_unreadable, "stat") = "remove"
    /\ After(reset_unreadable, "remove") = "syncdir"
    /\ After(reset_unreadable, "syncdir") = "drop"
<1>1. /\ DOMAIN reset_unreadable = 1..7 /\ reset_unreadable[1] = "dir"
      /\ reset_unreadable[2] = "lock" /\ reset_unreadable[3] = "created"
      /\ reset_unreadable[4] = "stat" /\ reset_unreadable[5] = "remove"
      /\ reset_unreadable[6] = "syncdir" /\ reset_unreadable[7] = "drop"
  BY DEF reset_unreadable
<1> QED BY <1>1 DEF After

LEMMA AfterOpen ==
    /\ After(open_profile_snapshot, "dir") = "stat"
    /\ After(open_profile_snapshot, "stat") = "open"
    /\ After(open_profile_snapshot, "open") = "fstat"
    /\ After(open_profile_snapshot, "fstat") = "decode"
    /\ After(open_profile_snapshot, "decode") = "told"
<1>1. /\ DOMAIN open_profile_snapshot = 1..6 /\ open_profile_snapshot[1] = "dir"
      /\ open_profile_snapshot[2] = "stat" /\ open_profile_snapshot[3] = "open"
      /\ open_profile_snapshot[4] = "fstat" /\ open_profile_snapshot[5] = "decode"
      /\ open_profile_snapshot[6] = "told"
  BY DEF open_profile_snapshot, read_secure_file
<1> QED BY <1>1 DEF After

LEMMA AfterAnchored ==
    /\ After(open_anchored_profile_snapshot, "dir") = "open"
    /\ After(open_anchored_profile_snapshot, "open") = "fstat"
    /\ After(open_anchored_profile_snapshot, "fstat") = "recheck"
    /\ After(open_anchored_profile_snapshot, "recheck") = "decode"
    /\ After(open_anchored_profile_snapshot, "decode") = "told"
<1>1. /\ DOMAIN open_anchored_profile_snapshot = 1..6
      /\ open_anchored_profile_snapshot[1] = "dir"
      /\ open_anchored_profile_snapshot[2] = "open"
      /\ open_anchored_profile_snapshot[3] = "fstat"
      /\ open_anchored_profile_snapshot[4] = "recheck"
      /\ open_anchored_profile_snapshot[5] = "decode"
      /\ open_anchored_profile_snapshot[6] = "told"
  BY DEF open_anchored_profile_snapshot
<1> QED BY <1>1 DEF After

LEMMA AfterStatus ==
    /\ After(status, "dir") = "exists" /\ After(status, "exists") = "stat"
    /\ After(status, "stat") = "open" /\ After(status, "open") = "fstat"
    /\ After(status, "fstat") = "decode" /\ After(status, "decode") = "told"
<1>1. /\ DOMAIN status = 1..7 /\ status[1] = "dir" /\ status[2] = "exists"
      /\ status[3] = "stat" /\ status[4] = "open" /\ status[5] = "fstat"
      /\ status[6] = "decode" /\ status[7] = "told"
  BY DEF status, read_secure_file
<1> QED BY <1>1 DEF After

(* Where an operation goes from a point. *)
LEMMA Onward ==
    ASSUME NEW p \in Procs, Kind(p) \in Writers \cup Readers
    PROVE  /\ pc[p] = "dir" => /\ Kind(p) \in Writers => Successor(p) = "lock"
                               /\ Kind(p) = "open" => Successor(p) = "stat"
                               /\ Kind(p) = "anchored" => Successor(p) = "open"
                               /\ Kind(p) = "status" => Successor(p) = "exists"
           /\ pc[p] = "lock" /\ Kind(p) \in Writers => Successor(p) = "created"
           /\ pc[p] = "created" /\ Kind(p) \in Writers =>
                 Successor(p) = IF Kind(p) = "commit" THEN "exists" ELSE "stat"
           /\ pc[p] = "exists" /\ Kind(p) \in {"commit", "status"} => Successor(p) = "stat"
           /\ pc[p] = "stat" /\ Kind(p) # "anchored" =>
                 Successor(p) = IF Kind(p) = "reset" THEN "remove" ELSE "open"
           /\ pc[p] = "open" /\ Kind(p) # "reset" => Successor(p) = "fstat"
           /\ pc[p] = "fstat" /\ Kind(p) # "reset" =>
                 Successor(p) = IF Kind(p) = "anchored" THEN "recheck" ELSE "decode"
           /\ pc[p] = "recheck" /\ Kind(p) = "anchored" => Successor(p) = "decode"
           /\ pc[p] = "decode" /\ Kind(p) \in {"commit", "rotate"} => Successor(p) = "encode"
           /\ pc[p] = "decode" /\ Kind(p) = "delete" => Successor(p) = "remove"
           /\ pc[p] = "remove" /\ Kind(p) \in {"delete", "reset"} => Successor(p) = "syncdir"
           /\ Kind(p) \in {"commit", "rotate"} =>
                 /\ pc[p] = "encode" => Successor(p) = "write"
                 /\ pc[p] = "write" => Successor(p) = "fsync"
                 /\ pc[p] = "fsync" => Successor(p) = "verify"
                 /\ pc[p] = "verify" => Successor(p) = "rename"
                 /\ pc[p] = "rename" => Successor(p) = "syncdir"
<1>1. /\ Kind(p) = "commit" => Successor(p) = After(commit_profile, pc[p])
      /\ Kind(p) = "rotate" => Successor(p) = After(rotate_key, pc[p])
      /\ Kind(p) = "delete" => Successor(p) = After(delete_profile, pc[p])
      /\ Kind(p) = "reset" => Successor(p) = After(reset_unreadable, pc[p])
      /\ Kind(p) = "open" => Successor(p) = After(open_profile_snapshot, pc[p])
      /\ Kind(p) = "anchored" => Successor(p) = After(open_anchored_profile_snapshot, pc[p])
      /\ Kind(p) = "status" => Successor(p) = After(status, pc[p])
  BY Zenon DEF Successor, Program, After
<1> QED BY <1>1, AfterCommit, AfterRotate, AfterDelete, AfterReset, AfterOpen, AfterAnchored, AfterStatus
        DEF Writers, Readers

(* decode_vault succeeds exactly on what this build sealed with the key. *)
LEMMA Decodes ==
    ASSUME NEW f, NEW k
    PROVE  /\ decode_vault(f, k) = "ok" <=> f.whole /\ f.key = k /\ f.aad = This /\ f.text.build = This
           /\ decode_vault(f, k) \in {"ok", "Corrupt", "AuthenticationFailure", "ModelMismatch"}
           /\ decode_vault(f, k) = "ModelMismatch" => f.text.build # This
  BY Zenon DEF decode_vault, decode_profile, associated_data

LEMMA StatusAnswers ==
    ASSUME NEW r
    PROVE  /\ StatusOf(r) \in Statuses
           /\ StatusOf(r) = "Absent" <=> r = "NotFound"
           /\ StatusOf(r) = "Ready" <=> r = "ok"
           /\ StatusOf(r) = "ModelMismatchStatus" <=> r = "ModelMismatch"
           /\ StatusOf(r) = "CorruptStatus" <=> r \in {"AuthenticationFailure", "Corrupt"}
  BY Zenon DEF StatusOf, Statuses

-----------------------------------------------------------------------------
(* What a step of p leaves to the others: its own memory only is written,  *)
(* the vault and the lock are touched only with the lock, and a new file   *)
(* is none that anybody has seen.                                          *)
Frame(p) ==
    /\ \A r \in Procs \ {p} :
          /\ pc'[r] = pc[r] /\ op'[r] = op[r] /\ stat'[r] = stat[r] /\ seen'[r] = seen[r]
          /\ temp'[r] = temp[r] /\ res'[r] = res[r] /\ hit'[r] = hit[r]
          /\ window'[r] = IF Looking(r) THEN window[r] \cup {file'} ELSE window[r]
    /\ lock' = lock \/ lock \in {None, p}
    /\ (file' = file /\ pending' = pending) \/ lock = p
    /\ dir' = dir \/ (dir = "absent" /\ dir' # "absent")
    /\ file' \in {file, None} \/ \A r \in Procs : file' \notin window[r]

LEMMA OthersKept ==
    ASSUME VaultAssumption, Inv, NEW p \in Procs, Frame(p), NEW r \in Procs \ {p}
    PROVE  ProcInv(r)'
<1> SUFFICES ASSUME pc'[r] # "idle"
             PROVE  PlaceInv(r)' /\ HoldInv(r)' /\ TempInv(r)' /\ LookInv(r)' /\ StatusInv(r)'
  BY Zenon DEF ProcInv
<1>1. /\ pc'[r] = pc[r] /\ op'[r] = op[r] /\ stat'[r] = stat[r] /\ seen'[r] = seen[r]
      /\ temp'[r] = temp[r] /\ res'[r] = res[r] /\ hit'[r] = hit[r]
      /\ window'[r] = IF Looking(r) THEN window[r] \cup {file'} ELSE window[r]
      /\ Kind(r)' = Kind(r)
  BY Zenon DEF Frame, Kind
<1>2. PlaceInv(r) /\ HoldInv(r) /\ TempInv(r) /\ LookInv(r) /\ StatusInv(r)
  BY <1>1, Zenon DEF Inv, ProcInv
<1>3. PlaceInv(r)'
  BY <1>1, <1>2, Zenon DEF PlaceInv
<1>4. lock = r => lock' = r /\ file' = file /\ pending' = pending
  BY Zenon DEF Frame, VaultAssumption
<1>5. HoldInv(r)'
  <2>1. dir # "absent" => dir' # "absent"
    BY Zenon DEF Frame
  <2>2. pc[r] = "drop" => Kind(r) \in Writers
    BY <1>2, Zenon DEF PlaceInv
  <2>3. "commit" \in Writers /\ "rotate" \in Writers /\ "delete" \in Writers
    BY Zenon DEF Writers
  <2>4. "drop" \in Inside /\ "fstat" \in Inside /\ "decode" \in Inside /\ "remove" \in Inside
    BY Zenon DEF Inside
  <2>5. \A x \in Replacing : x \in Inside
    BY Zenon DEF Inside
  <2> QED BY <1>1, <1>2, <1>4, <2>1, <2>2, <2>3, <2>4, <2>5, Zenon DEF HoldInv
<1>6. TempInv(r)'
  BY <1>1, <1>2, Zenon DEF TempInv, NewKey, NewProfile
<1>7. Looking(r)' <=> Looking(r)
  BY <1>1, Zenon DEF Looking
<1>8. window[r] \subseteq window'[r] /\ (Looking(r) => file' \in window'[r])
  BY <1>1, Zenon
<1>9. LookInv(r)'
  <2>1. ASSUME Kind(r) = "anchored", pc[r] \in {"fstat", "recheck"}, file' = seen[r]
        PROVE  window'[r] = {seen[r]}
    <3>1. Looking(r) /\ seen[r] \in window[r] /\ seen[r] # None
      BY <1>2, <2>1, Zenon DEF Looking, LookInv, HoldInv, VaultAssumption
    <3>2. file' = file
      BY <2>1, <3>1, Zenon DEF Frame
    <3> QED BY <1>1, <1>2, <2>1, <3>1, <3>2, Zenon DEF LookInv
  <2>2. Kind(r) = "anchored" /\ pc[r] \in {"decode", "told"} => ~Looking(r)
    BY Zenon DEF Looking
  <2> QED BY <1>1, <1>2, <1>7, <1>8, <2>1, <2>2, Zenon DEF LookInv
<1>10. StatusInv(r)'
  <2>1. pc[r] = "told" => ~Looking(r)
    BY Zenon DEF Looking
  <2>2. dir = "unsafe" => dir' = "unsafe"
    BY Zenon DEF Frame
  <2>3. \A f : Opened(r, f)' <=> Opened(r, f)
    BY <1>1, Zenon DEF Opened
  <2> QED BY <1>1, <1>2, <2>1, <2>2, <2>3, Zenon DEF StatusInv, Differ
<1> QED BY <1>3, <1>5, <1>6, <1>9, <1>10, Zenon

(* A step that names no new file, or the file of its own run, keeps runs   *)
(* and files apart.                                                        *)
LEMMA RunKept ==
    ASSUME Inv, NEW p \in Procs, op' = op, ops' = ops, pc[p] # "idle",
           \A r \in Procs \ {p} : pc'[r] = pc[r],
           pc'[p] \in Coming => pc[p] \in Coming,
           \A f \in Files : Known(f)' => \/ Known(f)
                                         \/ f.id = op[p].run /\ pc'[p] \notin Coming
    PROVE  RunInv'
<1>1. "idle" \notin Coming
  BY Zenon DEF Coming, Replacing
<1>2. \A r \in Procs : (pc'[r] \in Coming => pc[r] \in Coming) /\ (pc'[r] # "idle" => pc[r] # "idle")
  BY Zenon
<1>3. RunInv
  BY Zenon DEF Inv
<1>4. \A r \in Procs : pc'[r] # "idle" => op'[r].run <= ops'
  BY <1>2, <1>3, Zenon DEF RunInv
<1>5. \A r \in Procs, q \in Procs : r # q /\ pc'[r] # "idle" /\ pc'[q] # "idle" => op'[r].run # op'[q].run
  BY <1>2, <1>3, Zenon DEF RunInv
<1>6. \A f \in Files : Known(f)' => f.id <= ops'
  BY <1>3, Zenon DEF RunInv
<1>7. ASSUME NEW r \in Procs, NEW f \in Files, pc'[r] \in Coming, Known(f)' PROVE f.id # op'[r].run
  <2>1. CASE Known(f)
    BY <1>2, <1>3, <1>7, <2>1, Zenon DEF RunInv
  <2>2. CASE f.id = op[p].run /\ pc'[p] \notin Coming
    BY <1>1, <1>2, <1>3, <1>7, <2>2, Zenon DEF RunInv
  <2> QED BY <1>7, <2>1, <2>2, Zenon
<1> QED BY <1>4, <1>5, <1>6, <1>7, Zenon DEF RunInv

(* Putting the parts together. *)
LEMMA Together ==
    ASSUME VaultAssumption, Inv, NEW p \in Procs, Frame(p), TypeOK', FilesInv', RunInv', ProcInv(p)'
    PROVE  Inv'
  BY OthersKept, Zenon DEF Inv

-----------------------------------------------------------------------------
(* How p goes on: to a point, to its answer, or out with what it holds.    *)
Reaches(p, to) == pc'[p] = to /\ res'[p] = res[p]
Answers(p, r) == pc'[p] = "told" /\ res'[p] = IF Kind(p) = "status" THEN StatusOf(r) ELSE r
Drops(p, r) == pc'[p] = "drop" /\ res'[p] = r

ControlOK ==
    /\ pc \in [Procs -> Points] /\ res \in [Procs -> Errors \cup Statuses \cup {"none", "ok"}]
    /\ \A p \in Procs : pc[p] \in {"drop", "told"} => res[p] # "none"

SameControl(p) == \A r \in Procs \ {p} : pc'[r] = pc[r] /\ res'[r] = res[r]

LEMMA Goings ==
    ASSUME TypeOK, NEW p \in Procs, NEW to, NEW r
    PROVE  /\ Jumps(p, to) => Reaches(p, to) /\ SameControl(p)
           /\ Tells(p, r) => Answers(p, r) /\ SameControl(p)
           /\ Leaves(p, r) => /\ SameControl(p)
                              /\ lock = p /\ Kind(p) \in Writers => Drops(p, r)
                              /\ lock # p \/ Kind(p) \notin Writers => Answers(p, r)
<1>1. pc \in [Procs -> Points] /\ res \in [Procs -> Errors \cup Statuses \cup {"none", "ok"}]
  BY Zenon DEF TypeOK
<1>2. Jumps(p, to) => Reaches(p, to) /\ SameControl(p)
  BY <1>1, Zenon DEF Jumps, Reaches, SameControl
<1>3. Tells(p, r) => Answers(p, r) /\ SameControl(p)
  BY <1>1, Zenon DEF Tells, Answers, SameControl
<1> QED BY <1>1, <1>2, <1>3, Zenon DEF Leaves, Drops, SameControl

LEMMA GoingsType ==
    ASSUME TypeOK, NEW p \in Procs, NEW to, NEW r,
           \/ to \in Points \ {"told", "drop"} /\ Jumps(p, to)
           \/ r \in Errors \cup {"ok"} /\ (Tells(p, r) \/ Leaves(p, r))
           \/ Kind(p) = "status" /\ Tells(p, r)
    PROVE  ControlOK'
<1>1. /\ pc \in [Procs -> Points] /\ res \in [Procs -> Errors \cup Statuses \cup {"none", "ok"}]
      /\ \A q \in Procs : pc[q] \in {"drop", "told"} => res[q] # "none"
  BY Zenon DEF TypeOK
<1>2. "told" \in Points /\ "drop" \in Points /\ "none" \notin Errors \cup Statuses \cup {"ok"}
  BY Zenon DEF Points, Errors, Statuses
<1>3. StatusOf(r) \in Statuses
  BY StatusAnswers
<1>4. CASE to \in Points \ {"told", "drop"} /\ Jumps(p, to)
  BY <1>1, <1>4, Zenon DEF Jumps, ControlOK
<1>5. CASE Tells(p, r) /\ (r \in Errors \cup {"ok"} \/ Kind(p) = "status")
  <2>1. PICK x \in Errors \cup Statuses \cup {"ok"} :
            pc' = [pc EXCEPT ![p] = "told"] /\ res' = [res EXCEPT ![p] = x]
    BY <1>3, <1>5, Zenon DEF Tells
  <2> QED BY <1>1, <1>2, <2>1, Zenon DEF ControlOK
<1>6. CASE Leaves(p, r) /\ r \in Errors \cup {"ok"}
  <2>1. CASE pc' = [pc EXCEPT ![p] = "drop"] /\ res' = [res EXCEPT ![p] = r]
    BY <1>1, <1>2, <1>6, <2>1, Zenon DEF ControlOK
  <2> QED BY <1>5, <1>6, <2>1, Zenon DEF Leaves
<1> QED BY <1>4, <1>5, <1>6, Zenon

(* Steps that touch neither the vault nor the memory of p. *)
Still(p) ==
    /\ UNCHANGED <<file, pending, orphan, op, stat, seen, temp, window, promised, ops>>
    /\ dir' = dir \/ (dir = "absent" /\ dir' \in {"safe", "unsafe"})
    /\ \/ lock' = lock
       \/ lock = None /\ lock' = p
       \/ lock = p /\ lock' \in {None, Left}
    /\ NoFault \/ Fault(p)

LEMMA StillKept ==
    ASSUME VaultAssumption, Inv, NEW p \in Procs, Still(p), SameControl(p), ControlOK', pc[p] # "idle",
           pc'[p] \in Coming => pc[p] \in Coming, ProcInv(p)'
    PROVE  Inv'
<1>1. TypeOK /\ FilesInv
  BY Zenon DEF Inv
<1>2. TypeOK'
  <2>1. hit' \in [Procs -> BOOLEAN] /\ faults' \in Nat
    <3>1. CASE NoFault
      BY <1>1, <3>1, Zenon DEF TypeOK, NoFault
    <3>2. CASE Fault(p)
      BY <1>1, <3>2 DEF TypeOK, Fault
    <3> QED BY <3>1, <3>2, Zenon DEF Still
  <2>2. dir' \in {"absent", "safe", "unsafe"} /\ lock' \in Procs \cup {None, Left}
    BY <1>1, Zenon DEF TypeOK, Still
  <2>3. pc' \in [Procs -> Points] /\ \A q \in Procs : pc'[q] # "idle" => pc[q] # "idle"
    BY Zenon DEF ControlOK, SameControl
  <2> QED BY <1>1, <2>1, <2>2, <2>3, Zenon DEF TypeOK, ControlOK, Still
<1>3. \A r \in Procs : hit'[r] = hit[r] \/ r = p
  BY <1>1, Zenon DEF TypeOK, Still, NoFault, Fault
<1>4. \A r \in Procs : Looking(r) => window[r] = window[r] \cup {file}
  <2>1. \A r \in Procs : Looking(r) => file \in window[r]
    BY Zenon DEF Inv, ProcInv, LookInv, Looking
  <2> QED BY <2>1, Zenon
<1>5. Frame(p)
  <2>1. dir' = dir \/ (dir = "absent" /\ dir' # "absent")
    BY Zenon DEF Still
  <2> QED BY <1>3, <1>4, <2>1, Zenon DEF Frame, Still, SameControl
<1>6. FilesInv'
  BY <1>1, Zenon DEF FilesInv, Still
<1>7. RunInv'
  <2>1. \A f : Known(f)' <=> Known(f)
    BY Zenon DEF Known, Still
  <2> QED BY <2>1, RunKept, Zenon DEF Still, SameControl
<1> QED BY <1>2, <1>5, <1>6, <1>7, Together, Zenon

(* An answer is true of what the call has seen. *)
Says(p, r) ==
    /\ Kind(p) = "anchored" /\ r = "ok" => window[p] = {seen[p]}
    /\ Kind(p) = "status" /\ ~hit'[p] =>
          /\ r = "NotFound" => None \in window[p]
          /\ r = "ok" => \E f \in window[p] : Opened(p, f)
          /\ r \in {"AuthenticationFailure", "Corrupt"} => \E f \in window[p] : f # None /\ ~Opened(p, f)
          /\ r = "ModelMismatch" => \E f \in window[p] : f # None /\ f.text.build # This
          /\ r \notin {"NotFound", "ok", "AuthenticationFailure", "Corrupt", "ModelMismatch"} =>
                op[p].key = None \/ dir' = "unsafe" \/ Differ(window[p])

LEMMA AnswerInv ==
    ASSUME NEW p \in Procs, NEW r, ProcInv(p), pc[p] # "idle", Answers(p, r), Says(p, r),
           op'[p] = op[p], seen'[p] = seen[p], window'[p] = window[p]
    PROVE  ProcInv(p)'
<1>1. pc'[p] = "told" /\ Kind(p)' = Kind(p) /\ PlaceInv(p)
  BY Zenon DEF Answers, Kind, ProcInv
<1>2. /\ "told" \notin Replacing \cup Inside
      /\ "told" \notin {"lock", "created", "syncdir", "drop", "exists", "stat", "open", "fstat", "decode",
                        "recheck", "remove"}
  BY Zenon DEF Inside, Replacing
<1>3. PlaceInv(p)'
  BY <1>1, <1>2, Zenon DEF PlaceInv
<1>4. HoldInv(p)' /\ TempInv(p)'
  BY <1>1, <1>2, Zenon DEF HoldInv, TempInv
<1>5. LookInv(p)'
  <2>1. ~Looking(p)'
    BY <1>1, Zenon DEF Looking
  <2>2. Kind(p) = "anchored" => res'[p] = r
    BY Zenon DEF Answers
  <2> QED BY <1>1, <1>2, <2>1, <2>2, Zenon DEF LookInv, Says
<1>6. StatusInv(p)'
  <2>1. SUFFICES ASSUME Kind(p) = "status", ~hit'[p]
                 PROVE  StatusInv(p)'
    BY <1>1, Zenon DEF StatusInv
  <2>2. res'[p] = StatusOf(r)
    BY <2>1, Zenon DEF Answers
  <2>3. \A f : Opened(p, f)' <=> Opened(p, f)
    BY Zenon DEF Opened
  <2>4. /\ StatusOf(r) = "Absent" <=> r = "NotFound"
        /\ StatusOf(r) = "Ready" <=> r = "ok"
        /\ StatusOf(r) = "ModelMismatchStatus" <=> r = "ModelMismatch"
        /\ StatusOf(r) = "CorruptStatus" <=> r \in {"AuthenticationFailure", "Corrupt"}
    BY StatusAnswers, Zenon
  <2> QED BY <2>1, <2>2, <2>3, <2>4, Zenon DEF StatusInv, Says, Differ
<1> QED BY <1>3, <1>4, <1>5, <1>6, Zenon DEF ProcInv

LEMMA DropInv ==
    ASSUME NEW p \in Procs, NEW r, ProcInv(p), pc[p] \notin {"idle", "dir", "told"}, Drops(p, r),
           Kind(p) \in Writers, lock' = p, dir' = dir, r = "ok" => pending' = {file'}, file' \in window'[p],
           op'[p] = op[p]
    PROVE  ProcInv(p)'
<1>1. pc'[p] = "drop" /\ res'[p] = r /\ Kind(p)' = Kind(p) /\ PlaceInv(p) /\ dir # "absent"
  BY Zenon DEF Drops, Kind, ProcInv, HoldInv
<1>2. "drop" \notin Replacing /\ Kind(p) \notin {"anchored", "status", "open"}
  BY Zenon DEF Replacing, Writers
<1>3. PlaceInv(p)'
  BY <1>1, <1>2, Zenon DEF PlaceInv
<1>4. HoldInv(p)' /\ TempInv(p)'
  BY <1>1, <1>2, Zenon DEF HoldInv, TempInv
<1>5. LookInv(p)' /\ StatusInv(p)'
  BY <1>1, <1>2, Zenon DEF LookInv, StatusInv
<1> QED BY <1>3, <1>4, <1>5, Zenon DEF ProcInv

LEMMA TellKept ==
    ASSUME VaultAssumption, Inv, NEW p \in Procs, NEW r, Still(p), Tells(p, r), Says(p, r),
           r \in Errors \cup {"ok"} \/ Kind(p) = "status", pc[p] # "idle"
    PROVE  Inv'
<1>1. TypeOK /\ ProcInv(p)
  BY Zenon DEF Inv
<1>2. Answers(p, r) /\ SameControl(p)
  BY <1>1, Goings, Zenon
<1>3. ControlOK'
  BY <1>1, GoingsType, Zenon
<1>4. ProcInv(p)'
  BY <1>1, <1>2, AnswerInv, Zenon DEF Still
<1>5. pc'[p] \notin Coming
  BY <1>2, Zenon DEF Answers, Coming, Replacing
<1> QED BY <1>2, <1>3, <1>4, <1>5, StillKept, Zenon

LEMMA LeaveKept ==
    ASSUME VaultAssumption, Inv, NEW p \in Procs, NEW r, Still(p), Leaves(p, r), Says(p, r), lock' = lock,
           dir' = dir, r \in Errors, pc[p] \notin {"idle", "dir", "told"}
    PROVE  Inv'
<1>1. TypeOK /\ ProcInv(p)
  BY Zenon DEF Inv
<1>2. CASE lock = p /\ Kind(p) \in Writers
  <2>1. Drops(p, r) /\ SameControl(p)
    BY <1>1, <1>2, Goings, Zenon
  <2>2. ControlOK'
    BY <1>1, GoingsType, Zenon
  <2>3. file \in window[p]
    <3>1. Looking(p)
      BY <1>2, Zenon DEF Looking, Writers
    <3> QED BY <1>1, <3>1, Zenon DEF ProcInv, LookInv
  <2>4. r # "ok"
    BY Zenon DEF Errors
  <2>5. ProcInv(p)'
    BY <1>1, <1>2, <2>1, <2>3, <2>4, DropInv, Zenon DEF Still
  <2>6. pc'[p] \notin Coming
    BY <2>1, Zenon DEF Drops, Coming, Replacing
  <2> QED BY <2>1, <2>2, <2>5, <2>6, StillKept, Zenon
<1>3. CASE lock # p \/ Kind(p) \notin Writers
  BY <1>3, TellKept, Zenon DEF Leaves
<1> QED BY <1>2, <1>3, Zenon

-----------------------------------------------------------------------------
(* The steps, one by one. *)

(* A running operation and its kind. *)
LEMMA Running ==
    ASSUME Inv, NEW p \in Procs, pc[p] # "idle"
    PROVE  /\ TypeOK /\ op[p] \in Ops /\ Kind(p) \in Writers \cup Readers
           /\ PlaceInv(p) /\ HoldInv(p) /\ TempInv(p) /\ LookInv(p) /\ StatusInv(p) /\ ProcInv(p)
           /\ "ok" \notin Errors
<1>1. TypeOK /\ ProcInv(p) /\ op[p] \in Ops
  BY Zenon DEF Inv, TypeOK
<1>2. Kind(p) \in Writers \cup Readers
  BY <1>1 DEF Ops, Kind
<1> QED BY <1>1, <1>2, Zenon DEF ProcInv, Errors

(* A failing call. *)
LEMMA FailsKept ==
    ASSUME VaultAssumption, Inv, NEW p \in Procs, Fails(p)
    PROVE  Inv'
<1>1. pc[p] \notin {"idle", "dir", "told"} /\ Leaves(p, "Io") /\ Fault(p)
  BY Zenon DEF Fails, MayFail, CallFails
<1>2. Still(p) /\ lock' = lock /\ dir' = dir
  BY <1>1, Zenon DEF Still, Fails, CallFails, fileVars, dirVars, procVars
<1>3. hit'[p]
  BY <1>1, Zenon DEF Fault, Inv, TypeOK
<1>4. Says(p, "Io") /\ "Io" \in Errors
  BY <1>3, Zenon DEF Says, Errors
<1> QED BY <1>1, <1>2, <1>4, LeaveKept, Zenon

LEMMA DirectoryKept ==
    ASSUME VaultAssumption, Inv, NEW p \in Procs, Directory(p)
    PROVE  Inv'
<1>1. pc[p] = "dir" /\ pc[p] # "idle" /\ pc[p] \in Coming
  BY Zenon DEF Directory, Coming
<1>2. /\ TypeOK /\ op[p] \in Ops /\ Kind(p) \in Writers \cup Readers
      /\ PlaceInv(p) /\ HoldInv(p) /\ LookInv(p) /\ ProcInv(p)
  BY <1>1, Running, Zenon
<1>3. Still(p) /\ lock' = lock
  BY <1>2, Zenon DEF Still, Directory, fileVars, procVars, NoFault, TypeOK
<1>4. Looking(p) \/ Kind(p) = "anchored"
  BY <1>1, Zenon DEF Looking
<1>5. CASE dir = "absent" /\ Kind(p) # "commit" /\ Tells(p, "NotFound") /\ NoFault /\ dir' = dir
  <2>1. Kind(p) = "status" => None \in window[p]
    BY <1>2, <1>4, <1>5, Zenon DEF LookInv, Inv, FilesInv
  <2>2. Says(p, "NotFound") /\ "NotFound" \in Errors
    BY <2>1, Zenon DEF Says, Errors
  <2> QED BY <1>1, <1>3, <1>5, <2>2, TellKept, Zenon
<1>6. CASE dir = "unsafe" /\ Tells(p, "UnsafeFilesystem") /\ NoFault /\ dir' = dir
  <2>2. Says(p, "UnsafeFilesystem") /\ "UnsafeFilesystem" \in Errors
    BY <1>6, Zenon DEF Says, Errors
  <2> QED BY <1>1, <1>3, <1>6, <2>2, TellKept, Zenon
<1>7. CASE Kind(p) = "commit" /\ (Tells(p, "UnsafeFilesystem") \/ Tells(p, "Io"))
  <2>2. Says(p, "UnsafeFilesystem") /\ "UnsafeFilesystem" \in Errors /\ Says(p, "Io") /\ "Io" \in Errors
    BY <1>7, Zenon DEF Says, Errors
  <2> QED BY <1>1, <1>3, <1>7, <2>2, TellKept, Zenon
<1>8. CASE dir' = "safe" /\ Goes(p) /\ NoFault
  <2> DEFINE to == Successor(p)
  <2>1. /\ to \in {"lock", "stat", "open", "exists"}
        /\ to = "lock" => Kind(p) \in Writers
        /\ to = "stat" => Kind(p) = "open"
        /\ to = "open" => Kind(p) = "anchored"
        /\ to = "exists" => Kind(p) = "status"
    BY <1>1, <1>2, Onward, Zenon DEF Readers
  <2>2. Jumps(p, to)
    BY <1>8, Zenon DEF Goes
  <2> HIDE DEF to
  <2>3. Reaches(p, to) /\ SameControl(p)
    BY <1>2, <2>2, Goings, Zenon
  <2>4. ControlOK'
    <3>1. to \in Points \ {"told", "drop"}
      BY <2>1, Zenon DEF Points
    <3> QED BY <1>2, <2>2, <3>1, GoingsType, Zenon
  <2>5. ProcInv(p)'
    <3>1. pc'[p] = to /\ Kind(p)' = Kind(p) /\ UNCHANGED <<file, op, window, stat, seen>>
      BY <1>3, <2>3, Zenon DEF Reaches, Kind, Still
    <3>2. /\ to \notin Replacing \cup {"created", "syncdir", "drop", "recheck", "remove", "fstat", "decode", "told", "dir", "idle"}
          /\ "open" \notin Writers /\ "anchored" \notin Writers /\ "status" \notin Writers
          /\ "lock" \notin Inside
      BY <2>1, Zenon DEF Replacing, Writers, Inside
    <3>3. PlaceInv(p)'
      BY <1>2, <2>1, <3>1, <3>2, Zenon DEF PlaceInv, Writers
    <3>4. HoldInv(p)' /\ TempInv(p)'
      BY <1>2, <1>8, <2>1, <3>1, <3>2, Zenon DEF HoldInv, TempInv
    <3>5. LookInv(p)' /\ StatusInv(p)'
      BY <1>2, <1>4, <2>1, <3>1, <3>2, Zenon DEF LookInv, StatusInv, Looking
    <3> QED BY <3>3, <3>4, <3>5, Zenon DEF ProcInv
  <2> QED BY <1>1, <1>3, <2>3, <2>4, <2>5, StillKept, Zenon
<1> QED BY <1>5, <1>6, <1>7, <1>8, Zenon DEF Directory

(* A step that only goes on: what holds at the new point, of a memory that *)
(* has not changed.                                                        *)
LEMMA GoKept ==
    ASSUME VaultAssumption, Inv, NEW p \in Procs, NEW to \in Points \ {"told", "drop"}, Still(p), Jumps(p, to),
           pc[p] # "idle", to \in Coming => pc[p] \in Coming,
           pc'[p] = to /\ Kind(p)' = Kind(p) /\ UNCHANGED <<file, pending, op, stat, seen, temp, window>>
              => PlaceInv(p)' /\ HoldInv(p)' /\ TempInv(p)' /\ LookInv(p)'
    PROVE  Inv'
<1>1. TypeOK
  BY Zenon DEF Inv
<1>2. Reaches(p, to) /\ SameControl(p)
  BY <1>1, Goings, Zenon
<1>3. ControlOK'
  BY <1>1, GoingsType, Zenon
<1>4. StatusInv(p)'
  BY <1>2, Zenon DEF Reaches, StatusInv
<1>5. ProcInv(p)'
  BY <1>2, <1>4, Zenon DEF Reaches, Kind, Still, ProcInv
<1> QED BY <1>2, <1>3, <1>5, StillKept, Zenon DEF Reaches

(* VaultLock::acquire *)
LEMMA AcquireKept ==
    ASSUME VaultAssumption, Inv, NEW p \in Procs, Acquire(p) \/ AcquireTimesOut(p)
    PROVE  Inv'
<1>1. pc[p] = "lock" /\ pc[p] # "idle" /\ pc[p] \in Coming
  BY Zenon DEF Acquire, AcquireTimesOut, Coming
<1>2. Kind(p) \in Writers \cup Readers /\ PlaceInv(p) /\ HoldInv(p) /\ LookInv(p) /\ Kind(p) \in Writers
  BY <1>1, Running, Zenon DEF PlaceInv
<1>3. Still(p)
  BY Zenon DEF Still, Acquire, AcquireTimesOut, fileVars, dirVars, procVars, NoFault
<1>4. CASE AcquireTimesOut(p)
  <2>1. Says(p, "LockTimeout") /\ "LockTimeout" \in Errors
    BY <1>2, Zenon DEF Says, Writers, Errors
  <2> QED BY <1>1, <1>3, <1>4, <2>1, TellKept, Zenon DEF AcquireTimesOut
<1>5. CASE Acquire(p)
  <2>1. Jumps(p, "created") /\ lock' = p /\ dir' = dir
    BY <1>1, <1>2, <1>5, Onward, Zenon DEF Acquire, Goes
  <2>2. "created" \in Points \ {"told", "drop"} /\ "created" \notin Replacing
    BY Zenon DEF Points, Replacing
  <2>3. ASSUME pc'[p] = "created", Kind(p)' = Kind(p), UNCHANGED <<file, pending, op, stat, seen, temp, window>>
        PROVE  PlaceInv(p)' /\ HoldInv(p)' /\ TempInv(p)' /\ LookInv(p)'
    <3>1. PlaceInv(p)'
      BY <1>1, <1>2, <2>2, <2>3, Zenon DEF PlaceInv
    <3>2. HoldInv(p)' /\ TempInv(p)'
      BY <1>1, <1>2, <2>1, <2>2, <2>3, Zenon DEF HoldInv, TempInv
    <3>3. LookInv(p)'
      BY <1>1, <1>2, <2>3, Zenon DEF LookInv, Looking, Writers
    <3> QED BY <3>1, <3>2, <3>3, Zenon
  <2> QED BY <1>1, <1>3, <2>1, <2>2, <2>3, GoKept, Zenon
<1> QED BY <1>4, <1>5, Zenon

LEMMA LockCreatedKept ==
    ASSUME VaultAssumption, Inv, NEW p \in Procs, LockCreated(p)
    PROVE  Inv'
<1>1. pc[p] = "created" /\ pc[p] # "idle" /\ pc[p] \in Coming /\ pc[p] \in Inside
  BY Zenon DEF LockCreated, Coming, Inside
<1>2. Kind(p) \in Writers \cup Readers /\ PlaceInv(p) /\ HoldInv(p) /\ LookInv(p) /\ Kind(p) \in Writers /\ lock = p
  BY <1>1, Running, Zenon DEF PlaceInv, HoldInv
<1>3. Still(p)
  BY <1>2, Zenon DEF Still, LockCreated, fileVars, procVars, NoFault
<1>4. CASE Tells(p, "Io") \/ Tells(p, "UnsafeFilesystem")
  <2>1. Says(p, "Io") /\ "Io" \in Errors /\ Says(p, "UnsafeFilesystem") /\ "UnsafeFilesystem" \in Errors
    BY <1>2, Zenon DEF Says, Writers, Errors
  <2> QED BY <1>1, <1>3, <1>4, <2>1, TellKept, Zenon
<1>5. CASE Goes(p) /\ lock' = lock
  <2> DEFINE to == Successor(p)
  <2>1. Jumps(p, to) /\ dir' = dir /\ to \in {"exists", "stat"} /\ (to = "exists" => Kind(p) = "commit")
    BY <1>1, <1>2, <1>5, Onward, Zenon DEF LockCreated, Goes
  <2> HIDE DEF to
  <2>2. /\ to \in Points \ {"told", "drop"} /\ to \notin Replacing /\ to \in Coming
        /\ to \notin {"lock", "created", "syncdir", "drop", "open", "fstat", "decode", "recheck", "remove"}
    BY <2>1, Zenon DEF Points, Replacing, Coming
  <2>3. ASSUME pc'[p] = to, Kind(p)' = Kind(p), UNCHANGED <<file, pending, op, stat, seen, temp, window>>
        PROVE  PlaceInv(p)' /\ HoldInv(p)' /\ TempInv(p)' /\ LookInv(p)'
    <3>1. PlaceInv(p)'
      BY <1>1, <1>2, <2>1, <2>2, <2>3, Zenon DEF PlaceInv, Writers
    <3>2. HoldInv(p)' /\ TempInv(p)'
      BY <1>1, <1>2, <1>5, <2>1, <2>2, <2>3, Zenon DEF HoldInv, TempInv
    <3>3. LookInv(p)'
      BY <1>1, <1>2, <2>2, <2>3, Zenon DEF LookInv, Looking, Writers
    <3> QED BY <3>1, <3>2, <3>3, Zenon
  <2> QED BY <1>1, <1>3, <2>1, <2>2, <2>3, GoKept, Zenon
<1> QED BY <1>4, <1>5, Zenon DEF LockCreated

(* The looks at the vault. *)
LEMMA ExistsKept ==
    ASSUME VaultAssumption, Inv, NEW p \in Procs, Exists(p)
    PROVE  Inv'
<1>1. pc[p] = "exists" /\ pc[p] \notin {"idle", "told"} /\ pc[p] \in Coming /\ pc[p] \in Inside
  BY Zenon DEF Exists, Coming, Inside
<1>2. /\ Kind(p) \in Writers \cup Readers /\ PlaceInv(p) /\ HoldInv(p) /\ LookInv(p)
      /\ Kind(p) \in {"commit", "status"} /\ dir # "absent" /\ op[p].key \in Keys \cup {None}
  <2>1. /\ Kind(p) \in Writers \cup Readers /\ PlaceInv(p) /\ HoldInv(p) /\ LookInv(p) /\ op[p] \in Ops
    BY <1>1, Running, Zenon
  <2>2. op[p].key \in Keys \cup {None}
    BY <2>1 DEF Ops
  <2> QED BY <1>1, <2>1, <2>2, Zenon DEF PlaceInv, HoldInv
<1>3. Still(p) /\ lock' = lock /\ dir' = dir
  BY Zenon DEF Still, Exists, fileVars, dirVars, procVars
<1>4. file \in window[p]
  BY <1>1, <1>2, Zenon DEF LookInv, Looking
<1>5. CASE Kind(p) = "status" /\ Tells(p, "NotFound") /\ (file = None \/ Fault(p))
  <2>1. file # None => hit'[p]
    BY <1>5, Zenon DEF Fault, Inv, TypeOK
  <2>2. Says(p, "NotFound") /\ "NotFound" \in Errors
    BY <1>4, <1>5, <2>1, Zenon DEF Says, Errors
  <2> QED BY <1>1, <1>3, <1>5, <2>2, TellKept, Zenon
<1>6. CASE op[p].key = None /\ Tells(p, "KeyProvider")
  <2>1. Kind(p) = "status"
    BY <1>2, <1>6, Zenon DEF PlaceInv, VaultAssumption
  <2>2. Says(p, "KeyProvider")
    BY <1>6, <2>1, Zenon DEF Says
  <2> QED BY <1>1, <1>3, <1>6, <2>1, <2>2, TellKept, Zenon
<1>7. CASE Kind(p) = "commit" /\ Jumps(p, "encode") /\ (file = None \/ ExistsFails)
  <2>1. "encode" \in Points \ {"told", "drop"} /\ "encode" \in Replacing /\ "commit" \in Writers /\ "encode" \in Inside
    BY Zenon DEF Points, Replacing, Writers, Inside
  <2>2. ASSUME pc'[p] = "encode", Kind(p)' = Kind(p), UNCHANGED <<file, pending, op, stat, seen, temp, window>>
        PROVE  PlaceInv(p)' /\ HoldInv(p)' /\ TempInv(p)' /\ LookInv(p)'
    <3>1. PlaceInv(p)'
      BY <1>2, <1>7, <2>2, Zenon DEF PlaceInv
    <3>2. HoldInv(p)'
      BY <1>1, <1>2, <1>3, <1>7, <2>1, <2>2, Zenon DEF HoldInv
    <3>3. TempInv(p)' /\ LookInv(p)'
      BY <1>4, <1>7, <2>2, Zenon DEF TempInv, LookInv, Looking
    <3> QED BY <3>1, <3>2, <3>3, Zenon
  <2> QED BY <1>1, <1>3, <1>7, <2>1, <2>2, GoKept, Zenon
<1>8. CASE op[p].key # None /\ Goes(p)
  <2>1. Jumps(p, "stat")
    BY <1>1, <1>2, <1>8, Onward, Zenon DEF Goes
  <2>2. "stat" \in Points \ {"told", "drop"} /\ "stat" \notin Replacing /\ "stat" \in Inside
    BY Zenon DEF Points, Replacing, Inside
  <2>3. ASSUME pc'[p] = "stat", Kind(p)' = Kind(p), UNCHANGED <<file, pending, op, stat, seen, temp, window>>
        PROVE  PlaceInv(p)' /\ HoldInv(p)' /\ TempInv(p)' /\ LookInv(p)'
    <3>1. PlaceInv(p)'
      BY <1>2, <1>8, <2>2, <2>3, Zenon DEF PlaceInv
    <3>2. HoldInv(p)'
      BY <1>1, <1>2, <1>3, <2>2, <2>3, Zenon DEF HoldInv
    <3>3. TempInv(p)' /\ LookInv(p)'
      BY <1>2, <1>4, <2>2, <2>3, Zenon DEF TempInv, LookInv, Looking
    <3> QED BY <3>1, <3>2, <3>3, Zenon
  <2> QED BY <1>1, <1>3, <2>1, <2>2, <2>3, GoKept, Zenon
<1> QED BY <1>2, <1>5, <1>6, <1>7, <1>8, Zenon DEF Exists

LEMMA FstatKept ==
    ASSUME VaultAssumption, Inv, NEW p \in Procs, Fstat(p)
    PROVE  Inv'
<1>1. pc[p] = "fstat" /\ pc[p] \notin {"idle", "dir", "told"} /\ pc[p] \in Coming /\ pc[p] \in Inside
  BY Zenon DEF Fstat, Coming, Inside
<1>2. /\ Kind(p) \in Writers \cup Readers /\ PlaceInv(p) /\ HoldInv(p) /\ LookInv(p) /\ Kind(p) # "reset"
  BY <1>1, Running, Zenon DEF PlaceInv
<1>3. Still(p) /\ lock' = lock /\ dir' = dir
  BY Zenon DEF Still, Fstat, fileVars, dirVars, procVars
<1>4. file \in window[p] /\ seen[p] \in window[p] /\ (Kind(p) # "anchored" => stat[p] \in window[p])
  BY <1>1, <1>2, Zenon DEF LookInv, Looking
<1>5. CASE (seen[p] # file \/ (Kind(p) # "anchored" /\ stat[p] # seen[p])) /\ Leaves(p, "UnsafeFilesystem")
  <2>1. Kind(p) = "status" => Differ(window[p])
    BY <1>4, <1>5, Zenon DEF Differ
  <2>2. Says(p, "UnsafeFilesystem") /\ "UnsafeFilesystem" \in Errors
    BY <2>1, Zenon DEF Says, Errors
  <2> QED BY <1>1, <1>3, <1>5, <2>2, LeaveKept, Zenon
<1>6. CASE seen[p] = file /\ Goes(p)
  <2> DEFINE to == Successor(p)
  <2>1. Jumps(p, to) /\ to = IF Kind(p) = "anchored" THEN "recheck" ELSE "decode"
    BY <1>1, <1>2, <1>6, Onward, Zenon DEF Goes
  <2> HIDE DEF to
  <2>2. to \in Points \ {"told", "drop"} /\ to \notin Replacing /\ to \in {"recheck", "decode"} /\ to \in Coming
    BY <2>1, Zenon DEF Points, Replacing, Coming
  <2>3. ASSUME pc'[p] = to, Kind(p)' = Kind(p), UNCHANGED <<file, pending, op, stat, seen, temp, window>>
        PROVE  PlaceInv(p)' /\ HoldInv(p)' /\ TempInv(p)' /\ LookInv(p)'
    <3>1. PlaceInv(p)'
      BY <1>1, <1>2, <2>1, <2>2, <2>3, Zenon DEF PlaceInv
    <3>2. HoldInv(p)'
      BY <1>1, <1>2, <1>3, <2>2, <2>3, Zenon DEF HoldInv
    <3>3. TempInv(p)' /\ LookInv(p)'
      BY <1>1, <1>2, <1>4, <1>6, <2>1, <2>2, <2>3, Zenon DEF TempInv, LookInv, Looking
    <3> QED BY <3>1, <3>2, <3>3, Zenon
  <2> QED BY <1>1, <1>3, <2>1, <2>2, <2>3, GoKept, Zenon
<1> QED BY <1>5, <1>6, Zenon DEF Fstat

LEMMA RecheckKept ==
    ASSUME VaultAssumption, Inv, NEW p \in Procs, Recheck(p)
    PROVE  Inv'
<1>1. pc[p] = "recheck" /\ pc[p] \notin {"idle", "dir", "told"} /\ pc[p] \in Coming
  BY Zenon DEF Recheck, Coming
<1>2. /\ Kind(p) \in Writers \cup Readers /\ PlaceInv(p) /\ HoldInv(p) /\ LookInv(p) /\ Kind(p) = "anchored"
  BY <1>1, Running, Zenon DEF PlaceInv
<1>3. Still(p) /\ lock' = lock /\ dir' = dir
  BY Zenon DEF Still, Recheck, fileVars, dirVars, procVars
<1>4. CASE Tells(p, "NotFound") \/ Tells(p, "UnsafeFilesystem")
  <2>1. Says(p, "NotFound") /\ "NotFound" \in Errors /\ Says(p, "UnsafeFilesystem") /\ "UnsafeFilesystem" \in Errors
    BY <1>2, Zenon DEF Says, Errors
  <2> QED BY <1>1, <1>3, <1>4, <2>1, TellKept, Zenon
<1>5. CASE seen[p] = file /\ Goes(p)
  <2>1. Jumps(p, "decode")
    BY <1>1, <1>2, <1>5, Onward, Zenon DEF Goes
  <2>2. "decode" \in Points \ {"told", "drop"} /\ "decode" \notin Replacing /\ "anchored" \notin Writers
    BY Zenon DEF Points, Replacing, Writers
  <2>3. ASSUME pc'[p] = "decode", Kind(p)' = Kind(p), UNCHANGED <<file, pending, op, stat, seen, temp, window>>
        PROVE  PlaceInv(p)' /\ HoldInv(p)' /\ TempInv(p)' /\ LookInv(p)'
    <3>1. PlaceInv(p)'
      BY <1>2, <2>2, <2>3, Zenon DEF PlaceInv
    <3>2. HoldInv(p)'
      BY <1>1, <1>2, <1>3, <2>2, <2>3, Zenon DEF HoldInv
    <3>3. TempInv(p)' /\ LookInv(p)'
      BY <1>1, <1>2, <1>5, <2>2, <2>3, Zenon DEF TempInv, LookInv, Looking
    <3> QED BY <3>1, <3>2, <3>3, Zenon
  <2> QED BY <1>1, <1>3, <2>1, <2>2, <2>3, GoKept, Zenon
<1> QED BY <1>4, <1>5, Zenon DEF Recheck

LEMMA DecodeKept ==
    ASSUME VaultAssumption, Inv, NEW p \in Procs, Decode(p)
    PROVE  Inv'
<1> DEFINE r == decode_vault(seen[p], op[p].key)
<1>1. pc[p] = "decode" /\ pc[p] \notin {"idle", "dir", "told"} /\ pc[p] \in Coming /\ pc[p] \in Inside
  BY Zenon DEF Decode, Coming, Inside
<1>2. /\ Kind(p) \in Writers \cup Readers /\ PlaceInv(p) /\ HoldInv(p) /\ LookInv(p) /\ Kind(p) # "reset"
  BY <1>1, Running, Zenon DEF PlaceInv
<1>3. Still(p) /\ lock' = lock /\ dir' = dir
  BY Zenon DEF Still, Decode, fileVars, dirVars, procVars
<1>4. seen[p] # None /\ (Kind(p) # "anchored" => seen[p] \in window[p] /\ file \in window[p])
  BY <1>1, <1>2, Zenon DEF LookInv, HoldInv, Looking, VaultAssumption
<1>5. /\ r \in {"ok", "Corrupt", "AuthenticationFailure", "ModelMismatch"}
      /\ r = "ModelMismatch" => seen[p].text.build # This
  BY Decodes, Zenon
<1>6. \/ r # "ok" /\ Leaves(p, r)
      \/ r = "ok" /\ Kind(p) \in Readers /\ Tells(p, "ok")
      \/ r = "ok" /\ Kind(p) \notin Readers /\ Goes(p)
  BY Zenon DEF Decode
<1>7. CASE r # "ok" /\ Leaves(p, r)
  <2>1. ~Opened(p, seen[p])
    BY <1>7, Zenon DEF Opened
  <2>2. Says(p, r)
    BY <1>4, <1>5, <1>7, <2>1, Zenon DEF Says
  <2>3. r \in Errors
    BY <1>5, <1>7, Zenon DEF Errors
  <2> QED BY <1>1, <1>3, <1>7, <2>2, <2>3, LeaveKept, Zenon
<1>8. CASE r = "ok" /\ Kind(p) \in Readers /\ Tells(p, "ok")
  <2>1. Kind(p) = "status" => op[p].key # None
    BY <1>1, <1>2, Zenon DEF PlaceInv, VaultAssumption
  <2>2. Kind(p) = "status" => Opened(p, seen[p])
    BY <1>4, <1>8, <2>1, Zenon DEF Opened
  <2>3. Says(p, "ok")
    BY <1>1, <1>2, <1>4, <2>2, Zenon DEF Says, LookInv
  <2> QED BY <1>1, <1>3, <1>8, <2>3, TellKept, Zenon
<1>9. CASE r = "ok" /\ Kind(p) \notin Readers /\ Goes(p)
  <2> DEFINE to == Successor(p)
  <2>1. /\ Jumps(p, to) /\ Kind(p) \in {"commit", "rotate", "delete"}
        /\ to = IF Kind(p) = "delete" THEN "remove" ELSE "encode"
    <3>1. Kind(p) \in {"commit", "rotate", "delete"}
      BY <1>2, <1>9, Zenon DEF Writers
    <3> QED BY <1>1, <1>2, <1>9, <3>1, Onward, Zenon DEF Goes
  <2> HIDE DEF to
  <2>2. /\ to \in Points \ {"told", "drop"} /\ to \in {"remove", "encode"} /\ to \in Coming /\ to \in Inside
        /\ "remove" \notin Replacing /\ Kind(p) \in Writers
    BY <2>1, Zenon DEF Points, Replacing, Coming, Inside, Writers
  <2>3. seen[p] = file /\ decode_vault(file, op[p].key) = "ok" /\ file # None
    BY <1>1, <1>2, <1>4, <1>9, <2>2, Zenon DEF HoldInv
  <2>4. ASSUME pc'[p] = to, Kind(p)' = Kind(p), UNCHANGED <<file, pending, op, stat, seen, temp, window>>
        PROVE  PlaceInv(p)' /\ HoldInv(p)' /\ TempInv(p)' /\ LookInv(p)'
    <3>1. PlaceInv(p)'
      BY <1>2, <2>1, <2>2, <2>4, Zenon DEF PlaceInv
    <3>2. HoldInv(p)'
      BY <1>1, <1>2, <1>3, <2>1, <2>2, <2>3, <2>4, Zenon DEF HoldInv
    <3>3. TempInv(p)' /\ LookInv(p)'
      BY <1>4, <2>1, <2>2, <2>4, Zenon DEF TempInv, LookInv, Looking
    <3> QED BY <3>1, <3>2, <3>3, Zenon
  <2> QED BY <1>1, <1>3, <2>1, <2>2, <2>4, GoKept, Zenon
<1> QED BY <1>6, <1>7, <1>8, <1>9, Zenon

LEMMA VerifyKept ==
    ASSUME VaultAssumption, Inv, NEW p \in Procs, Verify(p)
    PROVE  Inv'
<1> DEFINE r == decode_vault(temp[p], NewKey(p))
<1>1. pc[p] = "verify" /\ pc[p] \notin {"idle", "dir", "told"} /\ pc[p] \in Coming /\ pc[p] \in Inside
  BY Zenon DEF Verify, Coming, Inside, Replacing
<1>2. /\ Kind(p) \in Writers \cup Readers /\ PlaceInv(p) /\ HoldInv(p) /\ TempInv(p) /\ LookInv(p)
      /\ Kind(p) \in {"commit", "rotate"} /\ Kind(p) \in Writers
  BY <1>1, Running, Zenon DEF PlaceInv, Replacing, Writers
<1>3. Still(p) /\ lock' = lock /\ dir' = dir
  BY Zenon DEF Still, Verify, fileVars, dirVars, procVars
<1>4. r \in {"ok", "Corrupt", "AuthenticationFailure", "ModelMismatch"}
  BY Decodes, Zenon
<1>5. CASE r # "ok" /\ Leaves(p, r)
  <2>1. Says(p, r) /\ r \in Errors
    BY <1>2, <1>4, <1>5, Zenon DEF Says, Errors
  <2> QED BY <1>1, <1>3, <1>5, <2>1, LeaveKept, Zenon
<1>6. CASE Goes(p)
  <2>1. Jumps(p, "rename")
    BY <1>1, <1>2, <1>6, Onward, Zenon DEF Goes
  <2>2. /\ "rename" \in Points \ {"told", "drop"} /\ "rename" \in Replacing /\ "verify" \in Replacing
        /\ "rename" \in Inside
    BY Zenon DEF Points, Replacing, Inside
  <2>3. ASSUME pc'[p] = "rename", Kind(p)' = Kind(p), UNCHANGED <<file, pending, op, stat, seen, temp, window>>
        PROVE  PlaceInv(p)' /\ HoldInv(p)' /\ TempInv(p)' /\ LookInv(p)'
    <3>1. PlaceInv(p)'
      BY <1>2, <2>3, Zenon DEF PlaceInv
    <3>2. HoldInv(p)'
      BY <1>1, <1>2, <1>3, <2>2, <2>3, Zenon DEF HoldInv
    <3>3. TempInv(p)'
      BY <1>1, <1>2, <2>2, <2>3, Zenon DEF TempInv, NewKey, NewProfile
    <3>4. LookInv(p)'
      BY <1>1, <1>2, <2>3, Zenon DEF LookInv, Looking
    <3> QED BY <3>1, <3>2, <3>3, <3>4, Zenon
  <2> QED BY <1>1, <1>3, <2>1, <2>2, <2>3, GoKept, Zenon
<1> QED BY <1>5, <1>6, Zenon DEF Verify

(* Steps that write the memory of p, and leave the vault alone. *)
Own(p) ==
    /\ UNCHANGED <<file, pending, dir, lock, orphan, promised, op, ops, hit, faults>>
    /\ stat' \in [Procs -> Files \cup {None}] /\ seen' \in [Procs -> Files \cup {None}]
    /\ temp' \in [Procs -> Files \cup {None}] /\ window' \in [Procs -> SUBSET (Files \cup {None})]
    /\ \A r \in Procs \ {p} : /\ stat'[r] = stat[r] /\ seen'[r] = seen[r] /\ temp'[r] = temp[r]
                              /\ window'[r] = window[r]
    /\ window'[p] \subseteq window[p] \cup {file}

LEMMA OwnKept ==
    ASSUME VaultAssumption, Inv, NEW p \in Procs, Own(p), SameControl(p), ControlOK', pc[p] # "idle",
           pc'[p] \in Coming => pc[p] \in Coming, ProcInv(p)'
    PROVE  Inv'
<1>1. TypeOK /\ FilesInv
  BY Zenon DEF Inv
<1>2. TypeOK'
  <2>1. pc' \in [Procs -> Points] /\ \A q \in Procs : pc'[q] # "idle" => pc[q] # "idle"
    BY Zenon DEF ControlOK, SameControl
  <2> QED BY <1>1, <2>1, Zenon DEF TypeOK, ControlOK, Own
<1>3. \A r \in Procs : Looking(r) => window[r] = window[r] \cup {file}
  <2>1. \A r \in Procs : Looking(r) => file \in window[r]
    BY Zenon DEF Inv, ProcInv, LookInv, Looking
  <2> QED BY <2>1, Zenon
<1>4. Frame(p)
  BY <1>3, Zenon DEF Frame, Own, SameControl
<1>5. FilesInv'
  BY <1>1, Zenon DEF FilesInv, Own
<1>6. RunInv'
  <2>1. \A r \in Procs : window'[r] \subseteq window[r] \cup {file}
    BY Zenon DEF Own
  <2>2. file \in pending /\ pending' = pending
    BY <1>1, Zenon DEF FilesInv, Own
  <2>3. \A f : Known(f)' => Known(f)
    BY <2>1, <2>2, Zenon DEF Known
  <2> QED BY <2>3, RunKept, Zenon DEF Own, SameControl
<1> QED BY <1>2, <1>4, <1>5, <1>6, Together, Zenon

LEMMA OwnGoes ==
    ASSUME VaultAssumption, Inv, NEW p \in Procs, NEW to \in Points \ {"told", "drop"}, Own(p), Jumps(p, to),
           pc[p] # "idle", to \in Coming => pc[p] \in Coming,
           pc'[p] = to /\ Kind(p)' = Kind(p) => PlaceInv(p)' /\ HoldInv(p)' /\ TempInv(p)' /\ LookInv(p)'
    PROVE  Inv'
<1>1. TypeOK
  BY Zenon DEF Inv
<1>2. Reaches(p, to) /\ SameControl(p)
  BY <1>1, Goings, Zenon
<1>3. ControlOK'
  BY <1>1, GoingsType, Zenon
<1>4. StatusInv(p)'
  BY <1>2, Zenon DEF Reaches, StatusInv
<1>5. ProcInv(p)'
  BY <1>2, <1>4, Zenon DEF Reaches, Kind, Own, ProcInv
<1> QED BY <1>2, <1>3, <1>5, OwnKept, Zenon DEF Reaches

(* validate_secure_path *)
LEMMA StatKept ==
    ASSUME VaultAssumption, Inv, NEW p \in Procs, Stat(p)
    PROVE  Inv'
<1>1. pc[p] = "stat" /\ pc[p] \notin {"idle", "dir", "told"} /\ pc[p] \in Coming /\ pc[p] \in Inside
  BY Zenon DEF Stat, Coming, Inside
<1>2. /\ TypeOK /\ Kind(p) \in Writers \cup Readers /\ PlaceInv(p) /\ HoldInv(p) /\ LookInv(p)
      /\ Kind(p) # "anchored"
  BY <1>1, Running, Zenon DEF PlaceInv
<1>3. file \in window[p]
  BY <1>1, <1>2, Zenon DEF LookInv, Looking
<1>4. CASE file = None /\ Leaves(p, "NotFound") /\ stat' = stat
  <2>1. Says(p, "NotFound") /\ "NotFound" \in Errors
    BY <1>2, <1>3, <1>4, Zenon DEF Says, Errors
  <2>2. Still(p) /\ lock' = lock /\ dir' = dir
    BY <1>4, Zenon DEF Still, Stat, fileVars, dirVars
  <2> QED BY <1>1, <1>4, <2>1, <2>2, LeaveKept, Zenon
<1>5. CASE file # None /\ stat' = [stat EXCEPT ![p] = file] /\ Goes(p)
  <2> DEFINE to == Successor(p)
  <2>1. Jumps(p, to) /\ to = IF Kind(p) = "reset" THEN "remove" ELSE "open"
    BY <1>1, <1>2, <1>5, Onward, Zenon DEF Goes
  <2> HIDE DEF to
  <2>2. to \in Points \ {"told", "drop"} /\ to \notin Replacing /\ to \in {"remove", "open"} /\ to \in Coming
    BY <2>1, Zenon DEF Points, Replacing, Coming
  <2>3. Own(p) /\ stat'[p] = file /\ UNCHANGED <<seen, temp, window, dir, lock, file, op>>
    BY <1>2, <1>5, Zenon DEF Own, Stat, fileVars, dirVars, NoFault, TypeOK
  <2>4. ASSUME pc'[p] = to, Kind(p)' = Kind(p)
        PROVE  PlaceInv(p)' /\ HoldInv(p)' /\ TempInv(p)' /\ LookInv(p)'
    <3>1. PlaceInv(p)'
      BY <1>1, <1>2, <2>1, <2>2, <2>3, <2>4, Zenon DEF PlaceInv
    <3>2. HoldInv(p)'
      <4>1. Kind(p) \notin {"rotate", "delete"} \/ to = "open"
        BY <2>1, Zenon
      <4> QED BY <1>1, <1>2, <2>2, <2>3, <2>4, <4>1, Zenon DEF HoldInv
    <3>3. TempInv(p)' /\ LookInv(p)'
      BY <1>2, <1>3, <2>2, <2>3, <2>4, Zenon DEF TempInv, LookInv, Looking
    <3> QED BY <3>1, <3>2, <3>3, Zenon
  <2> QED BY <1>1, <2>1, <2>2, <2>3, <2>4, OwnGoes, Zenon
<1> QED BY <1>4, <1>5, Zenon DEF Stat

(* The open of read_secure_file, and of an anchored read. *)
LEMMA OpenKept ==
    ASSUME VaultAssumption, Inv, NEW p \in Procs, Open(p)
    PROVE  Inv'
<1>1. pc[p] = "open" /\ pc[p] \notin {"idle", "dir", "told"} /\ pc[p] \in Coming /\ pc[p] \in Inside
  BY Zenon DEF Open, Coming, Inside
<1>2. /\ TypeOK /\ Kind(p) \in Writers \cup Readers /\ PlaceInv(p) /\ HoldInv(p) /\ LookInv(p)
      /\ Kind(p) # "reset" /\ ProcInv(p)
  BY <1>1, Running, Zenon DEF PlaceInv
<1>3. Kind(p) # "anchored" => file \in window[p] /\ stat[p] \in window[p]
  BY <1>1, <1>2, Zenon DEF LookInv, Looking
<1>4. /\ UNCHANGED <<dir, lock, file, pending, op, stat, temp>>
      /\ \A r \in Procs \ {p} : seen'[r] = seen[r] /\ window'[r] = window[r]
      /\ window'[p] = IF Kind(p) = "anchored" THEN {file} ELSE window[p]
  BY <1>2, Zenon DEF Open, fileVars, dirVars, TypeOK
<1>5. Own(p)
  <2>1. seen' \in [Procs -> Files \cup {None}]
    BY <1>2, Zenon DEF Open, TypeOK
  <2>2. window' \in [Procs -> SUBSET (Files \cup {None})] /\ window'[p] \subseteq window[p] \cup {file}
    <3>1. window \in [Procs -> SUBSET (Files \cup {None})] /\ {file} \in SUBSET (Files \cup {None})
      BY <1>2, Zenon DEF TypeOK
    <3>2. window' = [window EXCEPT ![p] = {file}] \/ window' = window
      BY Zenon DEF Open
    <3>3. window' \in [Procs -> SUBSET (Files \cup {None})]
      BY <3>1, <3>2, Zenon
    <3>4. window'[p] \subseteq window[p] \cup {file}
      BY <1>4, Zenon
    <3> QED BY <3>3, <3>4, Zenon
  <2>3. UNCHANGED <<orphan, promised, ops, hit, faults>>
    BY Zenon DEF Open, dirVars, NoFault
  <2>4. stat \in [Procs -> Files \cup {None}] /\ temp \in [Procs -> Files \cup {None}]
    BY <1>2, Zenon DEF TypeOK
  <2> QED BY <1>4, <2>1, <2>2, <2>3, <2>4, Zenon DEF Own
<1>6. CASE file = None /\ Leaves(p, "NotFound") /\ seen' = seen
  <2>1. CASE Kind(p) # "anchored"
    <3>1. Says(p, "NotFound") /\ "NotFound" \in Errors
      BY <1>3, <1>6, Zenon DEF Says, Errors
    <3>2. Still(p)
      BY <1>6, <2>1, Zenon DEF Still, Open, fileVars, dirVars
    <3> QED BY <1>1, <1>4, <1>6, <3>1, <3>2, LeaveKept, Zenon
  <2>2. CASE Kind(p) = "anchored"
    <3>1. Tells(p, "NotFound") /\ "NotFound" \in Errors
      BY <1>6, <2>2, Zenon DEF Leaves, Writers, Errors
    <3>2. Answers(p, "NotFound") /\ SameControl(p)
      BY <1>2, <3>1, Goings, Zenon
    <3>3. ControlOK'
      BY <1>2, <3>1, GoingsType, Zenon
    <3>4. pc'[p] = "told" /\ res'[p] = "NotFound" /\ Kind(p)' = Kind(p)
      BY <1>4, <2>2, <3>2, Zenon DEF Answers, Kind
    <3>5. /\ "told" \notin Replacing \cup Coming \cup Inside
          /\ "told" \notin {"lock", "created", "syncdir", "drop", "exists", "stat", "open", "fstat", "decode",
                            "recheck", "remove"}
      BY Zenon DEF Inside, Coming, Replacing
    <3>6. PlaceInv(p)'
      BY <1>2, <1>4, <3>4, <3>5, Zenon DEF PlaceInv
    <3>7. HoldInv(p)' /\ TempInv(p)'
      BY <3>4, <3>5, Zenon DEF HoldInv, TempInv
    <3>8. LookInv(p)' /\ StatusInv(p)'
      BY <2>2, <3>4, Zenon DEF LookInv, Looking, StatusInv
    <3>9. ProcInv(p)'
      BY <3>6, <3>7, <3>8, Zenon DEF ProcInv
    <3> QED BY <1>1, <1>5, <3>2, <3>3, <3>4, <3>5, <3>9, OwnKept, Zenon
  <2> QED BY <2>1, <2>2, Zenon
<1>7. CASE file # None /\ seen' = [seen EXCEPT ![p] = file] /\ Goes(p)
  <2>1. Jumps(p, "fstat")
    BY <1>1, <1>2, <1>7, Onward, Zenon DEF Goes
  <2>2. "fstat" \in Points \ {"told", "drop"} /\ "fstat" \notin Replacing
    BY Zenon DEF Points, Replacing
  <2>3. seen'[p] = file /\ file \in Files
    BY <1>2, <1>7, Zenon DEF TypeOK
  <2>4. ASSUME pc'[p] = "fstat", Kind(p)' = Kind(p)
        PROVE  PlaceInv(p)' /\ HoldInv(p)' /\ TempInv(p)' /\ LookInv(p)'
    <3>1. PlaceInv(p)'
      BY <1>1, <1>2, <1>4, <2>2, <2>4, Zenon DEF PlaceInv
    <3>2. HoldInv(p)'
      BY <1>1, <1>2, <1>4, <2>2, <2>3, <2>4, Zenon DEF HoldInv
    <3>3. TempInv(p)' /\ LookInv(p)'
      BY <1>3, <1>4, <2>2, <2>3, <2>4, Zenon DEF TempInv, LookInv, Looking
    <3> QED BY <3>1, <3>2, <3>3, Zenon
  <2> QED BY <1>1, <1>5, <2>1, <2>2, <2>4, OwnGoes, Zenon
<1> QED BY <1>6, <1>7, Zenon DEF Open

(* write_verified_atomic up to the sync of the temporary file. *)
LEMMA WriteKept ==
    ASSUME VaultAssumption, Inv, NEW p \in Procs, Encode(p) \/ Write(p) \/ Fsync(p)
    PROVE  Inv'
<1> DEFINE to == Successor(p)
<1>1. pc[p] \in {"encode", "write", "fsync"} /\ pc[p] \notin {"idle", "dir", "told"} /\ pc[p] \in Coming
      /\ pc[p] \in Inside /\ pc[p] \in Replacing
  BY Zenon DEF Encode, Write, Fsync, Coming, Inside, Replacing
<1>2. /\ TypeOK /\ op[p] \in Ops /\ Kind(p) \in Writers \cup Readers /\ PlaceInv(p) /\ HoldInv(p) /\ TempInv(p)
      /\ LookInv(p) /\ Kind(p) \in {"commit", "rotate"} /\ Kind(p) \in Writers
  BY <1>1, Running, Zenon DEF PlaceInv, Writers
<1>3. /\ UNCHANGED <<file, pending, dir, lock, orphan, promised, op, stat, seen, window, ops, hit, faults>>
      /\ Jumps(p, to)
  BY Zenon DEF Encode, Write, Fsync, fileVars, dirVars, NoFault, Goes
<1>4. NewKey(p) \in Keys /\ encode_profile(NewProfile(p)) \in Plaintexts /\ op[p].run \in Nat
  <2>1. NewKey(p) \in Keys
    BY <1>2, Zenon DEF NewKey, PlaceInv
  <2>2. Kind(p) = "rotate" => seen[p] \in Files
    BY <1>1, <1>2, Zenon DEF HoldInv, TypeOK
  <2>3. NewProfile(p) \in Profiles
    BY <1>2, <2>2 DEF NewProfile, PlaceInv, Files, Plaintexts
  <2> QED BY <1>2, <2>1, <2>3 DEF encode_profile, Plaintexts, Ops, VaultAssumption
<1>5. \E t \in Files : /\ temp' = [temp EXCEPT ![p] = t]
                       /\ t.id = op[p].run /\ t.aad = This /\ t.key = NewKey(p)
                       /\ t.text = encode_profile(NewProfile(p))
                       /\ to \in {"fsync", "verify"} => t.whole
                       /\ to = "verify" => t.synced
  <2>1. CASE Encode(p)
    <3> DEFINE t == encode_vault(op[p].run, NewKey(p), NewProfile(p))
    <3>1. /\ t \in Files /\ t.id = op[p].run /\ t.aad = This /\ t.key = NewKey(p)
          /\ t.text = encode_profile(NewProfile(p))
      BY <1>4 DEF encode_vault, Files, associated_data, VaultAssumption
    <3>2. temp' = [temp EXCEPT ![p] = t] /\ to = "write"
      BY <1>2, <2>1, Onward, Zenon DEF Encode
    <3> HIDE DEF t
    <3> QED BY <3>1, <3>2, Zenon
  <2>2. CASE Write(p)
    <3>1. /\ pc[p] = "write" /\ temp' = [temp EXCEPT ![p] = [temp[p] EXCEPT !.whole = TRUE]]
          /\ temp[p] \in Files /\ temp[p].id = op[p].run /\ temp[p].aad = This
          /\ temp[p].key = NewKey(p) /\ temp[p].text = encode_profile(NewProfile(p))
      BY <1>1, <1>2, <2>2, Zenon DEF Write, TempInv
    <3>2. to = "fsync"
      BY <1>2, <3>1, Onward, Zenon
    <3> DEFINE t == [temp[p] EXCEPT !.whole = TRUE]
    <3>3. /\ t \in Files /\ t.id = op[p].run /\ t.aad = This /\ t.key = NewKey(p)
          /\ t.text = encode_profile(NewProfile(p)) /\ t.whole
      BY <3>1 DEF Files
    <3> HIDE DEF t
    <3>4. temp' = [temp EXCEPT ![p] = t]
      BY <3>1 DEF t
    <3> QED BY <3>2, <3>3, <3>4, Zenon
  <2>3. CASE Fsync(p)
    <3>1. /\ pc[p] = "fsync" /\ temp' = [temp EXCEPT ![p] = [temp[p] EXCEPT !.synced = TRUE]]
          /\ temp[p] \in Files /\ temp[p].id = op[p].run /\ temp[p].aad = This /\ temp[p].whole
          /\ temp[p].key = NewKey(p) /\ temp[p].text = encode_profile(NewProfile(p))
      BY <1>1, <1>2, <2>3, Zenon DEF Fsync, TempInv
    <3>2. to = "verify"
      BY <1>2, <3>1, Onward, Zenon
    <3> DEFINE t == [temp[p] EXCEPT !.synced = TRUE]
    <3>3. /\ t \in Files /\ t.id = op[p].run /\ t.aad = This /\ t.key = NewKey(p)
          /\ t.text = encode_profile(NewProfile(p)) /\ t.synced /\ t.whole
      BY <3>1 DEF Files
    <3> HIDE DEF t
    <3>4. temp' = [temp EXCEPT ![p] = t]
      BY <3>1 DEF t
    <3> QED BY <3>2, <3>3, <3>4, Zenon
  <2> QED BY <2>1, <2>2, <2>3, Zenon
<1>6. to \in {"write", "fsync", "verify"}
  BY <1>1, <1>2, Onward, Zenon
<1> HIDE DEF to
<1>7. /\ to \in Points \ {"told", "drop"} /\ to \in Replacing /\ to \in Inside
      /\ to \notin {"rename", "encode", "remove"}
  BY <1>6, Zenon DEF Points, Replacing, Inside
<1>8. PICK t \in Files : /\ temp' = [temp EXCEPT ![p] = t]
                         /\ t.id = op[p].run /\ t.aad = This /\ t.key = NewKey(p)
                         /\ t.text = encode_profile(NewProfile(p))
                         /\ to \in {"fsync", "verify"} => t.whole
                         /\ to = "verify" => t.synced
  BY <1>5, Zenon
<1>9. temp'[p] = t /\ NewKey(p)' = NewKey(p) /\ NewProfile(p)' = NewProfile(p)
  BY <1>2, <1>3, <1>8, Zenon DEF TypeOK, NewKey, NewProfile, Kind
<1>10. Own(p)
  BY <1>2, <1>3, <1>8, Zenon DEF Own, TypeOK
<1>11. ASSUME pc'[p] = to, Kind(p)' = Kind(p)
       PROVE  PlaceInv(p)' /\ HoldInv(p)' /\ TempInv(p)' /\ LookInv(p)'
  <2>1. PlaceInv(p)'
    BY <1>2, <1>3, <1>6, <1>11, Zenon DEF PlaceInv
  <2>2. HoldInv(p)'
    BY <1>1, <1>2, <1>3, <1>6, <1>7, <1>11, Zenon DEF HoldInv
  <2>3. TempInv(p)'
    BY <1>3, <1>7, <1>8, <1>9, <1>11, Zenon DEF TempInv, encode_profile
  <2>4. LookInv(p)'
    BY <1>1, <1>2, <1>3, <1>6, <1>11, Zenon DEF LookInv, Looking
  <2> QED BY <2>1, <2>2, <2>3, <2>4, Zenon
<1> QED BY <1>1, <1>3, <1>7, <1>10, <1>11, OwnGoes, Zenon

(* The owner of the lock gives the name to a new file, or takes it away. *)
LEMMA NamesKept ==
    ASSUME VaultAssumption, Inv, NEW p \in Procs, NEW f \in Files \cup {None}, Names(f), Jumps(p, "syncdir"),
           pc[p] \in Coming, pc[p] \notin {"idle", "dir", "told"}, Kind(p) \in Writers, lock = p,
           f # None => f.id = op[p].run /\ f.whole /\ f.synced /\ f.aad = f.text.build,
           temp' \in [Procs -> Files \cup {None}], \A r \in Procs \ {p} : temp'[r] = temp[r],
           UNCHANGED <<dir, lock, orphan, op, stat, seen, ops, hit, faults>>
    PROVE  Inv'
<1>1. /\ TypeOK /\ FilesInv /\ PlaceInv(p) /\ dir # "absent" /\ Looking(p)
  <2>1. Looking(p)
    BY Zenon DEF Looking, Writers
  <2> QED BY <2>1, Running, Zenon DEF HoldInv, Inv
<1>2. /\ file' = f /\ pending' = pending \cup {f} /\ promised' = {}
      /\ window' = [q \in Procs |-> IF Looking(q) THEN window[q] \cup {f} ELSE window[q]]
  BY Zenon DEF Names, Notes
<1>3. Reaches(p, "syncdir") /\ SameControl(p)
  BY <1>1, Goings, Zenon
<1>4. "syncdir" \in Points \ {"told", "drop"} /\ "syncdir" \notin Coming \cup Replacing
  BY Zenon DEF Points, Coming, Replacing
<1>5. ControlOK'
  BY <1>1, <1>4, GoingsType, Zenon
<1>6. TypeOK'
  <2>1. pc' \in [Procs -> Points] /\ \A q \in Procs : pc'[q] # "idle" => pc[q] # "idle"
    BY <1>5, <1>3, Zenon DEF ControlOK, SameControl
  <2>2. window' \in [Procs -> SUBSET (Files \cup {None})]
    BY <1>1, <1>2, Zenon DEF TypeOK
  <2>3. file' \in Files \cup {None} /\ pending' \subseteq Files \cup {None} /\ promised' \subseteq Files \cup {None}
    BY <1>1, <1>2, Zenon DEF TypeOK
  <2> QED BY <1>1, <1>5, <2>1, <2>2, <2>3, Zenon DEF TypeOK, ControlOK
<1>7. f # None => \A r \in Procs : f \notin window[r]
  <2>1. \A r \in Procs : f # None /\ f \in window[r] => Known(f) /\ f \in Files
    BY Zenon DEF Known
  <2> QED BY <2>1, Zenon DEF Inv, RunInv
<1>8. Frame(p)
  BY <1>2, <1>3, <1>7, Zenon DEF Frame, SameControl
<1>9. FilesInv'
  BY <1>1, <1>2, Zenon DEF FilesInv
<1>10. RunInv'
  <2>1. \A g \in Files : Known(g)' => Known(g) \/ g = f
    BY <1>2, Zenon DEF Known
  <2>2. \A g \in Files : Known(g)' => g # None
    BY Zenon DEF Known
  <2>3. pc'[p] \notin Coming
    BY <1>3, <1>4, Zenon DEF Reaches
  <2> QED BY <1>3, <2>1, <2>2, <2>3, RunKept, Zenon DEF SameControl
<1>11. ProcInv(p)'
  <2>1. pc'[p] = "syncdir" /\ Kind(p)' = Kind(p) /\ op'[p] = op[p] /\ file' \in window'[p] /\ Kind(p) # "anchored"
    BY <1>1, <1>2, <1>3, Zenon DEF Reaches, Kind, Writers
  <2>2. PlaceInv(p)'
    BY <1>1, <1>4, <2>1, Zenon DEF PlaceInv
  <2>3. HoldInv(p)' /\ TempInv(p)'
    BY <1>1, <1>4, <2>1, Zenon DEF HoldInv, TempInv
  <2>4. LookInv(p)' /\ StatusInv(p)'
    BY <1>1, <2>1, Zenon DEF LookInv, StatusInv
  <2> QED BY <2>2, <2>3, <2>4, Zenon DEF ProcInv
<1> QED BY <1>6, <1>8, <1>9, <1>10, <1>11, Together, Zenon

LEMMA RenameKept ==
    ASSUME VaultAssumption, Inv, NEW p \in Procs, Rename(p)
    PROVE  Inv'
<1>1. pc[p] = "rename" /\ pc[p] \notin {"idle", "dir", "told"} /\ pc[p] \in Coming /\ pc[p] \in Inside
      /\ pc[p] \in Replacing \ {"encode"}
  BY Zenon DEF Rename, Coming, Inside, Replacing
<1>2. /\ TypeOK /\ Kind(p) \in Writers \cup Readers /\ HoldInv(p) /\ TempInv(p)
      /\ Kind(p) \in {"commit", "rotate"} /\ Kind(p) \in Writers
  BY <1>1, Running, Zenon DEF PlaceInv, Writers
<1>3. /\ temp[p] \in Files /\ temp[p].id = op[p].run /\ temp[p].whole /\ temp[p].synced
      /\ temp[p].aad = temp[p].text.build
  <2>1. encode_profile(NewProfile(p)).build = This
    BY DEF encode_profile
  <2> QED BY <1>1, <1>2, <2>1, Zenon DEF TempInv
<1>4. Jumps(p, "syncdir") /\ lock = p
  BY <1>1, <1>2, Onward, Zenon DEF Rename, Goes, HoldInv
<1>5. temp' \in [Procs -> Files \cup {None}] /\ \A r \in Procs \ {p} : temp'[r] = temp[r]
  BY <1>2, Zenon DEF Rename, TypeOK
<1> QED BY <1>1, <1>2, <1>3, <1>4, <1>5, NamesKept, Zenon DEF Rename, dirVars, NoFault

LEMMA RemoveKept ==
    ASSUME VaultAssumption, Inv, NEW p \in Procs, Remove(p)
    PROVE  Inv'
<1>1. pc[p] = "remove" /\ pc[p] \notin {"idle", "dir", "told"} /\ pc[p] \in Coming /\ pc[p] \in Inside
  BY Zenon DEF Remove, Coming, Inside
<1>2. /\ TypeOK /\ Kind(p) \in Writers \cup Readers /\ HoldInv(p)
      /\ Kind(p) \in {"delete", "reset"} /\ Kind(p) \in Writers
  BY <1>1, Running, Zenon DEF PlaceInv, Writers
<1>3. CASE Names(None) /\ Goes(p)
  <2>1. Jumps(p, "syncdir") /\ lock = p
    BY <1>1, <1>2, <1>3, Onward, Zenon DEF Goes, HoldInv
  <2> QED BY <1>1, <1>2, <1>3, <2>1, NamesKept, Zenon DEF Remove, dirVars, procVars, NoFault, TypeOK
<1>4. CASE Leaves(p, "NotFound") /\ UNCHANGED <<fileVars, window, promised>>
  <2>1. Still(p) /\ lock' = lock /\ dir' = dir
    BY <1>4, Zenon DEF Still, Remove, fileVars, dirVars, procVars
  <2>2. Says(p, "NotFound") /\ "NotFound" \in Errors
    BY <1>2, Zenon DEF Says, Errors
  <2> QED BY <1>1, <1>4, <2>1, <2>2, LeaveKept, Zenon
<1> QED BY <1>3, <1>4, Zenon DEF Remove

LEMMA SyncKept ==
    ASSUME VaultAssumption, Inv, NEW p \in Procs, sync_directory(p)
    PROVE  Inv'
<1>1. pc[p] = "syncdir" /\ pc[p] \notin {"idle", "dir", "told"} /\ pc[p] \in Inside
  BY Zenon DEF sync_directory, Inside
<1>2. /\ TypeOK /\ FilesInv /\ HoldInv(p) /\ LookInv(p) /\ ProcInv(p) /\ Kind(p) \in Writers /\ lock = p
  BY <1>1, Running, Zenon DEF PlaceInv, HoldInv, Inv
<1>3. /\ pending' = {file} /\ UNCHANGED <<file, dir, lock, orphan, op, stat, seen, temp, window, promised, ops, hit, faults>>
      /\ Drops(p, "ok") /\ SameControl(p)
  BY <1>2, Goings, Zenon DEF sync_directory, dirVars, procVars, NoFault
<1>4. ControlOK'
  BY <1>2, GoingsType, Zenon DEF sync_directory
<1>5. Looking(p) /\ file \in window[p]
  BY <1>1, <1>2, Zenon DEF Looking, Writers, LookInv
<1>6. ProcInv(p)'
  BY <1>1, <1>2, <1>3, <1>5, DropInv, Zenon
<1>7. TypeOK'
  <2>1. pc' \in [Procs -> Points] /\ \A q \in Procs : pc'[q] # "idle" => pc[q] # "idle"
    BY <1>1, <1>3, <1>4, Zenon DEF ControlOK, SameControl
  <2> QED BY <1>2, <1>3, <1>4, <2>1, Zenon DEF TypeOK, ControlOK
<1>8. \A r \in Procs : Looking(r) => window[r] = window[r] \cup {file}
  <2>1. \A r \in Procs : Looking(r) => file \in window[r]
    BY Zenon DEF Inv, ProcInv, LookInv, Looking
  <2> QED BY <2>1, Zenon
<1>9. Frame(p)
  BY <1>2, <1>3, <1>8, Zenon DEF Frame, SameControl
<1>10. FilesInv'
  BY <1>2, <1>3, Zenon DEF FilesInv, HoldInv
<1>11. RunInv'
  <2>1. \A f : Known(f)' => Known(f)
    BY <1>2, <1>3, Zenon DEF Known, FilesInv
  <2>2. pc'[p] \notin Coming
    BY <1>3, Zenon DEF Drops, Coming, Replacing
  <2> QED BY <1>1, <1>3, <2>1, <2>2, RunKept, Zenon DEF SameControl
<1> QED BY <1>6, <1>7, <1>9, <1>10, <1>11, Together, Zenon

LEMMA DropKept ==
    ASSUME VaultAssumption, Inv, NEW p \in Procs, Drop(p)
    PROVE  Inv'
<1>1. pc[p] = "drop" /\ pc[p] \notin {"idle", "dir", "told"} /\ pc[p] \in Inside
  BY Zenon DEF Drop, Inside
<1>2. /\ TypeOK /\ FilesInv /\ PlaceInv(p) /\ HoldInv(p) /\ ProcInv(p) /\ Kind(p) \in Writers /\ lock = p
  BY <1>1, Running, Zenon DEF PlaceInv, HoldInv, Inv
<1>3. /\ pc' = [pc EXCEPT ![p] = "told"] /\ temp' = [temp EXCEPT ![p] = None] /\ res' = res
      /\ UNCHANGED <<file, pending, dir, op, stat, seen, window, ops>>
      /\ lock' \in {None, Left}
      /\ promised' = IF res[p] = "ok" THEN {file} ELSE promised
  BY Zenon DEF Drop, fileVars
<1>4. /\ hit' \in [Procs -> BOOLEAN] /\ faults' \in Nat /\ orphan' \in BOOLEAN
      /\ \A r \in Procs \ {p} : hit'[r] = hit[r]
  <2>1. hit \in [Procs -> BOOLEAN] /\ faults \in Nat /\ orphan \in BOOLEAN
    BY <1>2, Zenon DEF TypeOK
  <2>2. CASE orphan' = orphan /\ NoFault
    BY <2>1, <2>2, Zenon DEF NoFault
  <2>3. CASE orphan' = (orphan \/ temp[p] # None) /\ Fault(p)
    <3>1. faults' \in Nat
      BY <2>1, <2>3 DEF Fault
    <3> QED BY <2>1, <2>3, <3>1, Zenon DEF Fault
  <2> QED BY <2>2, <2>3, Zenon DEF Drop
<1>5. TypeOK'
  <2>1. pc' \in [Procs -> Points] /\ \A q \in Procs : pc'[q] # "idle" => pc[q] # "idle"
    BY <1>1, <1>2, <1>3, Zenon DEF TypeOK, Points
  <2>2. temp' \in [Procs -> Files \cup {None}] /\ promised' \subseteq Files \cup {None}
    BY <1>2, <1>3, Zenon DEF TypeOK
  <2>3. \A q \in Procs : pc'[q] \in {"drop", "told"} => res'[q] # "none"
    BY <1>1, <1>2, <1>3, Zenon DEF TypeOK
  <2>4. lock' \in Procs \cup {None, Left}
    BY <1>3, Zenon
  <2> QED BY <1>2, <1>3, <1>4, <2>1, <2>2, <2>3, <2>4, Zenon DEF TypeOK
<1>6. pc'[p] = "told" /\ \A r \in Procs \ {p} : pc'[r] = pc[r] /\ temp'[r] = temp[r]
  BY <1>2, <1>3, Zenon DEF TypeOK
<1>7. Frame(p)
  <2>1. \A r \in Procs : Looking(r) => window[r] = window[r] \cup {file}
    <3>1. \A r \in Procs : Looking(r) => file \in window[r]
      BY Zenon DEF Inv, ProcInv, LookInv, Looking
    <3> QED BY <3>1, Zenon
  <2> QED BY <1>2, <1>3, <1>4, <1>6, <2>1, Zenon DEF Frame
<1>8. FilesInv'
  BY <1>1, <1>2, <1>3, Zenon DEF FilesInv, HoldInv
<1>9. RunInv'
  <2>1. \A f : Known(f)' => Known(f)
    BY <1>3, Zenon DEF Known
  <2>2. pc'[p] \notin Coming
    BY <1>6, Zenon DEF Coming, Replacing
  <2> QED BY <1>1, <1>3, <1>6, <2>1, <2>2, RunKept, Zenon
<1>10. ProcInv(p)'
  <2>1. Kind(p)' = Kind(p) /\ op'[p] = op[p] /\ Kind(p) \notin {"anchored", "status"}
    BY <1>2, <1>3, Zenon DEF Kind, Writers
  <2>2. "told" \notin Replacing \cup Inside
    BY Zenon DEF Replacing, Inside
  <2>3. PlaceInv(p)'
    BY <1>2, <1>6, <2>1, <2>2, Zenon DEF PlaceInv
  <2>4. HoldInv(p)' /\ TempInv(p)'
    BY <1>6, <2>2, Zenon DEF HoldInv, TempInv
  <2>5. LookInv(p)' /\ StatusInv(p)'
    BY <1>6, <2>1, Zenon DEF LookInv, StatusInv, Looking
  <2> QED BY <2>3, <2>4, <2>5, Zenon DEF ProcInv
<1> QED BY <1>5, <1>7, <1>8, <1>9, <1>10, Together, Zenon

-----------------------------------------------------------------------------
(* Processes that are gone: after their answer, killed, or with the power. *)
LEMMA Forgotten ==
    ASSUME TypeOK, RunInv, NEW S \in SUBSET Procs, Forgets(S), ops' = ops, pending' \subseteq pending
    PROVE  /\ RunInv'
           /\ pc' \in [Procs -> Points]
           /\ op' \in [Procs -> Ops \cup {None}] /\ \A p \in Procs : pc'[p] # "idle" => op'[p] \in Ops
           /\ stat' \in [Procs -> Files \cup {None}] /\ seen' \in [Procs -> Files \cup {None}]
           /\ temp' \in [Procs -> Files \cup {None}]
           /\ res' \in [Procs -> Errors \cup Statuses \cup {"none", "ok"}]
           /\ \A p \in Procs : pc'[p] \in {"drop", "told"} => res'[p] # "none"
           /\ window' \in [Procs -> SUBSET (Files \cup {None})] /\ hit' \in [Procs -> BOOLEAN]
<1>1. /\ \A p \in S : pc'[p] = "idle"
      /\ \A p \in Procs \ S : /\ pc'[p] = pc[p] /\ op'[p] = op[p] /\ res'[p] = res[p]
                              /\ window'[p] = window[p]
      /\ \A p \in S : window'[p] = {}
  BY Zenon DEF Forgets
<1>2. RunInv'
  <2>1. \A f : Known(f)' => Known(f)
    BY <1>1, Zenon DEF Known
  <2>2. "idle" \notin Coming
    BY Zenon DEF Coming, Replacing
  <2>3. \A p \in Procs : pc'[p] # "idle" => pc[p] = pc'[p] /\ op'[p] = op[p]
    BY <1>1, Zenon
  <2>4. \A p \in Procs : pc'[p] # "idle" => op'[p].run <= ops'
    BY <2>3, Zenon DEF RunInv
  <2>5. \A p \in Procs, q \in Procs : p # q /\ pc'[p] # "idle" /\ pc'[q] # "idle" => op'[p].run # op'[q].run
    BY <2>3, Zenon DEF RunInv
  <2>6. \A f \in Files : Known(f)' => f.id <= ops'
    BY <2>1, Zenon DEF RunInv
  <2>7. \A p \in Procs, f \in Files : pc'[p] \in Coming /\ Known(f)' => f.id # op'[p].run
    BY <2>1, <2>2, <2>3, Zenon DEF RunInv
  <2> QED BY <2>4, <2>5, <2>6, <2>7, Zenon DEF RunInv
<1>3. pc' \in [Procs -> Points]
  BY Zenon DEF Forgets, TypeOK, Points
<1>4. op' \in [Procs -> Ops \cup {None}]
  BY Zenon DEF Forgets, TypeOK
<1>5. \A p \in Procs : pc'[p] # "idle" => op'[p] \in Ops
  BY <1>1, Zenon DEF TypeOK
<1>6. stat' \in [Procs -> Files \cup {None}]
  BY Zenon DEF Forgets, TypeOK
<1>7. seen' \in [Procs -> Files \cup {None}]
  BY Zenon DEF Forgets, TypeOK
<1>8. temp' \in [Procs -> Files \cup {None}]
  BY Zenon DEF Forgets, TypeOK
<1>9. res' \in [Procs -> Errors \cup Statuses \cup {"none", "ok"}]
  BY Zenon DEF Forgets, TypeOK
<1>10. \A p \in Procs : pc'[p] \in {"drop", "told"} => res'[p] # "none"
  BY <1>1, Zenon DEF TypeOK
<1>11. window' \in [Procs -> SUBSET (Files \cup {None})]
  BY Zenon DEF Forgets, TypeOK
<1>12. hit' \in [Procs -> BOOLEAN]
  BY Zenon DEF Forgets, TypeOK
<1> QED BY <1>2, <1>3, <1>4, <1>5, <1>6, <1>7, <1>8, <1>9, <1>10, <1>11, <1>12, Zenon

LEMMA GoneKept ==
    ASSUME VaultAssumption, Inv, NEW p \in Procs, Forgets({p}), ops' = ops, dir' = dir,
           UNCHANGED <<file, pending, promised>>, lock' = lock \/ (lock = p /\ lock' = Left),
           orphan' \in BOOLEAN, faults' \in Nat
    PROVE  Inv'
<1>1. TypeOK /\ FilesInv /\ RunInv /\ {p} \in SUBSET Procs
  BY Zenon DEF Inv
<1>2. TypeOK' /\ RunInv'
  <2>1. pending' \subseteq pending
    BY Zenon
  <2>2. lock' \in Procs \cup {None, Left}
    BY <1>1, Zenon DEF TypeOK
  <2> QED BY <1>1, <2>1, <2>2, Forgotten, Zenon DEF TypeOK
<1>3. FilesInv'
  BY <1>1, Zenon DEF FilesInv
<1>4. pc'[p] = "idle"
  BY Zenon DEF Forgets
<1>5. Frame(p)
  <2>1. \A r \in Procs : Looking(r) => window[r] = window[r] \cup {file}
    <3>1. \A r \in Procs : Looking(r) => file \in window[r]
      BY Zenon DEF Inv, ProcInv, LookInv, Looking
    <3> QED BY <3>1, Zenon
  <2>2. \A r \in Procs \ {p} :
          /\ pc'[r] = pc[r] /\ op'[r] = op[r] /\ stat'[r] = stat[r] /\ seen'[r] = seen[r]
          /\ temp'[r] = temp[r] /\ res'[r] = res[r] /\ hit'[r] = hit[r] /\ window'[r] = window[r]
    BY Zenon DEF Forgets
  <2> QED BY <2>1, <2>2, Zenon DEF Frame
<1>6. ProcInv(p)'
  BY <1>4, Zenon DEF ProcInv
<1> QED BY <1>2, <1>3, <1>5, <1>6, Together, Zenon

LEMMA EndKept ==
    ASSUME VaultAssumption, Inv, NEW p \in Procs, End(p)
    PROVE  Inv'
<1>1. orphan' \in BOOLEAN /\ faults' \in Nat /\ dir' = dir /\ lock' = lock
  BY Zenon DEF End, Inv, TypeOK, dirVars
<1> QED BY <1>1, GoneKept, Zenon DEF End, fileVars, dirVars

LEMMA KillKept ==
    ASSUME VaultAssumption, Inv, NEW p \in Procs, Kill(p)
    PROVE  Inv'
<1>1. faults \in Nat /\ orphan \in BOOLEAN
  BY Zenon DEF Inv, TypeOK
<1>2. faults' \in Nat
  BY <1>1 DEF Kill
<1>3. orphan' \in BOOLEAN
  BY <1>1, Zenon DEF Kill
<1> QED BY <1>2, <1>3, GoneKept, Zenon DEF Kill, fileVars

(* Every file that may survive is synced, so a power loss leaves one of    *)
(* them as it is.                                                          *)
LEMMA PowerLossKept ==
    ASSUME VaultAssumption, Inv, PowerLoss
    PROVE  Inv'
<1>1. TypeOK /\ FilesInv /\ RunInv /\ Procs \in SUBSET Procs /\ Forgets(Procs)
  BY Zenon DEF Inv, PowerLoss
<1>2. file' \in pending /\ pending' = {file'} /\ UNCHANGED <<dir, promised, ops>>
  BY <1>1, Zenon DEF PowerLoss, FilesInv
<1>3. faults' \in Nat
  <2>1. faults \in Nat
    BY <1>1, Zenon DEF TypeOK
  <2> QED BY <2>1 DEF PowerLoss
<1>4. lock' \in Procs \cup {None, Left} /\ orphan' \in BOOLEAN
  BY <1>1, Zenon DEF PowerLoss, TypeOK
<1>5. file' \in Files \cup {None} /\ pending' \subseteq pending /\ pending' \subseteq Files \cup {None}
  BY <1>1, <1>2, Zenon DEF TypeOK
<1>6. TypeOK' /\ RunInv'
  BY <1>1, <1>2, <1>3, <1>4, <1>5, Forgotten, Zenon DEF TypeOK
<1>7. FilesInv'
  BY <1>1, <1>2, Zenon DEF FilesInv
<1>8. \A p \in Procs : ProcInv(p)'
  BY <1>1, Zenon DEF Forgets, ProcInv
<1> QED BY <1>6, <1>7, <1>8, Zenon DEF Inv

LEMMA BeginKept ==
    ASSUME VaultAssumption, Inv, NEW p \in Procs, Begin(p)
    PROVE  Inv'
<1>1. TypeOK /\ FilesInv /\ RunInv /\ pc[p] = "idle" /\ ops' = ops + 1 /\ ops \in Nat
  BY Zenon DEF Inv, TypeOK, Begin
<1>2. PICK k \in Kinds, a \in Keys \cup {None}, b \in Keys \cup {None}, d \in Profiles \cup {None} :
          /\ a = None => k \in {"status", "reset"}
          /\ k = "reset" => a = None
          /\ (b # None) <=> (k = "rotate")
          /\ (d # None) <=> (k = "commit")
          /\ op' = [op EXCEPT ![p] = [kind |-> k, key |-> a, new |-> b, prof |-> d, run |-> ops + 1]]
  BY Zenon DEF Begin
<1> DEFINE o == [kind |-> k, key |-> a, new |-> b, prof |-> d, run |-> ops + 1]
<1>3. /\ o \in Ops /\ o.run = ops + 1 /\ o.kind = k /\ o.key = a /\ o.new = b /\ o.prof = d
  BY <1>1 DEF Ops, VaultAssumption
<1>4. op' = [op EXCEPT ![p] = o]
  BY <1>2, Zenon
<1> HIDE DEF o
<1>5. /\ window' = [window EXCEPT ![p] = {file}] /\ pc' = [pc EXCEPT ![p] = "dir"] /\ res' = res
      /\ UNCHANGED <<file, pending, dir, lock, orphan, stat, seen, temp, promised, hit, faults>>
  BY Zenon DEF Begin, Jumps, NoFault, fileVars, dirVars
<1>6. /\ pc'[p] = "dir" /\ op'[p] = o /\ window'[p] = {file}
      /\ \A r \in Procs \ {p} : pc'[r] = pc[r] /\ op'[r] = op[r] /\ window'[r] = window[r]
  BY <1>1, <1>4, <1>5, Zenon DEF TypeOK
<1>7. TypeOK'
  <2>1. ops' \in Nat
    BY <1>1
  <2>2. pc' \in [Procs -> Points]
    BY <1>1, <1>5, Zenon DEF TypeOK, Points
  <2>3. op' \in [Procs -> Ops \cup {None}] /\ \A q \in Procs : pc'[q] # "idle" => op'[q] \in Ops
    <3>1. op' \in [Procs -> Ops \cup {None}]
      BY <1>1, <1>3, <1>4, Zenon DEF TypeOK
    <3> QED BY <1>1, <1>3, <1>6, <3>1, Zenon DEF TypeOK
  <2>4. window' \in [Procs -> SUBSET (Files \cup {None})]
    BY <1>1, <1>5, Zenon DEF TypeOK
  <2>5. \A q \in Procs : pc'[q] \in {"drop", "told"} => res'[q] # "none"
    BY <1>1, <1>5, <1>6, Zenon DEF TypeOK
  <2> QED BY <1>1, <1>5, <2>1, <2>2, <2>3, <2>4, <2>5, Zenon DEF TypeOK
<1>8. FilesInv'
  BY <1>1, <1>5, Zenon DEF FilesInv
<1>9. RunInv'
  <2>1. \A f : Known(f)' => Known(f)
    BY <1>1, <1>5, <1>6, Zenon DEF Known, FilesInv
  <2>2. \A n \in Nat : n <= ops => n <= ops' /\ n # ops + 1
    BY <1>1
  <2>3. ops + 1 <= ops'
    BY <1>1
  <2>4. \A r \in Procs \ {p} : pc'[r] # "idle" => op'[r].run \in Nat /\ op'[r].run <= ops /\ op'[r] = op[r]
    <3>1. \A x \in Ops : x.run \in Nat
      BY DEF Ops
    <3> QED BY <1>1, <1>6, <3>1, Zenon DEF RunInv, TypeOK
  <2>5. op'[p].run = ops + 1
    BY <1>3, <1>6, Zenon
  <2>6. \A f \in Files : Known(f)' => f.id \in Nat /\ f.id <= ops
    <3>1. \A f \in Files : f.id \in Nat
      BY DEF Files
    <3> QED BY <1>1, <2>1, <3>1, Zenon DEF RunInv
  <2>7. \A r \in Procs : pc'[r] # "idle" => op'[r].run <= ops'
    BY <2>2, <2>3, <2>4, <2>5, Zenon
  <2>8. \A r \in Procs, q \in Procs : r # q /\ pc'[r] # "idle" /\ pc'[q] # "idle" => op'[r].run # op'[q].run
    <3>1. SUFFICES ASSUME NEW r \in Procs, NEW q \in Procs, r # q, pc'[r] # "idle", pc'[q] # "idle"
                   PROVE  op'[r].run # op'[q].run
      BY Zenon
    <3>2. CASE r = p
      BY <2>2, <2>4, <2>5, <3>1, <3>2, Zenon
    <3>3. CASE q = p
      BY <2>2, <2>4, <2>5, <3>1, <3>3, Zenon
    <3>4. CASE r # p /\ q # p
      BY <1>1, <1>6, <3>1, <3>4, Zenon DEF RunInv
    <3> QED BY <3>2, <3>3, <3>4, Zenon
  <2>9. \A f \in Files : Known(f)' => f.id <= ops'
    BY <2>2, <2>6, Zenon
  <2>10. \A r \in Procs, f \in Files : pc'[r] \in Coming /\ Known(f)' => f.id # op'[r].run
    <3>1. SUFFICES ASSUME NEW r \in Procs, NEW f \in Files, pc'[r] \in Coming, Known(f)'
                   PROVE  f.id # op'[r].run
      BY Zenon
    <3>2. CASE r = p
      BY <2>2, <2>5, <2>6, <3>1, <3>2, Zenon
    <3>3. CASE r # p
      BY <1>1, <1>6, <2>1, <3>1, <3>3, Zenon DEF RunInv
    <3> QED BY <3>2, <3>3, Zenon
  <2> QED BY <2>7, <2>8, <2>9, <2>10, Zenon DEF RunInv
<1>10. Frame(p)
  <2>1. \A r \in Procs : Looking(r) => window[r] = window[r] \cup {file}
    <3>1. \A r \in Procs : Looking(r) => file \in window[r]
      BY Zenon DEF Inv, ProcInv, LookInv, Looking
    <3> QED BY <3>1, Zenon
  <2> QED BY <1>5, <1>6, <2>1, Zenon DEF Frame
<1>11. ProcInv(p)'
  <2>1. Kind(p)' = k /\ op'[p].key = a /\ op'[p].new = b /\ op'[p].prof = d /\ file' \in window'[p]
    BY <1>3, <1>5, <1>6, Zenon DEF Kind
  <2>2. "dir" \notin Replacing \cup Inside
    BY Zenon DEF Replacing, Inside
  <2>3. PlaceInv(p)'
    BY <1>2, <1>6, <2>1, <2>2, Zenon DEF PlaceInv
  <2>4. HoldInv(p)' /\ TempInv(p)'
    BY <1>6, <2>2, Zenon DEF HoldInv, TempInv
  <2>5. LookInv(p)' /\ StatusInv(p)'
    BY <1>6, <2>1, Zenon DEF LookInv, StatusInv
  <2> QED BY <2>3, <2>4, <2>5, Zenon DEF ProcInv
<1> QED BY <1>7, <1>8, <1>9, <1>10, <1>11, Together, Zenon

-----------------------------------------------------------------------------
LEMMA InitInv ==
    ASSUME VaultAssumption, Init
    PROVE  Inv
<1>1. /\ pending = {file} /\ promised = {} /\ ops = 0 /\ (dir = "absent" => file = None)
      /\ \A p \in Procs : pc[p] = "idle" /\ window[p] = {}
      /\ dir \in {"absent", "safe", "unsafe"} /\ lock = None /\ orphan = FALSE /\ faults = 0
  BY DEF Init
<1>2. file # None => file \in Files /\ file.id = 0 /\ file.whole /\ file.synced /\ file.aad = file.text.build
  <2>1. SUFFICES ASSUME file # None
                 PROVE  file \in Files /\ file.id = 0 /\ file.whole /\ file.synced /\ file.aad = file.text.build
    BY Zenon
  <2>2. file \in {[id |-> 0, aad |-> b, key |-> k, text |-> [build |-> b, prof |-> d],
                   whole |-> TRUE, synced |-> TRUE] : b \in Builds, k \in Keys, d \in Profiles}
    BY <2>1 DEF Init
  <2>3. PICK b \in Builds, k \in Keys, d \in Profiles :
            file = [id |-> 0, aad |-> b, key |-> k, text |-> [build |-> b, prof |-> d],
                    whole |-> TRUE, synced |-> TRUE]
    BY <2>2
  <2> QED BY <2>3 DEF Files, Plaintexts
<1>3. /\ pc \in [Procs -> Points] /\ op \in [Procs -> Ops \cup {None}]
      /\ stat \in [Procs -> Files \cup {None}] /\ seen \in [Procs -> Files \cup {None}]
      /\ temp \in [Procs -> Files \cup {None}]
      /\ res \in [Procs -> Errors \cup Statuses \cup {"none", "ok"}]
      /\ window \in [Procs -> SUBSET (Files \cup {None})] /\ hit \in [Procs -> BOOLEAN]
  BY DEF Init, Points
<1>4. TypeOK
  <2>1. 0 \in Nat
    OBVIOUS
  <2>2. file \in Files \cup {None} /\ pending \subseteq Files \cup {None}
    BY <1>1, <1>2, Zenon
  <2> QED BY <1>1, <1>3, <2>1, <2>2, Zenon DEF TypeOK
<1>5. FilesInv
  BY <1>1, <1>2, Zenon DEF FilesInv, Init
<1>6. RunInv
  <2>1. 0 <= 0
    OBVIOUS
  <2>2. \A f : Known(f) => f = file /\ file # None
    BY <1>1, Zenon DEF Known
  <2>3. "idle" \notin Coming
    BY Zenon DEF Coming, Replacing
  <2> QED BY <1>1, <1>2, <2>1, <2>2, <2>3, Zenon DEF RunInv
<1> QED BY <1>1, <1>4, <1>5, <1>6, Zenon DEF Inv, ProcInv

LEMMA NextInv ==
    ASSUME VaultAssumption, Inv, Next
    PROVE  Inv'
<1>1. ASSUME NEW p \in Procs, Work(p) PROVE Inv'
  <2>1. CASE Directory(p) BY <2>1, DirectoryKept, Zenon
  <2>2. CASE Acquire(p) \/ AcquireTimesOut(p) BY <2>2, AcquireKept, Zenon
  <2>3. CASE LockCreated(p) BY <2>3, LockCreatedKept, Zenon
  <2>4. CASE Exists(p) BY <2>4, ExistsKept, Zenon
  <2>5. CASE Stat(p) BY <2>5, StatKept, Zenon
  <2>6. CASE Open(p) BY <2>6, OpenKept, Zenon
  <2>7. CASE Fstat(p) BY <2>7, FstatKept, Zenon
  <2>8. CASE Recheck(p) BY <2>8, RecheckKept, Zenon
  <2>9. CASE Decode(p) BY <2>9, DecodeKept, Zenon
  <2>10. CASE Encode(p) \/ Write(p) \/ Fsync(p) BY <2>10, WriteKept, Zenon
  <2>11. CASE Verify(p) BY <2>11, VerifyKept, Zenon
  <2>12. CASE Rename(p) BY <2>12, RenameKept, Zenon
  <2>13. CASE Remove(p) BY <2>13, RemoveKept, Zenon
  <2>14. CASE sync_directory(p) BY <2>14, SyncKept, Zenon
  <2>15. CASE Drop(p) BY <2>15, DropKept, Zenon
  <2>16. CASE End(p) BY <2>16, EndKept, Zenon
  <2> QED BY <1>1, <2>1, <2>2, <2>3, <2>4, <2>5, <2>6, <2>7, <2>8, <2>9, <2>10, <2>11, <2>12, <2>13,
             <2>14, <2>15, <2>16, Zenon DEF Work
<1>2. ASSUME NEW p \in Procs, Begin(p) PROVE Inv'
  BY <1>2, BeginKept, Zenon
<1>3. ASSUME NEW p \in Procs, Fails(p) PROVE Inv'
  BY <1>3, FailsKept, Zenon
<1>4. ASSUME NEW p \in Procs, Kill(p) PROVE Inv'
  BY <1>4, KillKept, Zenon
<1>5. CASE PowerLoss
  BY <1>5, PowerLossKept, Zenon
<1> QED BY <1>1, <1>2, <1>3, <1>4, <1>5, Zenon DEF Next

LEMMA StutterInv ==
    ASSUME Inv, UNCHANGED vars
    PROVE  Inv'
<1>1. UNCHANGED <<dir, file, pending, lock, orphan, pc, op, stat, seen, temp, res, window, hit, promised,
                  ops, faults>>
  BY Zenon DEF vars, fileVars, dirVars, procVars, history
<1>2. TypeOK' /\ FilesInv' /\ RunInv'
  BY <1>1, Zenon DEF Inv, TypeOK, FilesInv, RunInv, Known
<1>3. ASSUME NEW p \in Procs PROVE ProcInv(p)'
  <2>1. PlaceInv(p)' <=> PlaceInv(p)
    BY <1>1, Zenon DEF PlaceInv, Kind
  <2>2. HoldInv(p)' <=> HoldInv(p)
    BY <1>1, Zenon DEF HoldInv, Kind
  <2>3. TempInv(p)' <=> TempInv(p)
    BY <1>1, Zenon DEF TempInv, Kind, NewKey, NewProfile
  <2>4. LookInv(p)' <=> LookInv(p)
    BY <1>1, Zenon DEF LookInv, Looking, Kind
  <2>5. StatusInv(p)' <=> StatusInv(p)
    BY <1>1, Zenon DEF StatusInv, Opened, Kind
  <2> QED BY <1>1, <2>1, <2>2, <2>3, <2>4, <2>5, Zenon DEF Inv, ProcInv
<1> QED BY <1>2, <1>3, Zenon DEF Inv

(* The inductive invariant of the vault, for the whole of templates/src/   *)
(* lib.rs: only the owner of identity.lock changes the vault, what it goes *)
(* on from is what it read, and what has or may get the name is whole and  *)
(* on the disk.                                                            *)
THEOREM VaultInvariant ==
    ASSUME VaultAssumption
    PROVE  Spec => []Inv
<1>1. Init => Inv
  BY InitInv
<1>2. Inv /\ [Next]_vars => Inv'
  BY NextInv, StutterInv
<1> QED BY <1>1, <1>2, PTL DEF Spec

(* Whatever fails or is killed, and whenever the power goes: after a       *)
(* writer has reported success, its outcome is what identity.vault holds   *)
(* until another writer changes it (write_verified_atomic, sync_directory).*)
THEOREM SuccessDurable ==
    ASSUME VaultAssumption
    PROVE  Spec => []SuccessIsDurable
<1>1. Inv => SuccessIsDurable
  BY Zenon DEF Inv, FilesInv, SuccessIsDurable
<1> QED BY <1>1, VaultInvariant, PTL

(* The readers take no lock and are not misled by any number of writers:   *)
(* a status was so at some moment of the call, and an anchored snapshot is *)
(* of a file that had the name from its opening to its last comparison     *)
(* (Vault::status, open_anchored_profile_snapshot).                        *)
THEOREM ReadersNotMisled ==
    ASSUME VaultAssumption
    PROVE  Spec => []ReadersTruthful
<1>1. ASSUME Inv PROVE ReadersTruthful
  <2>1. \A p \in Procs : pc[p] = "told" => LookInv(p) /\ StatusInv(p)
    BY <1>1, Zenon DEF Inv, ProcInv
  <2>2. SnapshotUndisturbed
    BY <2>1, Zenon DEF SnapshotUndisturbed, LookInv
  <2>3. StatusTruthful
    BY <2>1, Zenon DEF StatusTruthful, StatusInv, Opened, Differ
  <2> QED BY <2>2, <2>3, Zenon DEF ReadersTruthful
<1> QED BY <1>1, VaultInvariant, PTL

-----------------------------------------------------------------------------
(* The vault implements VaultStore, step by step.                          *)
LEMMA Values ==
    ASSUME VaultAssumption, NEW f \in Files
    PROVE  /\ Value(f) \in Store!Sealed \cup {Unreadable} /\ Value(f) # None
           /\ Readable(f) => /\ Value(f) = [key |-> f.key, prof |-> f.text.prof]
                             /\ Value(f) \in Store!Sealed /\ Value(f).key = f.key
           /\ \A k : decode_vault(f, k) = "ok" => Readable(f) /\ f.key = k
<1>1. f # None /\ f.key \in Keys /\ f.text.prof \in Profiles
  BY DEF VaultAssumption, Files, Plaintexts
<1>2. [key |-> f.key, prof |-> f.text.prof] \in Store!Sealed
  BY <1>1 DEF Store!Sealed
<1>3. Readable(f) => Value(f) = [key |-> f.key, prof |-> f.text.prof]
  BY <1>1, Zenon DEF Value
<1>4. ~Readable(f) => Value(f) = Unreadable
  BY <1>1, Zenon DEF Value
<1>5. None \notin Store!Sealed \cup {Unreadable}
  BY DEF VaultAssumption, Store!Sealed
<1>6. \A k : decode_vault(f, k) = "ok" => Readable(f) /\ f.key = k
  BY Decodes, Zenon DEF Readable
<1>7. [key |-> f.key, prof |-> f.text.prof].key = f.key
  OBVIOUS
<1> QED BY <1>2, <1>3, <1>4, <1>5, <1>6, <1>7, Zenon

(* What a step sees of the store when it leaves the vault alone, names a   *)
(* file, or syncs the directory.                                           *)
LEMMA StoreSame ==
    ASSUME UNCHANGED <<file, pending>>
    PROVE  UNCHANGED Store!storeVars
  BY Zenon DEF Store!storeVars, Value, Readable

LEMMA StoreBecomes ==
    ASSUME NEW f, file' = f, pending' = pending \cup {f}
    PROVE  Store!Becomes(Value(f))
<1>1. \A g : Value(g)' = Value(g)
  BY Zenon DEF Value, Readable
<1> QED BY <1>1, Zenon DEF Store!Becomes

LEMMA RenameStores ==
    ASSUME VaultAssumption, ~ExistsFails, Inv, NEW p \in Procs, Rename(p)
    PROVE  Store!Commit \/ Store!Rotate
<1>1. /\ pc[p] = "rename" /\ pc[p] \notin {"idle", "dir", "told"}
      /\ pc[p] \in Replacing \ {"encode"} /\ pc[p] \in Replacing
  BY Zenon DEF Rename, Replacing
<1>2. /\ PlaceInv(p) /\ HoldInv(p) /\ TempInv(p) /\ TypeOK /\ Kind(p) \in {"commit", "rotate"}
  BY <1>1, Running, Zenon DEF PlaceInv
<1> DEFINE t == temp[p]
<1>3. /\ t \in Files /\ t.aad = This /\ t.key = NewKey(p) /\ t.text = encode_profile(NewProfile(p)) /\ t.whole
  BY <1>1, <1>2, Zenon DEF TempInv
<1>4. file' = t /\ pending' = pending \cup {t}
  BY Zenon DEF Rename, Names
<1> HIDE DEF t
<1>5. Store!Becomes(Value(t))
  BY <1>4, StoreBecomes, Zenon
<1>6. encode_profile(NewProfile(p)).build = This /\ encode_profile(NewProfile(p)).prof = NewProfile(p)
  BY DEF encode_profile
<1>7. Value(t) = [key |-> NewKey(p), prof |-> NewProfile(p)]
  BY <1>3, <1>6, Values, Zenon DEF Readable
<1>8. file \in Files \cup {None}
  BY <1>2, Zenon DEF TypeOK
<1>9. decode_vault(file, op[p].key) = "ok" /\ file # None =>
          /\ Store!Opens(op[p].key) /\ Value(file) = [key |-> file.key, prof |-> file.text.prof]
  BY <1>8, Values, Zenon DEF Store!Opens
<1>10. CASE Kind(p) = "commit"
  <2>1. /\ op[p].key \in Keys /\ op[p].prof \in Profiles /\ NewKey(p) = op[p].key /\ NewProfile(p) = op[p].prof
    BY <1>2, <1>10, Zenon DEF PlaceInv, NewKey, NewProfile
  <2>2. file = None => Value(file) = None
    BY Zenon DEF Value
  <2>3. Value(file) = None \/ Store!Opens(op[p].key)
    BY <1>1, <1>2, <1>9, <1>10, <2>2, Zenon DEF HoldInv
  <2> QED BY <1>5, <1>7, <2>1, <2>3, Zenon DEF Store!Commit
<1>11. CASE Kind(p) = "rotate"
  <2>1. /\ op[p].key \in Keys /\ op[p].new \in Keys /\ NewKey(p) = op[p].new
        /\ file # None /\ NewProfile(p) = file.text.prof /\ decode_vault(file, op[p].key) = "ok"
    BY <1>1, <1>2, <1>11, Zenon DEF PlaceInv, HoldInv, NewKey, NewProfile
  <2>2. [[key |-> file.key, prof |-> file.text.prof] EXCEPT !.key = op[p].new]
            = [key |-> op[p].new, prof |-> file.text.prof]
    OBVIOUS
  <2>3. [Value(file) EXCEPT !.key = op[p].new] = Value(t)
    BY <1>7, <1>9, <2>1, <2>2, Zenon
  <2> QED BY <1>5, <1>9, <2>1, <2>3, Zenon DEF Store!Rotate
<1> QED BY <1>2, <1>10, <1>11, Zenon

LEMMA RemoveStores ==
    ASSUME VaultAssumption, Inv, NEW p \in Procs, Remove(p)
    PROVE  \/ Kind(p) = "delete" /\ Store!Delete
           \/ Kind(p) = "reset" /\ Store!Reset
           \/ UNCHANGED Store!storeVars
<1>1. CASE UNCHANGED <<file, pending>>
  BY <1>1, StoreSame, Zenon
<1>2. CASE file # None /\ Names(None)
  <2>1. Store!Becomes(Value(None))
    BY <1>2, StoreBecomes, Zenon DEF Names
  <2>2. Value(None) = None
    BY Zenon DEF Value
  <2>3. file \in Files
    BY <1>2, Zenon DEF Inv, TypeOK
  <2>4. CASE Kind(p) = "reset"
    BY <2>1, <2>2, <2>3, <2>4, Values, Zenon DEF Store!Reset
  <2>5. CASE Kind(p) = "delete"
    <3>1. pc[p] = "remove" /\ pc[p] \notin {"idle", "dir", "told"}
      BY Zenon DEF Remove
    <3>2. op[p].key \in Keys /\ decode_vault(file, op[p].key) = "ok"
      BY <2>5, <3>1, Running, Zenon DEF PlaceInv, HoldInv
    <3>3. Store!Opens(op[p].key)
      BY <2>3, <3>2, Values, Zenon DEF Store!Opens
    <3> QED BY <2>1, <2>2, <2>5, <3>2, <3>3, Zenon DEF Store!Delete
  <2>6. Kind(p) \in {"delete", "reset"}
    BY Running, Zenon DEF Remove, PlaceInv
  <2> QED BY <2>4, <2>5, <2>6, Zenon
<1> QED BY <1>1, <1>2, Zenon DEF Remove, fileVars

LEMMA SyncStores ==
    ASSUME NEW p \in Procs, sync_directory(p)
    PROVE  Store!Sync
<1>1. file' = file /\ pending' = {file}
  BY Zenon DEF sync_directory
<1>2. \A g : Value(g)' = Value(g)
  BY Zenon DEF Value, Readable
<1> QED BY <1>1, <1>2 DEF Store!Sync

LEMMA PowerLossStores ==
    ASSUME Inv, PowerLoss
    PROVE  Store!PowerLoss
<1>1. file' \in pending /\ pending' = {file'}
  BY Zenon DEF PowerLoss, Inv, FilesInv
<1>2. \A g : Value(g)' = Value(g)
  BY Zenon DEF Value, Readable
<1> QED BY <1>1, <1>2 DEF Store!PowerLoss

LEMMA StoreStep ==
    ASSUME VaultAssumption, ~ExistsFails, Inv, [Next]_vars
    PROVE  [Store!StoreNext]_(Store!storeVars)
<1>1. CASE UNCHANGED <<file, pending>>
  BY <1>1, StoreSame, Zenon
<1>2. ASSUME NEW p \in Procs, Rename(p) PROVE Store!StoreNext
  BY <1>2, RenameStores, Zenon DEF Store!StoreNext
<1>3. ASSUME NEW p \in Procs, Remove(p) PROVE [Store!StoreNext]_(Store!storeVars)
  BY <1>3, RemoveStores, Zenon DEF Store!StoreNext
<1>4. ASSUME NEW p \in Procs, sync_directory(p) PROVE Store!StoreNext
  BY <1>4, SyncStores, Zenon DEF Store!StoreNext
<1>5. CASE PowerLoss
  BY <1>5, PowerLossStores, Zenon DEF Store!StoreNext
<1>6. ASSUME NEW p \in Procs, Work(p), ~Rename(p), ~Remove(p), ~sync_directory(p)
      PROVE  UNCHANGED <<file, pending>>
  BY <1>6, Zenon DEF Work, fileVars, Directory, Acquire, AcquireTimesOut, LockCreated, Exists, Stat, Open, Fstat,
     Recheck, Decode, Encode, Write, Fsync, Verify, Drop, End
<1>7. ASSUME NEW p \in Procs, Begin(p) \/ Fails(p) \/ Kill(p) PROVE UNCHANGED <<file, pending>>
  BY <1>7, Zenon DEF Begin, Fails, CallFails, Kill, fileVars
<1>8. CASE UNCHANGED vars
  BY <1>1, <1>8, Zenon DEF vars, fileVars
<1> QED BY <1>1, <1>2, <1>3, <1>4, <1>5, <1>6, <1>7, <1>8, Zenon DEF Next

LEMMA StoreInitial ==
    ASSUME VaultAssumption, Init
    PROVE  Store!StoreInit
<1>1. pending = {file}
  BY DEF Init
<1>2. file \in Files \cup {None}
  BY InitInv, Zenon DEF Inv, TypeOK
<1>3. Value(None) = None
  BY Zenon DEF Value
<1>4. Value(file) \in Store!Sealed \cup {None, Unreadable}
  BY <1>2, <1>3, Values, Zenon
<1> QED BY <1>1, <1>4 DEF Store!StoreInit

(* As long as the metadata call behind Path::exists does not fail: every   *)
(* change of the vault by any number of processes, with failing calls,     *)
(* kills and power losses between their steps, is one atomic change of     *)
(* VaultStore by a caller whose key opens what is replaced                 *)
(* (commit_profile, rotate_key, delete_profile, reset).  If it may fail, a *)
(* commit takes the vault for absent and replaces what it never opened.    *)
THEOREM StoreRefinement ==
    ASSUME VaultAssumption, ~ExistsFails
    PROVE  Spec => ImplementsStore
<1>1. Init => Store!StoreInit
  BY StoreInitial
<1>2. Inv /\ [Next]_vars => [Store!StoreNext]_(Store!storeVars)
  BY StoreStep
<1> QED BY <1>1, <1>2, VaultInvariant, PTL DEF Spec, ImplementsStore, Store!StoreSpec

-----------------------------------------------------------------------------
(***************************************************************************)
(* The freshness query against any number of installations, rollbacks and  *)
(* deletions of the profile.                                               *)
(*                                                                         *)
(* The reader takes no lock.  What saves it is that every change of a      *)
(* directory, and every gain of the name, advances the directory's times:  *)
(* if the name leads to the directory that was opened, with its times,     *)
(* then it has led there since, and nothing in it has changed.             *)
(***************************************************************************)

Reading == {"meta", "vault", "reread", "reopen"}

(* What a directory's origin tells of its metadata and its ciphertext. *)
DirInv(d) ==
    /\ d.meta = Garbage => d.origin = Nothing
    /\ d.meta \in Metadata /\ d.vault \notin {Nothing, d.meta.installed} => d.origin = Nothing
    /\ d.meta \in Metadata /\ d.vault = d.meta.installed => d.origin = d.meta.source

WriterInv ==
    /\ \A i \in 1..made : DirInv(dirs[i])
    /\ writer \in {"staged", "hardened", "aside", "swapped", "rollback"} => made # 0
    /\ writer \in {"revoked", "discard"} => backup # Nothing

(* While the directory that was opened has the times it had, its content   *)
(* is what was opened and read; while it also has the name, the name has   *)
(* led to it all the time.                                                 *)
Unchanged == dirs[fd[1]].stamp = fd[2]

OpenInv ==
    /\ fd[1] \in 1..made /\ fd[2] \in Nat /\ fd[2] <= dirs[fd[1]].stamp
    /\ \E w \in views : /\ w # Nothing /\ w[1] = fd[1] /\ w[2].stamp = fd[2]
                        /\ Unchanged => w[2] = dirs[fd[1]]
    /\ Look \in views
    /\ installed = fd[1] /\ Unchanged => views = {Look}

ReadInv ==
    /\ reader \in {"vault", "reread", "reopen"} /\ Unchanged => dirs[fd[1]].meta = meta
    /\ reader \in {"reread", "reopen"} /\ Unchanged => dirs[fd[1]].vault = meta.installed

FreshnessInv ==
    /\ FreshTypeOK /\ WriterInv
    /\ reader \in Reading => OpenInv /\ ReadInv
    /\ reader # "told" => answer = "none"
    /\ FreshnessTruthful

-----------------------------------------------------------------------------
(* A change of directory i advances its times. *)
Changed(i) ==
    /\ dirs' \in [1..made -> Directories]
    /\ dirs'[i].stamp = dirs[i].stamp + 1 /\ DirInv(dirs'[i])
    /\ \A j \in 1..made \ {i} : dirs'[j] = dirs[j]

LEMMA Fields ==
    /\ \A d \in Directories : /\ d.meta \in Metadata \cup {Nothing, Garbage} /\ d.vault \in Nat \cup {Nothing}
                              /\ d.origin \in Digests \cup {Nothing} /\ d.stamp \in Nat
    /\ \A m \in Metadata : m.source \in Digests /\ m.installed \in Nat
  BY DEF Directories, Metadata

LEMMA TouchedChanges ==
    ASSUME FreshTypeOK, WriterInv, NEW i \in 1..made, dirs' = Touched(i)
    PROVE  Changed(i)
<1>1. dirs \in [1..made -> Directories] /\ dirs[i] \in Directories /\ DirInv(dirs[i])
  BY DEF FreshTypeOK, WriterInv
<1> DEFINE e == [dirs[i] EXCEPT !.stamp = @ + 1]
<1>2. e \in Directories /\ e.stamp = dirs[i].stamp + 1
  BY <1>1 DEF Directories
<1>3. e.meta = dirs[i].meta /\ e.vault = dirs[i].vault /\ e.origin = dirs[i].origin
  BY <1>1 DEF Directories
<1>4. dirs' = [dirs EXCEPT ![i] = e]
  BY DEF Touched
<1> HIDE DEF e
<1>5. DirInv(e)
  BY <1>1, <1>3, Zenon DEF DirInv
<1>6. dirs'[i] = e /\ dirs' \in [1..made -> Directories] /\ \A j \in 1..made \ {i} : dirs'[j] = dirs[j]
  BY <1>1, <1>2, <1>4, Zenon
<1> QED BY <1>2, <1>5, <1>6, Zenon DEF Changed

LEMMA RemovalChanges ==
    ASSUME FreshnessAssumption, FreshTypeOK, WriterInv, NEW i \in 1..made, RemoveEntry(i)
    PROVE  Changed(i)
<1>1. dirs \in [1..made -> Directories] /\ dirs[i] \in Directories /\ DirInv(dirs[i])
  BY DEF FreshTypeOK, WriterInv
<1> DEFINE e == [dirs[i] EXCEPT !.stamp = @ + 1, !.meta = Nothing]
           g == [dirs[i] EXCEPT !.stamp = @ + 1, !.vault = Nothing]
<1>2. /\ e \in Directories /\ e.stamp = dirs[i].stamp + 1 /\ e.meta = Nothing
      /\ g \in Directories /\ g.stamp = dirs[i].stamp + 1 /\ g.vault = Nothing
      /\ g.meta = dirs[i].meta /\ g.origin = dirs[i].origin
  <2>0. dirs[i].stamp + 1 \in Nat
    BY <1>1 DEF Directories
  <2>1. e \in Directories
    BY <1>1, <2>0 DEF Directories
  <2>2. g \in Directories
    BY <1>1, <2>0 DEF Directories
  <2>3. e.stamp = dirs[i].stamp + 1 /\ e.meta = Nothing
    BY <1>1 DEF Directories
  <2>4. g.stamp = dirs[i].stamp + 1 /\ g.vault = Nothing /\ g.meta = dirs[i].meta /\ g.origin = dirs[i].origin
    BY <1>1 DEF Directories
  <2> QED BY <2>1, <2>2, <2>3, <2>4, Zenon
<1>3. dirs' = [dirs EXCEPT ![i] = e] \/ dirs' = [dirs EXCEPT ![i] = g]
  BY <1>1 DEF RemoveEntry, Touched, Directories
<1> HIDE DEF e, g
<1>4. DirInv(e) /\ DirInv(g)
  <2>1. Nothing \notin Metadata \cup {Garbage}
    BY Zenon DEF FreshnessAssumption
  <2>2. \A m \in Metadata : m.installed # Nothing
    BY Fields, Zenon DEF FreshnessAssumption
  <2> QED BY <1>1, <1>2, <2>1, <2>2, Zenon DEF DirInv
<1>5. CASE dirs' = [dirs EXCEPT ![i] = e]
  BY <1>1, <1>2, <1>4, <1>5, Zenon DEF Changed
<1>6. CASE dirs' = [dirs EXCEPT ![i] = g]
  BY <1>1, <1>2, <1>4, <1>6, Zenon DEF Changed
<1> QED BY <1>3, <1>5, <1>6, Zenon

-----------------------------------------------------------------------------
(* What a step of the helper is to the reader: times only advance, content *)
(* changes only with them, and so does the directory that gets the name.   *)
Advances ==
    /\ \A j \in 1..made : /\ j \in 1..made' /\ dirs[j].stamp <= dirs'[j].stamp
                          /\ dirs'[j].stamp = dirs[j].stamp => dirs'[j] = dirs[j]
    /\ \/ installed' \in {installed, Nothing}
       \/ installed' \in 1..made /\ dirs'[installed'].stamp # dirs[installed'].stamp

LEMMA HelperKept ==
    ASSUME FreshnessAssumption, FreshnessInv, Advances, FreshTypeOK', WriterInv', Seen, ReaderRests
    PROVE  FreshnessInv'
<1>1. UNCHANGED <<reader, local, fd, meta, answer>>
  BY Zenon DEF ReaderRests
<1>2. reader' # "told" => answer' = "none"
  BY <1>1, Zenon DEF FreshnessInv
<1>3. FreshnessTruthful'
  <2>1. CASE reader = "told"
    <3>1. views' = views
      BY <2>1, Zenon DEF Seen
    <3> QED BY <1>1, <3>1, Zenon DEF FreshnessInv, FreshnessTruthful, VerdictOfOneGeneration, UnknownHasReason
  <2>2. CASE reader # "told"
    <3>1. answer' = "none"
      BY <1>1, <2>2, Zenon DEF FreshnessInv
    <3> QED BY <3>1, Zenon DEF FreshnessTruthful, VerdictOfOneGeneration, UnknownHasReason
  <2> QED BY <2>1, <2>2, Zenon
<1>4. ASSUME reader \in Reading PROVE OpenInv' /\ ReadInv'
  <2> DEFINE i == fd[1]
             s == fd[2]
  <2>1. OpenInv /\ ReadInv /\ reader \notin {"idle", "told"} /\ i \in 1..made /\ s \in Nat
    BY <1>4, Zenon DEF FreshnessInv, Reading, OpenInv
  <2>2. views' = views \cup {Look'}
    BY <2>1, Zenon DEF Seen, Look
  <2>3. dirs[i].stamp \in Nat /\ dirs'[i].stamp \in Nat /\ i \in 1..made'
    <3>1. i \in 1..made'
      BY <2>1, Zenon DEF Advances
    <3> QED BY <2>1, <3>1, Fields, Zenon DEF FreshnessInv, FreshTypeOK
  <2>4. s <= dirs[i].stamp /\ dirs[i].stamp <= dirs'[i].stamp
    BY <2>1, Zenon DEF OpenInv, Advances
  <2>5. s <= dirs'[i].stamp /\ (dirs'[i].stamp = s => dirs[i].stamp = s /\ dirs'[i].stamp = dirs[i].stamp)
    BY <2>1, <2>3, <2>4
  <2>6. dirs'[i].stamp = s => dirs[i].stamp = s /\ dirs'[i] = dirs[i]
    BY <2>1, <2>5, Zenon DEF Advances
  <2>7. Unchanged' => Unchanged /\ dirs'[fd[1]] = dirs[fd[1]]
    BY <1>1, <2>6, Zenon DEF Unchanged
  <2>8. ReadInv'
    BY <1>1, <2>1, <2>7, Zenon DEF ReadInv
  <2>9. \E w \in views' : w # Nothing /\ w[1] = i /\ w[2].stamp = s /\ (Unchanged' => w[2] = dirs'[i])
    <3>1. PICK w \in views : w # Nothing /\ w[1] = i /\ w[2].stamp = s /\ (Unchanged => w[2] = dirs[i])
      BY <2>1, Zenon DEF OpenInv
    <3> QED BY <2>2, <2>7, <3>1, Zenon
  <2>10. ASSUME installed' = i, Unchanged' PROVE views' = {Look'}
    <3>1. dirs'[i] = dirs[i] /\ Unchanged
      BY <2>7, <2>10, Zenon
    <3>2. i # Nothing
      BY <2>1 DEF FreshnessAssumption, FreshnessInv, FreshTypeOK
    <3>3. installed = i
      BY <2>10, <3>1, <3>2, Zenon DEF Advances
    <3>4. Look' = Look
      BY <2>10, <3>1, <3>3, Zenon DEF Look
    <3>5. views = {Look}
      BY <2>1, <3>1, <3>3, Zenon DEF OpenInv
    <3> QED BY <2>2, <3>4, <3>5, Zenon
  <2>11. Look' \in views'
    BY <2>2, Zenon
  <2> QED BY <1>1, <2>1, <2>3, <2>5, <2>8, <2>9, <2>10, <2>11, Zenon DEF OpenInv
<1> QED BY <1>1, <1>2, <1>3, <1>4, Zenon DEF FreshnessInv

(* The helper's steps.                                                     *)
LEMMA ChangedAdvances ==
    ASSUME FreshTypeOK, WriterInv, NEW i \in 1..made, Changed(i), made' = made,
           installed' \in {installed, Nothing, i}
    PROVE  /\ Advances /\ dirs' \in [1..made' -> Directories]
           /\ \A j \in 1..made' : DirInv(dirs'[j])
<1>1. \A j \in 1..made : dirs[j].stamp \in Nat
  BY Fields, Zenon DEF FreshTypeOK
<1>2. dirs[i].stamp <= dirs'[i].stamp /\ dirs'[i].stamp # dirs[i].stamp
  BY <1>1 DEF Changed
<1>3. \A j \in 1..made : dirs[j].stamp <= dirs[j].stamp
  BY <1>1
<1>4. \A j \in 1..made : dirs[j].stamp <= dirs'[j].stamp /\ (dirs'[j].stamp = dirs[j].stamp => dirs'[j] = dirs[j])
  BY <1>2, <1>3, Zenon DEF Changed
<1>5. \A j \in 1..made' : DirInv(dirs'[j])
  BY Zenon DEF Changed, WriterInv
<1> QED BY <1>2, <1>4, <1>5, Zenon DEF Advances, Changed

LEMMA StillAdvances ==
    ASSUME FreshTypeOK, WriterInv, dirs' = dirs, made' = made, installed' \in {installed, Nothing}
    PROVE  /\ Advances /\ dirs' \in [1..made' -> Directories]
           /\ \A j \in 1..made' : DirInv(dirs'[j])
<1>1. \A j \in 1..made : dirs[j].stamp \in Nat
  BY Fields, Zenon DEF FreshTypeOK
<1>2. \A j \in 1..made : dirs[j].stamp <= dirs[j].stamp
  BY <1>1
<1> QED BY <1>2, Zenon DEF Advances, FreshTypeOK, WriterInv

Stations == {"idle", "staged", "hardened", "aside", "swapped", "rollback", "revoked", "discard"}

LEMMA HelperStep ==
    ASSUME FreshnessAssumption, FreshnessInv, Advances, dirs' \in [1..made' -> Directories],
           \A j \in 1..made' : DirInv(dirs'[j]), made' \in 0..MaxDirs,
           installed' \in 1..made' \cup {Nothing}, backup' \in 1..made' \cup {Nothing}, writer' \in Stations,
           writer' \in {"staged", "hardened", "aside", "swapped", "rollback"} => made' # 0,
           writer' \in {"revoked", "discard"} => backup' # Nothing,
           Seen, ReaderRests
    PROVE  FreshnessInv'
<1>1. FreshTypeOK'
  BY Zenon DEF FreshnessInv, FreshTypeOK, ReaderRests, Stations
<1>2. WriterInv'
  BY Zenon DEF WriterInv
<1> QED BY <1>1, <1>2, HelperKept, Zenon

LEMMA Places ==
    ASSUME FreshnessAssumption, FreshnessInv
    PROVE  /\ FreshTypeOK /\ WriterInv /\ made \in 0..MaxDirs /\ writer \in Stations
           /\ installed \in 1..made \cup {Nothing} /\ backup \in 1..made \cup {Nothing}
           /\ made # 0 => made \in 1..made
           /\ \A i \in 1..made : i # Nothing /\ made # 0
<1>1. FreshTypeOK /\ WriterInv /\ made \in 0..MaxDirs
  BY Zenon DEF FreshnessInv, FreshTypeOK
<1>2. made # 0 => made \in 1..made
  BY <1>1 DEF FreshnessAssumption
<1>3. \A i \in 1..made : i # Nothing /\ made # 0
  BY <1>1 DEF FreshnessAssumption
<1> QED BY <1>1, <1>2, <1>3, Zenon DEF FreshTypeOK, Stations

LEMMA StageKept ==
    ASSUME FreshnessAssumption, FreshnessInv, Stage
    PROVE  FreshnessInv'
<1>1. FreshTypeOK /\ WriterInv /\ made \in 0..MaxDirs /\ made < MaxDirs /\ made' = made + 1
  BY Places, Zenon DEF Stage
<1>2. PICK s \in Digests :
        dirs' = [j \in 1..made' |-> IF j \in 1..made THEN dirs[j]
                 ELSE [meta |-> write_staged_metadata(s), vault |-> made', origin |-> s, stamp |-> 0]]
  BY Zenon DEF Stage
<1> DEFINE e == [meta |-> write_staged_metadata(s), vault |-> made', origin |-> s, stamp |-> 0]
           m == write_staged_metadata(s)
<1>3. /\ made' \in 0..MaxDirs /\ made' # 0 /\ made' \in Nat
      /\ \A j \in 1..made : j \in 1..made'
  BY <1>1 DEF FreshnessAssumption
<1>4. m \in Metadata /\ m.source = s /\ m.installed = made'
  BY <1>1, <1>3 DEF write_staged_metadata, Metadata
<1> HIDE DEF m
<1>5. e \in Directories /\ e.meta = m /\ e.vault = made' /\ e.origin = s
  BY <1>3, <1>4 DEF Directories, m
<1>6. dirs' = [j \in 1..made' |-> IF j \in 1..made THEN dirs[j] ELSE e]
  BY <1>2
<1> HIDE DEF e
<1>7. DirInv(e)
  BY <1>4, <1>5, Zenon DEF DirInv, FreshnessAssumption
<1>8. dirs \in [1..made -> Directories] /\ \A j \in 1..made : DirInv(dirs[j]) /\ dirs[j].stamp \in Nat
  BY <1>1, Fields, Zenon DEF FreshTypeOK, WriterInv
<1>9. dirs' \in [1..made' -> Directories] /\ \A j \in 1..made' : DirInv(dirs'[j])
  BY <1>5, <1>6, <1>7, <1>8, Zenon
<1>10. \A j \in 1..made : dirs'[j] = dirs[j]
  BY <1>3, <1>6, Zenon
<1>11. \A j \in 1..made : dirs[j].stamp <= dirs[j].stamp
  BY <1>8
<1>12. Advances
  BY <1>3, <1>10, <1>11, Zenon DEF Advances, Stage
<1>13. /\ installed' \in 1..made' \cup {Nothing} /\ backup' \in 1..made' \cup {Nothing} /\ writer' \in Stations
       /\ writer' = "staged"
  BY <1>3, Places, Zenon DEF Stage, Stations
<1> QED BY <1>3, <1>9, <1>12, <1>13, HelperStep, Zenon DEF Stage

(* The steps that change one directory, or none. *)
LEMMA OneChanges ==
    ASSUME FreshnessAssumption, FreshnessInv, NEW i \in 1..made, dirs' = Touched(i) \/ RemoveEntry(i),
           made' = made, installed' \in {installed, Nothing, i}, backup' \in {backup, Nothing, installed},
           writer' \in Stations, writer' \in {"revoked", "discard"} => backup' # Nothing,
           Seen, ReaderRests
    PROVE  FreshnessInv'
<1>1. Changed(i)
  BY Places, TouchedChanges, RemovalChanges, Zenon
<1>2. /\ Advances /\ dirs' \in [1..made' -> Directories] /\ \A j \in 1..made' : DirInv(dirs'[j])
  BY <1>1, Places, ChangedAdvances, Zenon
<1> QED BY <1>2, Places, HelperStep, Zenon

LEMMA NoneChanges ==
    ASSUME FreshnessAssumption, FreshnessInv, dirs' = dirs, made' = made, installed' \in {installed, Nothing},
           backup' \in {backup, Nothing}, writer' \in Stations,
           writer' \in {"staged", "hardened", "aside", "swapped", "rollback"} => made # 0,
           writer' \in {"revoked", "discard"} => backup' # Nothing,
           Seen, ReaderRests
    PROVE  FreshnessInv'
<1>1. /\ Advances /\ dirs' \in [1..made' -> Directories] /\ \A j \in 1..made' : DirInv(dirs'[j])
  BY Places, StillAdvances, Zenon
<1> QED BY <1>1, Places, HelperStep, Zenon

LEMMA SwapKept ==
    ASSUME FreshnessAssumption, FreshnessInv, Harden \/ MoveAside \/ Install \/ Settle
    PROVE  FreshnessInv'
<1>1. /\ WriterInv /\ {"idle", "hardened", "aside", "swapped", "discard", "rollback"} \subseteq Stations
      /\ installed # Nothing => installed \in 1..made
      /\ backup # Nothing => backup \in 1..made
  BY Places, Zenon DEF Stations
<1>2. CASE Harden
  <2>1. installed \in 1..made /\ dirs' = Touched(installed) /\ writer' = "hardened" /\ writer' \in Stations
    BY <1>1, <1>2, Zenon DEF Harden
  <2> QED BY <1>2, <2>1, OneChanges, Zenon DEF Harden
<1>3. CASE MoveAside
  <2>1. made # 0 /\ writer' = "aside" /\ writer' \in Stations
    BY <1>1, <1>3, Zenon DEF MoveAside, WriterInv
  <2>2. CASE installed = Nothing
    BY <1>3, <2>1, <2>2, NoneChanges, Zenon DEF MoveAside
  <2>3. CASE installed # Nothing
    BY <1>1, <1>3, <2>1, <2>3, OneChanges, Zenon DEF MoveAside
  <2> QED BY <2>2, <2>3, Zenon
<1>4. CASE Install
  <2>1. made # 0 /\ made \in 1..made
    BY <1>1, <1>4, Places, Zenon DEF Install, WriterInv
  <2>2. CASE installed' = made /\ dirs' = Touched(made) /\ writer' = "swapped" /\ UNCHANGED backup
    BY <1>1, <1>4, <2>1, <2>2, OneChanges, Zenon DEF Install
  <2>3. CASE backup = Nothing /\ UNCHANGED <<dirs, installed>> /\ backup' = Nothing /\ writer' = "idle"
    BY <1>1, <1>4, <2>3, NoneChanges, Zenon DEF Install
  <2>4. CASE /\ backup # Nothing /\ dirs' = Touched(backup) /\ installed' = backup
             /\ backup' = Nothing /\ writer' = "idle"
    BY <1>1, <1>4, <2>4, OneChanges, Zenon DEF Install
  <2> QED BY <1>4, <2>2, <2>3, <2>4, Zenon DEF Install
<1>5. CASE Settle
  <2>1. made # 0 /\ writer' \in {"idle", "discard", "rollback"} /\ writer' \in Stations
        /\ (writer' = "discard" => backup # Nothing)
    BY <1>1, <1>5, Zenon DEF Settle, WriterInv
  <2> QED BY <1>5, <2>1, NoneChanges, Zenon DEF Settle
<1> QED BY <1>2, <1>3, <1>4, <1>5, Zenon

LEMMA RemovalKept ==
    ASSUME FreshnessAssumption, FreshnessInv, Discard \/ Rollback \/ Revoke \/ RevokeKey
    PROVE  FreshnessInv'
<1>1. /\ WriterInv /\ {"idle", "discard", "rollback", "revoked"} \subseteq Stations /\ writer \in Stations
      /\ installed # Nothing => installed \in 1..made
      /\ backup # Nothing => backup \in 1..made
  BY Places, Zenon DEF Stations
<1>2. CASE Discard
  <2>1. backup \in 1..made /\ backup # Nothing /\ writer = "discard"
    BY <1>1, <1>2, Zenon DEF Discard, WriterInv
  <2>2. CASE RemoveEntry(backup) /\ UNCHANGED <<backup, writer>>
    BY <1>1, <1>2, <2>1, <2>2, OneChanges, Zenon DEF Discard
  <2>3. CASE backup' = Nothing /\ writer' = "idle" /\ UNCHANGED dirs
    BY <1>1, <1>2, <2>3, NoneChanges, Zenon DEF Discard
  <2> QED BY <1>2, <2>2, <2>3, Zenon DEF Discard
<1>3. CASE Rollback
  <2>1. writer = "rollback" /\ made # 0
    BY <1>1, <1>3, Zenon DEF Rollback, WriterInv
  <2>2. CASE installed # Nothing /\ RemoveEntry(installed) /\ UNCHANGED <<installed, backup, writer>>
    BY <1>1, <1>3, <2>1, <2>2, OneChanges, Zenon DEF Rollback
  <2>3. CASE installed' = Nothing /\ UNCHANGED <<dirs, backup, writer>>
    BY <1>1, <1>3, <2>1, <2>3, NoneChanges, Zenon DEF Rollback
  <2>4. CASE writer' = "idle" /\ backup' = Nothing /\ backup = Nothing /\ UNCHANGED <<dirs, installed>>
    BY <1>1, <1>3, <2>4, NoneChanges, Zenon DEF Rollback
  <2>5. CASE /\ writer' = "idle" /\ backup' = Nothing /\ backup # Nothing
             /\ dirs' = Touched(backup) /\ installed' = backup
    BY <1>1, <1>3, <2>5, OneChanges, Zenon DEF Rollback
  <2> QED BY <1>3, <2>2, <2>3, <2>4, <2>5, Zenon DEF Rollback
<1>4. CASE Revoke
  BY <1>1, <1>4, OneChanges, Zenon DEF Revoke
<1>5. CASE RevokeKey
  <2>1. backup \in 1..made /\ backup # Nothing
    BY <1>1, <1>5, Zenon DEF RevokeKey, WriterInv
  <2>2. CASE writer' = "discard" /\ UNCHANGED <<dirs, installed, backup>>
    BY <1>1, <1>5, <2>1, <2>2, NoneChanges, Zenon DEF RevokeKey
  <2>3. CASE dirs' = Touched(backup) /\ installed' = backup /\ backup' = Nothing /\ writer' = "idle"
    BY <1>1, <1>5, <2>1, <2>3, OneChanges, Zenon DEF RevokeKey
  <2> QED BY <1>5, <2>2, <2>3, Zenon DEF RevokeKey
<1> QED BY <1>2, <1>3, <1>4, <1>5, Zenon

-----------------------------------------------------------------------------
(* The reader's steps.                                                     *)

(* Either the name has led to what was opened all the time, or two things  *)
(* were seen under it.                                                     *)
LEMMA SameOrDiffer ==
    ASSUME FreshnessAssumption, FreshnessInv, reader \in Reading
    PROVE  /\ fd[1] \in 1..made
           /\ \/ \E w \in views : \E v \in views : w # v
              \/ /\ installed = fd[1] /\ Unchanged
                 /\ views = {<<fd[1], dirs[fd[1]]>>} /\ <<fd[1], dirs[fd[1]]>> # Nothing
<1> DEFINE i == fd[1]
<1>1. OpenInv /\ i \in 1..made /\ dirs[i] \in Directories
  BY Zenon DEF FreshnessInv, OpenInv, FreshTypeOK
<1>2. PICK w \in views : w # Nothing /\ w[1] = i /\ w[2].stamp = fd[2] /\ (Unchanged => w[2] = dirs[i])
  BY <1>1, Zenon DEF OpenInv
<1>3. Look \in views
  BY <1>1, Zenon DEF OpenInv
<1>4. <<i, dirs[i]>> # Nothing
  <2>1. i \in Nat
    BY <1>1, Places
  <2> QED BY <1>1, <2>1 DEF FreshnessAssumption
<1>5. CASE installed = Nothing
  <2>1. Look # w
    BY <1>2, <1>5, Zenon DEF Look
  <2> QED BY <1>1, <1>2, <1>3, <2>1, Zenon
<1>6. CASE installed # Nothing /\ installed # i
  <2>1. Look[1] = installed
    BY <1>6 DEF Look
  <2>2. Look # w
    BY <1>2, <1>6, <2>1, Zenon
  <2> QED BY <1>1, <1>2, <1>3, <2>2, Zenon
<1>7. CASE installed # Nothing /\ installed = i /\ ~Unchanged
  <2>1. Look[2] = dirs[i]
    BY <1>7 DEF Look
  <2>2. Look # w
    BY <1>2, <1>7, <2>1, Zenon DEF Unchanged
  <2> QED BY <1>1, <1>2, <1>3, <2>2, Zenon
<1>8. CASE installed # Nothing /\ installed = i /\ Unchanged
  <2>1. views = {Look} /\ Look = <<i, dirs[i]>>
    BY <1>1, <1>8, Zenon DEF OpenInv, Look
  <2> QED BY <1>1, <1>4, <1>8, <2>1, Zenon
<1> QED BY <1>5, <1>6, <1>7, <1>8, Zenon

LEMMA TellsKept ==
    ASSUME FreshnessInv, NEW a \in {"Unknown", "Current", "Stale"}, Replies(a), FreshnessTruthful'
    PROVE  FreshnessInv'
<1>1. /\ answer' = a /\ reader' = "told" /\ reader' \notin Reading
      /\ UNCHANGED <<dirs, made, installed, backup, writer, local, fd, meta, views>>
  BY Zenon DEF Replies, writerVars, Reading
<1>2. FreshTypeOK'
  BY <1>1, Zenon DEF FreshnessInv, FreshTypeOK
<1>3. WriterInv'
  BY <1>1, Zenon DEF FreshnessInv, WriterInv
<1> QED BY <1>1, <1>2, <1>3, Zenon DEF FreshnessInv

(* Unknown is right if two things were seen, or the one that was seen is   *)
(* not a whole profile that the helper staged.                             *)
LEMMA UnknownKept ==
    ASSUME FreshnessAssumption, FreshnessInv, reader \in Reading, Replies("Unknown"),
           installed = fd[1] /\ Unchanged => Nothing \in {dirs[fd[1]].origin, dirs[fd[1]].meta, dirs[fd[1]].vault}
    PROVE  FreshnessInv'
<1>1. answer' = "Unknown" /\ views' = views
  BY Zenon DEF Replies
<1>2. <<fd[1], dirs[fd[1]]>>[2] = dirs[fd[1]]
  OBVIOUS
<1>3. UnknownHasReason'
  BY <1>1, <1>2, SameOrDiffer, Zenon DEF UnknownHasReason
<1>4. VerdictOfOneGeneration'
  BY <1>1, Zenon DEF VerdictOfOneGeneration
<1> QED BY <1>3, <1>4, TellsKept, Zenon DEF FreshnessTruthful

(* The reader goes on. *)
LEMMA GoesOn ==
    ASSUME FreshnessInv, reader \in Reading, reader' \in Reading \ {"meta"}, meta' \in Metadata, ReadInv',
           UNCHANGED <<writerVars, local, fd, answer, views>>
    PROVE  FreshnessInv'
<1>1. /\ UNCHANGED <<dirs, made, installed, backup, writer, local, fd, answer, views>>
      /\ reader # "told" /\ reader' # "told"
  BY Zenon DEF writerVars, Reading
<1>2. FreshTypeOK'
  BY <1>1, Zenon DEF FreshnessInv, FreshTypeOK, Reading
<1>3. WriterInv'
  BY <1>1, Zenon DEF FreshnessInv, WriterInv
<1>4. OpenInv'
  BY <1>1, Zenon DEF FreshnessInv, OpenInv, Unchanged, Look
<1>5. answer' = "none"
  BY <1>1, Zenon DEF FreshnessInv
<1>6. FreshnessTruthful'
  BY <1>5, Zenon DEF FreshnessTruthful, VerdictOfOneGeneration, UnknownHasReason
<1> QED BY <1>2, <1>3, <1>4, <1>5, <1>6, Zenon DEF FreshnessInv

LEMMA ReadKept ==
    ASSUME FreshnessAssumption, FreshnessInv, ReadMetadata \/ ReadVault \/ ReadMetadataAgain
    PROVE  FreshnessInv'
<1>1. reader \in {"meta", "vault", "reread"} /\ reader \in Reading
  BY Zenon DEF ReadMetadata, ReadVault, ReadMetadataAgain, Reading
<1>2. fd[1] \in 1..made /\ ReadInv
  BY <1>1, SameOrDiffer, Zenon DEF FreshnessInv
<1> DEFINE d == dirs[fd[1]]
<1>3. d \in Directories /\ DirInv(d) /\ d.meta \in Metadata \cup {Nothing, Garbage}
  BY <1>2, Fields, Zenon DEF FreshnessInv, FreshTypeOK, WriterInv
<1>4. CASE ReadMetadata
  <2>1. CASE d.meta \notin Metadata /\ Replies("Unknown")
    <3>1. Nothing \in {d.origin, d.meta}
      BY <1>3, <2>1, Zenon DEF DirInv
    <3> QED BY <1>1, <2>1, <3>1, UnknownKept, Zenon
  <2>2. CASE /\ d.meta \in Metadata /\ meta' = d.meta /\ reader' = "vault"
             /\ UNCHANGED <<writerVars, local, fd, answer, views>>
    <3>1. ReadInv'
      BY <2>2, Zenon DEF ReadInv, writerVars
    <3>2. reader' \in Reading \ {"meta"} /\ meta' \in Metadata
      BY <2>2, Zenon DEF Reading
    <3> QED BY <1>1, <2>2, <3>1, <3>2, GoesOn, Zenon
  <2> QED BY <1>4, <2>1, <2>2, Zenon DEF ReadMetadata
<1>5. CASE ReadVault
  <2>0. reader = "vault" /\ meta \in Metadata /\ (Unchanged => d.meta = meta)
    BY <1>2, <1>5, Zenon DEF ReadVault, ReadInv, FreshnessInv, FreshTypeOK
  <2>1. CASE d.vault # meta.installed /\ Replies("Unknown")
    <3>1. Unchanged => Nothing \in {d.origin, d.vault}
      BY <1>3, <2>0, <2>1, Zenon DEF DirInv
    <3> QED BY <1>1, <2>1, <3>1, UnknownKept, Zenon
  <2>2. CASE /\ d.vault = meta.installed /\ reader' = "reread"
             /\ UNCHANGED <<writerVars, local, fd, meta, answer, views>>
    <3>1. ReadInv'
      BY <2>0, <2>2, Zenon DEF ReadInv, writerVars, Unchanged
    <3>2. reader' \in Reading \ {"meta"} /\ meta' \in Metadata
      BY <2>0, <2>2, Zenon DEF Reading
    <3> QED BY <1>1, <2>2, <3>1, <3>2, GoesOn, Zenon
  <2> QED BY <1>5, <2>1, <2>2, Zenon DEF ReadVault
<1>6. CASE ReadMetadataAgain
  <2>0. reader = "reread" /\ meta \in Metadata /\ (Unchanged => d.meta = meta /\ d.vault = meta.installed)
    BY <1>2, <1>6, Zenon DEF ReadMetadataAgain, ReadInv, FreshnessInv, FreshTypeOK
  <2>1. CASE d.meta # meta /\ Replies("Unknown")
    BY <1>1, <2>0, <2>1, UnknownKept, Zenon
  <2>2. CASE d.meta = meta /\ reader' = "reopen" /\ UNCHANGED <<writerVars, local, fd, meta, answer, views>>
    <3>1. ReadInv'
      BY <2>0, <2>2, Zenon DEF ReadInv, writerVars, Unchanged
    <3>2. reader' \in Reading \ {"meta"} /\ meta' \in Metadata
      BY <2>0, <2>2, Zenon DEF Reading
    <3> QED BY <1>1, <2>2, <3>1, <3>2, GoesOn, Zenon
  <2> QED BY <1>6, <2>1, <2>2, Zenon DEF ReadMetadataAgain
<1> QED BY <1>4, <1>5, <1>6, Zenon

LEMMA ReopenKept ==
    ASSUME FreshnessAssumption, FreshnessInv, Reopen
    PROVE  FreshnessInv'
<1>1. reader = "reopen" /\ reader \in Reading
  BY Zenon DEF Reopen, Reading
<1> DEFINE d == dirs[fd[1]]
<1>2. fd[1] \in 1..made /\ DirInv(d) /\ meta \in Metadata
      /\ (Unchanged => d.meta = meta /\ d.vault = meta.installed)
  BY <1>1, SameOrDiffer, Zenon DEF FreshnessInv, ReadInv, WriterInv, FreshTypeOK
<1>3. CASE ~(installed = fd[1] /\ Unchanged)
  BY <1>1, <1>3, UnknownKept, Zenon DEF Reopen, Unchanged
<1>4. CASE installed = fd[1] /\ Unchanged
  <2>1. Replies(Verdict) /\ Verdict \in {"Current", "Stale"}
    BY <1>4, Zenon DEF Reopen, Unchanged, Verdict
  <2>2. /\ answer' = Verdict /\ UNCHANGED <<views, fd, meta, local>>
    BY <2>1, Zenon DEF Replies
  <2>3. d.origin = meta.source /\ d.stamp = fd[2] /\ d.vault = meta.installed
    BY <1>2, <1>4, Zenon DEF DirInv, Unchanged
  <2>4. (Verdict = "Current") = (d.origin = local)
    BY <2>3, Zenon DEF Verdict
  <2>5. <<fd[1], d>>[1] = fd[1] /\ <<fd[1], d>>[2] = d
    OBVIOUS
  <2>6. CASE \E w \in views : \E v \in views : w # v
    <3>1. views = {Look}
      BY <1>1, <1>4, Zenon DEF FreshnessInv, OpenInv
    <3> QED BY <2>6, <3>1, Zenon
  <2>7. CASE views = {<<fd[1], d>>} /\ <<fd[1], d>> # Nothing
    <3>1. VerdictOfOneGeneration'
      BY <2>2, <2>3, <2>4, <2>5, <2>7, Zenon DEF VerdictOfOneGeneration
    <3>2. UnknownHasReason'
      BY <2>1, <2>2, Zenon DEF UnknownHasReason
    <3> QED BY <2>1, <3>1, <3>2, TellsKept, Zenon DEF FreshnessTruthful
  <2> QED BY <1>1, <2>6, <2>7, SameOrDiffer, Zenon
<1> QED BY <1>3, <1>4, Zenon

LEMMA AskKept ==
    ASSUME FreshnessAssumption, FreshnessInv, Ask
    PROVE  FreshnessInv'
<1>1. /\ views' = {Look} /\ UNCHANGED <<dirs, made, installed, backup, writer, meta>>
      /\ local' \in Digests
  BY Zenon DEF Ask, writerVars
<1>2. Look' = Look
  BY <1>1, Zenon DEF Look
<1>3. WriterInv'
  BY <1>1, Zenon DEF FreshnessInv, WriterInv
<1>4. CASE installed = Nothing
  <2>1. reader' = "told" /\ answer' = "Unknown" /\ reader' \notin Reading
    BY <1>4, Zenon DEF Ask, Reading
  <2>2. FreshTypeOK'
    BY <1>1, <2>1, Zenon DEF FreshnessInv, FreshTypeOK
  <2>3. FreshnessTruthful'
    BY <1>1, <1>4, <2>1, Zenon DEF FreshnessTruthful, VerdictOfOneGeneration, UnknownHasReason, Look
  <2> QED BY <1>3, <2>1, <2>2, <2>3, Zenon DEF FreshnessInv
<1>5. CASE installed # Nothing
  <2>1. reader' = "meta" /\ answer' = "none" /\ fd' = <<installed, dirs[installed].stamp>>
    BY <1>5, Zenon DEF Ask
  <2>2. FreshTypeOK'
    BY <1>1, <2>1, Zenon DEF FreshnessInv, FreshTypeOK
  <2>3. fd'[1] = installed /\ fd'[2] = dirs[installed].stamp
    BY <2>1
  <2>4. installed \in 1..made /\ dirs[installed] \in Directories /\ dirs[installed].stamp \in Nat
    BY <1>5, Fields, Zenon DEF FreshnessInv, FreshTypeOK
  <2>5. Look = <<installed, dirs[installed]>> /\ Look[1] = installed /\ Look[2] = dirs[installed]
    BY <1>5 DEF Look
  <2>6. Look # Nothing
    <3>1. installed \in Nat
      BY <2>4, Places
    <3> QED BY <2>4, <2>5, <3>1 DEF FreshnessAssumption
  <2>7. dirs[installed].stamp <= dirs[installed].stamp
    BY <2>4
  <2>8. OpenInv'
    BY <1>1, <1>2, <2>3, <2>4, <2>5, <2>6, <2>7, Zenon DEF OpenInv
  <2>9. ReadInv'
    BY <2>1, Zenon DEF ReadInv
  <2>10. FreshnessTruthful'
    BY <2>1, Zenon DEF FreshnessTruthful, VerdictOfOneGeneration, UnknownHasReason
  <2> QED BY <1>3, <2>1, <2>2, <2>8, <2>9, <2>10, Zenon DEF FreshnessInv
<1> QED BY <1>4, <1>5, Zenon

LEMMA ReturnKept ==
    ASSUME FreshnessInv, Return
    PROVE  FreshnessInv'
<1>1. /\ reader' = "idle" /\ reader' \notin Reading /\ answer' = "none" /\ local' = Nothing
      /\ UNCHANGED <<dirs, made, installed, backup, writer>>
  BY Zenon DEF Return, writerVars, Reading
<1>2. FreshTypeOK'
  BY <1>1, Zenon DEF FreshnessInv, FreshTypeOK
<1>3. WriterInv' /\ FreshnessTruthful'
  BY <1>1, Zenon DEF FreshnessInv, WriterInv, FreshnessTruthful, VerdictOfOneGeneration, UnknownHasReason
<1> QED BY <1>1, <1>2, <1>3, Zenon DEF FreshnessInv

-----------------------------------------------------------------------------
LEMMA FreshnessStarts ==
    ASSUME FreshnessAssumption, FreshInit
    PROVE  FreshnessInv
<1>1. /\ backup = Nothing /\ writer = "idle" /\ reader = "idle" /\ local = Nothing /\ answer = "none"
      /\ reader \notin Reading
  BY DEF FreshInit, Reading
<1>2. FreshTypeOK /\ WriterInv
  <2>1. CASE made = 0 /\ installed = Nothing /\ dirs = << >>
    <3>1. made \in 0..MaxDirs /\ 1..made = {} /\ dirs \in [1..made -> Directories]
      BY <2>1 DEF FreshnessAssumption
    <3> QED BY <1>1, <2>1, <3>1, Zenon DEF FreshTypeOK, WriterInv
  <2>2. ASSUME made = 1, installed = 1, NEW m \in {Nothing, Garbage} \cup [source : Digests, installed : {0, 1}],
               dirs = <<[meta |-> m, vault |-> 1, stamp |-> 0,
                        origin |-> IF m \in Metadata /\ m.installed = 1 THEN m.source ELSE Nothing]>>
        PROVE  FreshTypeOK /\ WriterInv
    <3> DEFINE o == IF m \in Metadata /\ m.installed = 1 THEN m.source ELSE Nothing
               e == [meta |-> m, vault |-> 1, stamp |-> 0, origin |-> o]
    <3>1. m \in Metadata \cup {Nothing, Garbage} /\ (m \in Metadata => m.source \in Digests)
      BY DEF Metadata
    <3>2. o \in Digests \cup {Nothing}
      BY <3>1, Zenon
    <3>3. dirs = <<e>>
      BY <2>2
    <3> HIDE DEF o
    <3>4. e \in Directories /\ e.meta = m /\ e.vault = 1 /\ e.origin = o
      BY <3>1, <3>2 DEF Directories
    <3> HIDE DEF e
    <3>5. DirInv(e)
      BY <3>1, <3>4, Zenon DEF DirInv, FreshnessAssumption, o
    <3>6. made \in 0..MaxDirs /\ 1..made = {1} /\ 1 \in 1..made
      BY <2>2 DEF FreshnessAssumption
    <3>7. dirs \in [{1} -> Directories] /\ dirs[1] = e
      BY <3>3, <3>4
    <3> QED BY <1>1, <2>2, <3>5, <3>6, <3>7, Zenon DEF FreshTypeOK, WriterInv
  <2> QED BY <2>1, <2>2 DEF FreshInit
<1>3. FreshnessTruthful
  BY <1>1, Zenon DEF FreshnessTruthful, VerdictOfOneGeneration, UnknownHasReason
<1> QED BY <1>1, <1>2, <1>3, Zenon DEF FreshnessInv

LEMMA FreshnessKept ==
    ASSUME FreshnessAssumption, FreshnessInv, [FreshNext]_freshVars
    PROVE  FreshnessInv'
<1>1. CASE UNCHANGED freshVars
  <2>1. UNCHANGED <<dirs, made, installed, backup, writer, reader, local, fd, meta, answer, views>>
    BY <1>1, Zenon DEF freshVars, writerVars, readerVars
  <2>2. FreshTypeOK' /\ WriterInv'
    <3>1. FreshTypeOK /\ WriterInv
      BY Zenon DEF FreshnessInv
    <3>2. FreshTypeOK'
      BY <2>1, <3>1, Zenon DEF FreshTypeOK
    <3>3. WriterInv'
      BY <2>1, <3>1, Zenon DEF WriterInv
    <3> QED BY <3>2, <3>3, Zenon
  <2>3. VerdictOfOneGeneration' /\ UnknownHasReason'
    BY <2>1, Zenon DEF FreshnessInv, FreshnessTruthful, VerdictOfOneGeneration, UnknownHasReason
  <2>4. reader' \in Reading => OpenInv' /\ ReadInv'
    BY <2>1, Zenon DEF FreshnessInv, OpenInv, ReadInv, Unchanged, Look
  <2> QED BY <2>1, <2>2, <2>3, <2>4, Zenon DEF FreshnessInv, FreshnessTruthful
<1>2. CASE Stage
  BY <1>2, StageKept, Zenon
<1>3. CASE Harden \/ MoveAside \/ Install \/ Settle
  BY <1>3, SwapKept, Zenon
<1>4. CASE Discard \/ Rollback \/ Revoke \/ RevokeKey
  BY <1>4, RemovalKept, Zenon
<1>5. CASE Ask
  BY <1>5, AskKept, Zenon
<1>6. CASE ReadMetadata \/ ReadVault \/ ReadMetadataAgain
  BY <1>6, ReadKept, Zenon
<1>7. CASE Reopen
  BY <1>7, ReopenKept, Zenon
<1>8. CASE Return
  BY <1>8, ReturnKept, Zenon
<1> QED BY <1>1, <1>2, <1>3, <1>4, <1>5, <1>6, <1>7, <1>8, Zenon DEF FreshNext

(* However many installations, rollbacks and deletions fall between the    *)
(* reads of verified_source_at_checked: Current and Stale speak of one     *)
(* profile that was installed and unchanged throughout, Current exactly if *)
(* it was made from the caller's ciphertext, and Unknown has a reason.     *)
THEOREM FreshnessRight ==
    ASSUME FreshnessAssumption
    PROVE  FreshSpec => []FreshnessTruthful
<1>1. FreshInit => FreshnessInv
  BY FreshnessStarts
<1>2. FreshnessInv /\ [FreshNext]_freshVars => FreshnessInv'
  BY FreshnessKept
<1>3. FreshnessInv => FreshnessTruthful
  BY DEF FreshnessInv
<1> QED BY <1>1, <1>2, <1>3, PTL DEF FreshSpec
====
