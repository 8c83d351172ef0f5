--------------------------- MODULE ProfileFreshness ---------------------------
(***************************************************************************)
(* The freshness query (templates/src/freshness.rs): the daemon reads the  *)
(* metadata and the ciphertext of the installed system profile, without a  *)
(* lock, while kfaceauth-sync-vault stages, swaps, rolls back or deletes   *)
(* the profile directory.                                                  *)
(*                                                                         *)
(* A directory is an object with identity; its stamp stands for the change *)
(* and modification times, which a rename, a permission change and the     *)
(* removal of an entry advance.  A digest of a ciphertext is the           *)
(* ciphertext.                                                             *)
(***************************************************************************)
EXTENDS Naturals

CONSTANTS
    Digests,    \* digests of the user's own vault
    Nothing,    \* nothing of that name
    Garbage,    \* metadata that decode refuses
    MaxDirs,    \* bound of the model: profile directories ever made
    MaxTimes    \* bound of the model: changes after which a profile is not revoked

VARIABLES
    dirs,       \* [1..made -> the directory objects]
    made,       \* directories made so far
    installed,  \* the directory that has the user's name
    backup,     \* .kfaceauth-previous: the directory moved aside
    writer,     \* where the helper is
    reader,     \* where the reader is
    local,      \* the caller's digest
    fd,         \* the directory the reader opened, and its stamp then
    meta,       \* the metadata it read
    answer,     \* its answer
    views       \* what the user's name led to since the open (history)

writerVars == <<dirs, made, installed, backup, writer>>
readerVars == <<reader, local, fd, meta, answer, views>>
freshVars == <<writerVars, readerVars>>

Metadata == [source : Digests, installed : Nat]
Directories == [meta : Metadata \cup {Nothing, Garbage}, vault : Nat \cup {Nothing},
                origin : Digests \cup {Nothing}, stamp : Nat]

FreshnessAssumption ==
    /\ MaxDirs \in Nat \ {0} /\ MaxTimes \in Nat /\ Nothing # Garbage
    /\ Nothing \notin Nat \cup Digests \cup Metadata \cup (Nat \X Directories)
    /\ Garbage \notin Metadata

FreshTypeOK ==
    /\ made \in 0..MaxDirs /\ dirs \in [1..made -> Directories]
    /\ installed \in 1..made \cup {Nothing} /\ backup \in 1..made \cup {Nothing}
    /\ writer \in {"idle", "staged", "hardened", "aside", "swapped", "rollback", "revoked", "discard"}
    /\ reader \in {"idle", "meta", "vault", "reread", "reopen", "told"}
    /\ local \in Digests \cup {Nothing}
    /\ reader \in {"vault", "reread", "reopen"} => meta \in Metadata
    /\ answer \in {"none", "Unknown", "Current", "Stale"}

(* What the reader would find under the user's name. *)
Look == IF installed = Nothing THEN Nothing ELSE <<installed, dirs[installed]>>

(* No profile; one of this version; or one without metadata, with foreign  *)
(* metadata, or with metadata of another ciphertext.                       *)
FreshInit ==
    /\ \/ made = 0 /\ installed = Nothing /\ dirs = << >>
       \/ /\ made = 1 /\ installed = 1
          /\ \E m \in {Nothing, Garbage} \cup [source : Digests, installed : {0, 1}] :
                dirs = <<[meta |-> m, vault |-> 1, stamp |-> 0,
                         origin |-> IF m \in Metadata /\ m.installed = 1 THEN m.source
                                    ELSE Nothing]>>
    /\ backup = Nothing /\ writer = "idle"
    /\ reader = "idle" /\ local = Nothing /\ fd = Nothing /\ meta = Nothing
    /\ answer = "none" /\ views = {}

-----------------------------------------------------------------------------
(* The helper (sync_profile, install_staged_profile, ProfileSwap).         *)

Touched(i) == [dirs EXCEPT ![i].stamp = @ + 1]

(* What the reader sees of a step of the helper. *)
Seen == views' = IF reader \in {"idle", "told"} THEN views
                  ELSE views \cup {IF installed' = Nothing THEN Nothing
                                    ELSE <<installed', dirs'[installed']>>}

ReaderRests == UNCHANGED <<reader, local, fd, meta, answer>>

(* Mutant: the digest of the previous ciphertext is recorded. *)
StageOldDigest(s) == [source |-> s, installed |-> made]

(* The digest of the source snapshot and that of the staged ciphertext. *)
write_staged_metadata(s) == [source |-> s, installed |-> made + 1]

Stage ==
    /\ writer = "idle" /\ made < MaxDirs
    /\ made' = made + 1
    /\ \E s \in Digests :
          dirs' = [i \in 1..made' |-> IF i \in 1..made THEN dirs[i]
                    ELSE [meta |-> write_staged_metadata(s), vault |-> made',
                          origin |-> s, stamp |-> 0]]
    /\ writer' = "staged"
    /\ UNCHANGED <<installed, backup>> /\ Seen /\ ReaderRests

(* validate_and_harden_existing_profile sets the permissions again. *)
Harden ==
    /\ writer = "staged" /\ installed # Nothing
    /\ dirs' = Touched(installed) /\ writer' = "hardened"
    /\ UNCHANGED <<made, installed, backup>> /\ Seen /\ ReaderRests

MoveAside ==
    /\ writer = IF installed = Nothing THEN "staged" ELSE "hardened"
    /\ IF installed = Nothing THEN UNCHANGED <<dirs, installed, backup>>
       ELSE dirs' = Touched(installed) /\ backup' = installed /\ installed' = Nothing
    /\ writer' = "aside" /\ UNCHANGED made /\ Seen /\ ReaderRests

(* The staged directory gets the name, or the previous one back. *)
Install ==
    /\ writer = "aside"
    /\ \/ installed' = made /\ dirs' = Touched(made) /\ writer' = "swapped" /\ UNCHANGED backup
       \/ /\ IF backup = Nothing THEN UNCHANGED <<dirs, installed>>
             ELSE dirs' = Touched(backup) /\ installed' = backup
          /\ backup' = Nothing /\ writer' = "idle"
    /\ UNCHANGED made /\ Seen /\ ReaderRests

(* The swap is kept and the backup removed, or it is rolled back. *)
Settle ==
    /\ writer = "swapped"
    /\ \/ writer' = IF backup = Nothing THEN "idle" ELSE "discard"
       \/ writer' = "rollback"
    /\ UNCHANGED <<dirs, made, installed, backup>> /\ Seen /\ ReaderRests

(* remove_dir_all takes one entry after the other. *)
RemoveEntry(i) ==
    \/ dirs[i].meta # Nothing /\ dirs' = [Touched(i) EXCEPT ![i].meta = Nothing]
    \/ dirs[i].vault # Nothing /\ dirs' = [Touched(i) EXCEPT ![i].vault = Nothing]

Empty(i) == dirs[i].meta = Nothing /\ dirs[i].vault = Nothing

Discard ==
    /\ writer = "discard"
    /\ \/ RemoveEntry(backup) /\ UNCHANGED <<backup, writer>>
       \/ Empty(backup) /\ backup' = Nothing /\ writer' = "idle" /\ UNCHANGED dirs
    /\ UNCHANGED <<made, installed>> /\ Seen /\ ReaderRests

Rollback ==
    /\ writer = "rollback"
    /\ \/ /\ installed # Nothing /\ RemoveEntry(installed) /\ UNCHANGED <<installed, backup, writer>>
       \/ /\ installed # Nothing /\ Empty(installed) /\ installed' = Nothing
          /\ UNCHANGED <<dirs, backup, writer>>
       \/ /\ installed = Nothing /\ writer' = "idle" /\ backup' = Nothing
          /\ IF backup = Nothing THEN UNCHANGED <<dirs, installed>>
             ELSE dirs' = Touched(backup) /\ installed' = backup
    /\ UNCHANGED made /\ Seen /\ ReaderRests

(* A deletion of the profile: renamed out of service. *)
Revoke ==
    /\ writer = "idle" /\ installed # Nothing /\ dirs[installed].stamp < MaxTimes
    /\ dirs' = Touched(installed) /\ installed' = Nothing
    /\ backup' = installed /\ writer' = "revoked"
    /\ UNCHANGED made /\ Seen /\ ReaderRests

(* Then the key: if its rename fails the profile gets its name back. *)
RevokeKey ==
    /\ writer = "revoked"
    /\ \/ writer' = "discard" /\ UNCHANGED <<dirs, installed, backup>>
       \/ dirs' = Touched(backup) /\ installed' = backup /\ backup' = Nothing /\ writer' = "idle"
    /\ UNCHANGED made /\ Seen /\ ReaderRests

-----------------------------------------------------------------------------
(* The reader (profile_freshness, verified_source_at).                     *)

Replies(a) == answer' = a /\ reader' = "told" /\ UNCHANGED <<writerVars, local, fd, meta, views>>

Ask ==
    /\ reader = "idle"
    /\ local' \in Digests
    /\ views' = {Look}
    /\ IF installed = Nothing THEN reader' = "told" /\ answer' = "Unknown" /\ fd' = Nothing
       ELSE reader' = "meta" /\ answer' = "none" /\ fd' = <<installed, dirs[installed].stamp>>
    /\ UNCHANGED <<writerVars, meta>>

(* read_protected and decode *)
ReadMetadata ==
    /\ reader = "meta"
    /\ \/ dirs[fd[1]].meta \notin Metadata /\ Replies("Unknown")
       \/ /\ dirs[fd[1]].meta \in Metadata /\ meta' = dirs[fd[1]].meta /\ reader' = "vault"
          /\ UNCHANGED <<writerVars, local, fd, answer, views>>

ReadVault ==
    /\ reader = "vault"
    /\ \/ dirs[fd[1]].vault # meta.installed /\ Replies("Unknown")
       \/ /\ dirs[fd[1]].vault = meta.installed /\ reader' = "reread"
          /\ UNCHANGED <<writerVars, local, fd, meta, answer, views>>

ReadMetadataAgain ==
    /\ reader = "reread"
    /\ \/ dirs[fd[1]].meta # meta /\ Replies("Unknown")
       \/ dirs[fd[1]].meta = meta /\ reader' = "reopen"
          /\ UNCHANGED <<writerVars, local, fd, meta, answer, views>>

Verdict == IF meta.source = local THEN "Current" ELSE "Stale"

(* Mutant: the name is not looked up again. *)
AnswerUnchecked == reader = "reopen" /\ Replies(Verdict)

(* The name leads to the same directory with the same times. *)
Reopen ==
    /\ reader = "reopen"
    /\ IF installed = fd[1] /\ dirs[fd[1]].stamp = fd[2] THEN Replies(Verdict)
       ELSE Replies("Unknown")

Return ==
    /\ reader = "told" /\ reader' = "idle"
    /\ local' = Nothing /\ fd' = Nothing /\ meta' = Nothing /\ answer' = "none" /\ views' = {}
    /\ UNCHANGED writerVars

FreshNext ==
    \/ Stage \/ Harden \/ MoveAside \/ Install \/ Settle \/ Discard \/ Rollback
    \/ Revoke \/ RevokeKey
    \/ Ask \/ ReadMetadata \/ ReadVault \/ ReadMetadataAgain \/ Reopen \/ Return

FreshSpec == FreshInit /\ [][FreshNext]_freshVars

-----------------------------------------------------------------------------
(* Current and Stale speak of one profile that was installed, whole and    *)
(* unchanged from the open of its directory to the last comparison, and    *)
(* Current means it was made from the caller's own ciphertext, however the *)
(* helper's renames, rollbacks and removals fall between the reads         *)
(* (verified_source_at_checked).                                           *)
VerdictOfOneGeneration ==
    answer \in {"Current", "Stale"} =>
        \A w \in views :
            /\ w # Nothing /\ w[1] = fd[1] /\ w[2].stamp = fd[2]
            /\ w[2].vault = meta.installed
            /\ (answer = "Current") = (w[2].origin = local)

(* Unknown is answered only if there was nothing to verify at some moment  *)
(* of the call (no profile, one that the helper did not stage or is        *)
(* removing), or the helper changed the profile meanwhile: one staged by   *)
(* write_staged_metadata and left alone is never Unknown.                  *)
UnknownHasReason ==
    answer = "Unknown" =>
        \/ \E w \in views : \E v \in views : w # v
        \/ \E w \in views : w = Nothing
        \/ \E w \in views : w # Nothing /\ Nothing \in {w[2].origin, w[2].meta, w[2].vault}

(* What the query answers is right: the two statements above. *)
FreshnessTruthful == VerdictOfOneGeneration /\ UnknownHasReason
====
