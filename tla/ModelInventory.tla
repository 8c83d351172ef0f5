----------------------------- MODULE ModelInventory -----------------------------
(***************************************************************************)
(* load_and_verify_model_inventory and the providers built from its        *)
(* result, while the package that owns the model directory is being        *)
(* replaced: the loader looks at the directory in many steps, the package  *)
(* manager changes it file by file.                                        *)
(*                                                                         *)
(* A path is a number, in the order the manifest sorts by; the manifest    *)
(* itself is path 0.  The content of a model file is its size and digest;  *)
(* that of a manifest is its length and its lines, where `valid' stands    *)
(* for the token, path and digest syntax of a line.                        *)
(***************************************************************************)
EXTENDS Naturals, FiniteSets, Sequences, Functions

CONSTANTS
    Paths,                  \* of the directory's entries, without the manifest
    MAX_MANIFEST_ENTRIES, MAX_ARTIFACT_BYTES, MAX_MANIFEST_BYTES,
    Releases,               \* contents of the directory, by path
    Strays,                 \* entries that other programs leave there
    Expected,               \* the metadata a provider requires, a set of lines
    MaxChanges,             \* bound of the model: changes during a load
    Nothing

MAX_INVENTORY_ENTRIES == MAX_MANIFEST_ENTRIES * 2 + 1
Manifest == 0
Nodes == Paths \cup {Manifest}

VARIABLES
    disk,       \* Nodes -> Nothing or [type, content]
    changes,    \* how often it changed since the load began
    stable,     \* the entries that have been there since the load began
    point, meta, \* the loader: its point, and the metadata it read last
    manifest,   \* the lines it parsed
    visited,    \* the entries regular_files has seen
    files,      \* those that are files
    artifacts,  \* the files it verified
    outcome

modelVars == <<disk, changes, stable, point, meta, manifest, visited, files, artifacts, outcome>>

Present == {p \in Nodes : disk[p] # Nothing}

(* A load begins in one of these directories. *)
LoadFrom(directories) ==
    /\ disk \in directories /\ changes = 0 /\ stable = Present
    /\ point = "load_manifest" /\ meta = Nothing /\ manifest = << >>
    /\ visited = {} /\ files = {} /\ artifacts = << >> /\ outcome = "none"

LoadInit == LoadFrom(Releases)

-----------------------------------------------------------------------------
(* ModelManifest::parse: the entries, or Nothing.  The lines are accepted one *)
(* after the other.                                                        *)
ValidLine(line) == line.valid /\ line.size > 0 /\ line.size <= MAX_ARTIFACT_BYTES

(* Mutant: only the last path is compared, equal ones pass. *)
AcceptsLoosely(entries, line) ==
    /\ ValidLine(line)
    /\ entries # << >> => entries[Len(entries)].path <= line.path
    /\ \A i \in 1..Len(entries) : entries[i].id # line.id
    /\ Len(entries) < MAX_MANIFEST_ENTRIES

Accepts(entries, line) ==
    /\ ValidLine(line)
    /\ entries # << >> => entries[Len(entries)].path < line.path
    /\ \A i \in 1..Len(entries) : entries[i].id # line.id /\ entries[i].path # line.path
    /\ Len(entries) < MAX_MANIFEST_ENTRIES

parse(text) ==
    LET entries[n \in 0..Len(text.lines)] ==
            IF n = 0 THEN << >>
            ELSE IF entries[n - 1] = Nothing THEN Nothing
            ELSE IF Accepts(entries[n - 1], text.lines[n])
            THEN Append(entries[n - 1], text.lines[n]) ELSE Nothing
    IN  IF text.header /\ entries[Len(text.lines)] # << >> THEN entries[Len(text.lines)]
        ELSE Nothing

Stop(error) ==
    /\ point' = "done" /\ outcome' = error
    /\ UNCHANGED <<disk, changes, stable, meta, manifest, visited, files, artifacts>>

(* Mutant: a manifest of exactly the permitted length is refused. *)
load_shorter_manifest ==
    /\ point = "load_manifest"
    /\ LET node == disk[Manifest]
       IN  IF node = Nothing THEN Stop("Io")
           ELSE IF node.type # "file" THEN Stop("UnsafeFilesystemEntry")
           ELSE IF node.content.size = 0 \/ node.content.size >= MAX_MANIFEST_BYTES
           THEN Stop("InvalidManifest")
           ELSE /\ point' = "read_manifest" /\ meta' = node.content.size
                /\ UNCHANGED <<disk, changes, stable, manifest, visited, files, artifacts, outcome>>

(* symlink_metadata of the manifest: its type and length. *)
load_manifest ==
    /\ point = "load_manifest"
    /\ LET node == disk[Manifest]
       IN  IF node = Nothing THEN Stop("Io")
           ELSE IF node.type # "file" THEN Stop("UnsafeFilesystemEntry")
           ELSE IF node.content.size = 0 \/ node.content.size > MAX_MANIFEST_BYTES
           THEN Stop("InvalidManifest")
           ELSE /\ point' = "read_manifest" /\ meta' = node.content.size
                /\ UNCHANGED <<disk, changes, stable, manifest, visited, files, artifacts, outcome>>

(* Open and read, at most one byte more than the limit; compare with the   *)
(* length seen before; parse.                                              *)
read_manifest ==
    /\ point = "read_manifest"
    /\ IF disk[Manifest] = Nothing THEN Stop("Io")
       ELSE LET text == disk[Manifest].content
            IN  IF text.size # meta \/ parse(text) = Nothing THEN Stop("InvalidManifest")
                ELSE /\ point' = "regular_files" /\ manifest' = parse(text)
                     /\ UNCHANGED <<disk, changes, stable, meta, visited, files, artifacts, outcome>>

(* Mutant: directories are walked into again and again. *)
regular_files_again ==
    /\ point = "regular_files"
    /\ \E p \in Present \ visited :
          IF Cardinality(visited) = MAX_INVENTORY_ENTRIES THEN Stop("InventoryMismatch")
          ELSE IF disk[p].type \notin {"file", "dir"} THEN Stop("UnsafeFilesystemEntry")
          ELSE /\ visited' = IF disk[p].type = "dir" THEN visited ELSE visited \cup {p}
               /\ files' = IF disk[p].type = "file" THEN files \cup {p} ELSE files
               /\ UNCHANGED <<disk, changes, stable, point, meta, manifest, artifacts, outcome>>

(* One entry of the walk.  The order is the directory's; an entry that is  *)
(* replaced meanwhile is seen once, one that comes or goes may be missed.  *)
regular_files ==
    /\ point = "regular_files"
    /\ \E p \in Present \ visited :
          IF Cardinality(visited) = MAX_INVENTORY_ENTRIES THEN Stop("InventoryMismatch")
          ELSE IF disk[p].type \notin {"file", "dir"} THEN Stop("UnsafeFilesystemEntry")
          ELSE /\ visited' = visited \cup {p}
               /\ files' = IF disk[p].type = "file" THEN files \cup {p} ELSE files
               /\ UNCHANGED <<disk, changes, stable, point, meta, manifest, artifacts, outcome>>

Listed == {manifest[i].path : i \in 1..Len(manifest)}

(* Mutant: only missing files are noticed. *)
inventory_matches_loosely == Listed \subseteq files

inventory_matches == files \ {Manifest} = Listed

WalkEnds ==
    /\ point = "regular_files" /\ stable \cap Present \subseteq visited
    /\ IF ~inventory_matches THEN Stop("InventoryMismatch")
       ELSE /\ point' = "entry_metadata"
            /\ UNCHANGED <<disk, changes, stable, meta, manifest, visited, files, artifacts, outcome>>

Entry == manifest[Len(artifacts) + 1]

(* load_verified_entry: no symlink on the way, a file of the listed size;  *)
(* then the bytes, their number and their digest.                          *)
entry_metadata ==
    /\ point = "entry_metadata"
    /\ LET node == disk[Entry.path]
       IN  IF node = Nothing THEN Stop("Io")
           ELSE IF node.type # "file" THEN Stop("UnsafeFilesystemEntry")
           ELSE IF node.content.size # Entry.size THEN Stop("ArtifactSizeMismatch")
           ELSE /\ point' = "read_entry"
                /\ UNCHANGED <<disk, changes, stable, meta, manifest, visited, files, artifacts, outcome>>

(* Mutant: a file that was checked before it was opened is trusted. *)
read_entry_unchecked ==
    /\ point = "read_entry"
    /\ LET node == disk[Entry.path]
       IN  IF node = Nothing THEN Stop("Io")
           ELSE /\ artifacts' = Append(artifacts, [entry |-> Entry, content |-> node.content])
                /\ point' = IF Len(artifacts') = Len(manifest) THEN "provider" ELSE "entry_metadata"
                /\ UNCHANGED <<disk, changes, stable, meta, manifest, visited, files, outcome>>

read_entry ==
    /\ point = "read_entry"
    /\ LET node == disk[Entry.path]
       IN  IF node = Nothing THEN Stop("Io")
           ELSE IF node.content.size # Entry.size THEN Stop("ArtifactSizeMismatch")
           ELSE IF node.content.digest # Entry.digest THEN Stop("ArtifactDigestMismatch")
           ELSE /\ artifacts' = Append(artifacts, [entry |-> Entry, content |-> node.content])
                /\ point' = IF Len(artifacts') = Len(manifest) THEN "provider" ELSE "entry_metadata"
                /\ UNCHANGED <<disk, changes, stable, meta, manifest, visited, files, outcome>>

(* Mutant: the model is looked up by its name only. *)
require_named(line) == \E i \in 1..Len(manifest) : manifest[i].id = line.id

(* The entry with the expected id has the expected metadata. *)
require_expected_metadata(line) == \E i \in 1..Len(manifest) : manifest[i] = line

(* IdentityProvider::from_model_root: the detector and the recogniser from *)
(* the verified bytes; the native constructors may fail.                   *)
from_model_root ==
    /\ point = "provider"
    /\ IF \A line \in Expected : require_expected_metadata(line)
       THEN Stop("provider") \/ Stop("Runtime")
       ELSE Stop("UnexpectedModelMetadata")

-----------------------------------------------------------------------------
(* The package manager and others: an entry is put, replaced or removed.   *)
Change ==
    /\ changes < MaxChanges /\ point # "done" /\ changes' = changes + 1
    /\ \E p \in Nodes :
          \/ \E r \in Releases :
                r[p] # disk[p] /\ disk' = [disk EXCEPT ![p] = r[p]]
          \/ \E node \in Strays :
                p # Manifest /\ disk[p] = Nothing /\ disk' = [disk EXCEPT ![p] = node]
    /\ stable' = {p \in stable : disk'[p] # Nothing}
    /\ UNCHANGED <<point, meta, manifest, visited, files, artifacts, outcome>>

Load ==
    \/ load_manifest \/ read_manifest \/ regular_files \/ WalkEnds
    \/ entry_metadata \/ read_entry \/ from_model_root

LoadNext == Load \/ Change

LoadSpec == LoadInit /\ [][LoadNext]_modelVars /\ WF_modelVars(Load)

-----------------------------------------------------------------------------
LoadTypeOK ==
    /\ changes \in 0..MaxChanges /\ visited \subseteq Nodes /\ stable \subseteq Nodes
    /\ Cardinality(visited) <= MAX_INVENTORY_ENTRIES
    /\ Len(manifest) <= MAX_MANIFEST_ENTRIES /\ Len(artifacts) <= Len(manifest)
    /\ point \in {"load_manifest", "read_manifest", "regular_files", "entry_metadata",
               "read_entry", "provider", "done"}

Loaded == point = "provider" \/ outcome \in {"provider", "Runtime"}

(* What the parser accepts, by definition: a list of valid lines in        *)
(* strictly increasing order of path, with distinct ids, neither empty nor *)
(* too long, below the two lines of the header.                            *)
WellFormed(text) ==
    /\ text.header /\ Len(text.lines) \in 1..MAX_MANIFEST_ENTRIES
    /\ \A i \in 1..Len(text.lines) : ValidLine(text.lines[i])
    /\ \A i, j \in 1..Len(text.lines) :
          i < j => /\ text.lines[i].path < text.lines[j].path
                   /\ text.lines[i].id # text.lines[j].id

(* What the packages are assumed to be.  A release has a manifest, whose   *)
(* lines have numbers for the path and the size; if it is well-formed, it  *)
(* describes the release: files and directories and no more of them than   *)
(* the walk accepts, and of the files exactly the listed ones, with the    *)
(* listed size and digest.                                                 *)
IsText(text) ==
    /\ text.lines \in Seq(Range(text.lines))
    /\ \A i \in 1..Len(text.lines) : text.lines[i].path \in Nat /\ text.lines[i].size \in Nat
    /\ \A n \in 0..Len(text.lines) : SubSeq(text.lines, 1, n) # Nothing

Described(r) ==
    LET lines == r[Manifest].content.lines
        there == {p \in Nodes : r[p] # Nothing}
    IN  /\ \A p \in there : r[p].type \in {"file", "dir"}
        /\ Cardinality(there) <= MAX_INVENTORY_ENTRIES
        /\ {p \in there \ {Manifest} : r[p].type = "file"}
               = {lines[i].path : i \in 1..Len(lines)}
        /\ \A i \in 1..Len(lines) :
              r[lines[i].path].content = [size |-> lines[i].size, digest |-> lines[i].digest]

IsRelease(r) ==
    /\ DOMAIN r = Nodes
    /\ r[Manifest] # Nothing /\ r[Manifest].type = "file" /\ IsText(r[Manifest].content)
    /\ r[Manifest].content.size \in 1..MAX_MANIFEST_BYTES
    /\ WellFormed(r[Manifest].content) => Described(r)

IsArtifact(node) ==
    node.content = [size |-> node.content.size, digest |-> node.content.digest]

InventoryAssumption ==
    /\ IsFiniteSet(Paths) /\ Manifest \notin Paths
    /\ {MAX_MANIFEST_ENTRIES, MAX_MANIFEST_BYTES, MaxChanges} \subseteq Nat
    /\ \A r \in Releases : IsRelease(r)
    /\ \A p \in Paths, r \in Releases : r[p] # Nothing => IsArtifact(r[p])
    /\ \A node \in Strays : node # Nothing /\ IsArtifact(node)
    \* No package makes a directory of what another one has as a file.
    /\ \A p \in Paths, r, s \in Releases :
          r[p] # Nothing /\ s[p] # Nothing => (r[p].type = "dir" <=> s[p].type = "dir")

(* ModelManifest::parse decides line by line what WellFormed says of the   *)
(* whole, and keeps every line.                                            *)
ParserDecides ==
    LET text == disk[Manifest].content
    IN  disk[Manifest] # Nothing =>
            parse(text) = IF WellFormed(text) THEN text.lines ELSE Nothing

(* Although it reads the directory in many steps, the loader never accepts *)
(* a mixture of releases: the files it verified are those of the release   *)
(* whose manifest it read.                                                 *)
OneRelease ==
    Loaded => \E r \in Releases :
        /\ parse(r[Manifest].content) = manifest
        /\ \A i \in 1..Len(artifacts) : r[artifacts[i].entry.path].content = artifacts[i].content

(* "closed model inventory": a file that is not listed and was there all   *)
(* the time makes the load fail.                                           *)
Closed ==
    Loaded => \A p \in stable \ {Manifest} : disk[p].type # "dir" => p \in Listed

(* A complete release that nobody touches is loaded: no check refuses what *)
(* another one demands.                                                    *)
QuietLoads ==
    changes = 0 /\ parse(disk[Manifest].content) # Nothing =>
        outcome \in {"none", "provider", "Runtime", "UnexpectedModelMetadata"}

(* The bytes a provider is made of are those of the reviewed models.       *)
ReviewedOnly ==
    outcome = "provider" =>
        \A line \in Expected : \E i \in 1..Len(artifacts) :
            /\ artifacts[i].entry.id = line.id
            /\ artifacts[i].content = [size |-> line.size, digest |-> line.digest]

(* A load ends, also in a directory that keeps changing. *)
LoadEnds == <>(point = "done")

(* load_and_verify_model_inventory looks at the models in many steps and   *)
(* accepts one whole release or nothing: no mixture, no file that is not   *)
(* listed, no bytes but those of the reviewed models.  A release that      *)
(* nobody touches does load, and ModelManifest::parse keeps every line of  *)
(* the manifests it accepts.                                               *)
OneReleaseLoads == OneRelease /\ Closed /\ ReviewedOnly /\ QuietLoads /\ ParserDecides
====
