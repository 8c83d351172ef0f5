------------------------------ MODULE MCWorkers -------------------------------
(***************************************************************************)
(* What a worker process is made of, for TLC: the framing of its pipes,    *)
(* the codec of the engine protocol, the loading of the models, and the    *)
(* identity worker: one session with requests of every kind, and a session *)
(* and a worker for one request that change the vault under each other.    *)
(*                                                                         *)
(* The specifications share no variable, so what one of them does is the   *)
(* same whatever the others do.  A behaviour moves the one that part names *)
(* and leaves the others in an initial state.                              *)
(***************************************************************************)
EXTENDS IdentityWorker, FrameStream, WireCodec, ModelInventory, TLC

VARIABLE part

-----------------------------------------------------------------------------
(* Headers of four binary digits: lengths 0 to 15, 5 the largest accepted. *)
AnySend == {<< >>, <<1>>, <<0, 1>>, <<1, 0, 1, 1, 0>>, <<1, 1, 1, 1, 1, 1>>}

-----------------------------------------------------------------------------
(* Model directories.  Path 1 is the directory of the files.  The releases *)
(* share the detector; the second has another recogniser of the same size, *)
(* the third moved it.                                                     *)
Line(id, path, size, digest) ==
    [valid |-> TRUE, id |-> id, path |-> path, size |-> size, digest |-> digest]

File(size, digest) == [type |-> "file", content |-> [size |-> size, digest |-> digest]]

Text(lines) == [type |-> "file", content |-> [size |-> 5, header |-> TRUE, lines |-> lines]]

Release(recogniser, at3, at4) ==
    (0 :> Text(<<Line("yunet", 2, 1, "d1"), recogniser>>)) @@ (2 :> File(1, "d1"))
        @@ (1 :> [type |-> "dir", content |-> [size |-> 0, digest |-> "none"]])
        @@ (3 :> at3) @@ (4 :> at4) @@ (5 :> Nothing)

First == Release(Line("sface", 3, 2, "r1"), File(2, "r1"), Nothing)
Second == Release(Line("sface", 3, 2, "r2"), File(2, "r2"), Nothing)
Third == Release(Line("sface", 4, 2, "r1"), Nothing, File(2, "r1"))

AnyRelease == {First, Second, Third}

AnyStray == {File(3, "x"), [type |-> "symlink", content |-> [size |-> 1, digest |-> "d1"]]}

Reviewed == {Line("yunet", 2, 1, "d1"), Line("sface", 3, 2, "r1")}

(* Any manifest of up to three lines, alone. *)
AnyLine ==
    {Line(id, path, size, "d") : id \in {"a", "b", "c"}, path \in 1..3, size \in {0, 1}}
        \cup {[Line("a", 3, 1, "d") EXCEPT !.valid = FALSE]}

AnyManifest ==
    {[p \in 0..5 |-> IF p = 0 THEN [Text(ls) EXCEPT !.content.header = h] ELSE Nothing] :
        h \in BOOLEAN, ls \in UNION {[1..n -> AnyLine] : n \in 0..3}}

-----------------------------------------------------------------------------
(* Requests of every operation, and one for every way to be refused.       *)
Request(operation, generation, keys) ==
    [header |-> "whole", version |-> 1, generation |-> generation, timeout |-> 1000,
     operation |-> operation, flags |-> 0, keys |-> keys, count |-> -1, have |-> 0,
     good |-> TRUE, image |-> "none", who |-> "Ann"]

Verify(generation, face) == [Request("Verify", generation, <<1>>) EXCEPT !.image = face]

Commit(generation, count) ==
    [Request("Commit", generation, <<1>>) EXCEPT !.count = count, !.have = count]

Extraction(generation, count) ==
    [Request("Extract", generation, << >>) EXCEPT !.count = count, !.have = count, !.image = "Ann"]

Good ==
    {[Request("Status", 1, <<2>>) EXCEPT !.flags = 1], Extraction(2, 7), Commit(3, 8),
     Request("Summary", 4, <<1>>), Verify(5, "Ann"), Request("Delete", 6, <<1>>),
     Request("Rotate", 7, <<1, 2>>), Request("Validate", 8, <<1>>),
     Request("ResetUnreadable", 9, << >>), Request("GenerateKey", 10, << >>)}

Refused ==
    LET r == Request("GenerateKey", 11, << >>)
    IN  {[r EXCEPT !.header = "short"], [r EXCEPT !.version = 2], [r EXCEPT !.generation = 0],
         [r EXCEPT !.timeout = 10001], [r EXCEPT !.operation = "other"], [r EXCEPT !.flags = 1],
         Commit(12, 2), Extraction(13, 8), Verify(14, "short")}

(* Requests that change the vault under each other and verify. *)
Racing ==
    {[Commit(1, 3) EXCEPT !.who = "Ben"], Verify(2, "Ann"), Request("Rotate", 3, <<1, 2>>)}

Requests == Good \cup Refused \cup Racing

Ann == [key |-> 1, count |-> 3, who |-> "Ann"]
AnyVault == {None, Unreadable, Ann}

ASSUME FrameAssumption /\ CodecAssumption /\ InventoryAssumption /\ WorkerAssumption

-----------------------------------------------------------------------------
Start ==
    /\ part \in {"stream", "codec", "models", "manifests", "session", "racing"}
    /\ StreamInit /\ (part # "stream" => once)
    /\ CodecInit /\ (part # "codec" => message.type = "Status?")
    /\ LoadFrom(IF part = "models" THEN Releases
                ELSE IF part = "manifests" THEN AnyManifest ELSE {First})
    /\ Init
    /\ CASE part = "session" -> vault # None
         [] part = "racing" -> vault # Unreadable /\ models
         [] OTHER -> vault = None /\ models

(* A session alone, with good models or without; and one request to a      *)
(* session while a worker for one request may find another behind it.      *)
SessionMoves ==
    /\ Upgrade \/ \E w \in Sessions : Send(w) \/ HangUp(w) \/ Kill(w) \/ Work(w)
    /\ \A w \in Workers : Range(input'[w]) \subseteq Good \cup Refused

WorkersRace ==
    /\ \E w \in Workers : Send(w) \/ HangUp(w) \/ Kill(w) \/ Work(w)
    /\ \A w \in Workers : Range(input'[w]) \subseteq Racing
    /\ \A w \in Sessions : Len(read'[w]) + Len(input'[w]) <= 1

Move ==
    \/ part = "stream" /\ StreamNext /\ UNCHANGED <<part, codecVars, modelVars, vars>>
    \/ part = "codec" /\ CodecNext /\ UNCHANGED <<part, streamVars, modelVars, vars>>
    \/ part = "models" /\ LoadNext /\ UNCHANGED <<part, streamVars, codecVars, vars>>
    \/ part = "session" /\ SessionMoves /\ UNCHANGED <<part, streamVars, codecVars, modelVars>>
    \/ part = "racing" /\ WorkersRace /\ UNCHANGED <<part, streamVars, codecVars, modelVars>>

(* The fairness of the parts, for the part that moves. *)
Fairness ==
    /\ WF_streamVars(part = "stream" /\ Reader)
    /\ WF_streamVars(part = "stream" /\ Write)
    /\ WF_modelVars(part = "models" /\ Load)
    /\ \A w \in Workers : WF_vars(part \in {"session", "racing"} /\ Work(w))

Host == Start /\ [][Move]_<<part, streamVars, codecVars, modelVars, vars>> /\ Fairness

-----------------------------------------------------------------------------
(* The safety properties are stated in the modules of the components:      *)
(* VerdictOfStoredProfile, EffectsAsReported and RepliesFit in             *)
(* IdentityWorker, ImplementsChannel in FrameStream, ParsersExact in       *)
(* WireCodec, OneReleaseLoads in ModelInventory.  A conjunct of the one    *)
(* below is a statement of a component's module too.                       *)

(* Nothing waits for ever: read_frame returns when the sender is gone and  *)
(* every frame begun arrives, a load ends although its directory keeps     *)
(* changing, serve_session answers its requests and ends with its client.  *)
WorkEnds ==
    /\ ReaderEnds /\ FramesArrive
    /\ part = "models" => LoadEnds
    /\ RequestsAnswered /\ WorkerEnds
====
