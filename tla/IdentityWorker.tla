---------------------------- MODULE IdentityWorker ----------------------------
(***************************************************************************)
(* kfaceauth-identity-worker (engine/identity): workers that serve one     *)
(* request, or a session of requests until end of file, on one template    *)
(* vault and one model directory, while a package upgrade may make the     *)
(* models unloadable for a while.                                          *)
(*                                                                         *)
(* A vault operation is one step here, as VaultStore promises and          *)
(* TemplateVault implements; it may fail before or after it took effect.   *)
(* A request payload is a record of what parse_request tells apart.        *)
(***************************************************************************)
EXTENDS Integers, FiniteSets, Sequences

CONSTANTS
    Workers,
    Sessions,      \* the workers started with --session
    Keys, Faces,
    Payloads,      \* request payloads a client may send
    Extractions,   \* the ways an extraction may fail
    Vaults,        \* what the vault may hold at the start
    None,          \* no vault
    Unreadable,    \* a vault that is damaged or of another build
    MaxRequests,   \* bound of the model: requests per worker
    MaxUpgrades,   \* bound of the model: changes of the model directory
    MaxFaults      \* bound of the model: failing vault calls, lost pipes, kills

VARIABLES
    vault,         \* None, Unreadable, or key, sample count and face
    models,        \* do the installed models pass verification
    input, hangup, \* [Workers -> requests on the way], [Workers -> open, closed or cut]
    pc, cur, cache, profile, reply,
    out,           \* [Workers -> responses written]
    read,          \* [Workers -> requests read] (history)
    window,        \* [Workers -> vaults since the request was read] (history)
    bad,           \* [Workers -> were the models bad since then] (history)
    did,           \* [Workers -> did this request change the vault] (history)
    hit,           \* [Workers -> did a vault call of this request fail] (history)
    changed,       \* workers that ever changed the vault (history)
    upgrades, faults

pipes == <<input, hangup>>
workerVars == <<pc, cur, cache, profile, reply, out>>
history == <<read, window, bad, did, hit, changed>>
vars == <<vault, models, pipes, workerVars, history, upgrades, faults>>

-----------------------------------------------------------------------------
VERSION == 1
MAX_TIMEOUT_MS == 10000
MINIMUM_PROFILE_SAMPLES == 3
MAXIMUM_PROFILE_SAMPLES == 8

WorkerErrorCode == {"InvalidRequest", "UnsupportedVersion", "UnsupportedOperation",
    "InvalidGeneration", "InvalidTimeout", "InvalidFrame", "NoFace", "MultipleFaces",
    "PoorQuality", "FaceGeometry", "DuplicateSample", "ProfileBounds", "NoProfile",
    "VaultLocked", "VaultCorrupt", "ModelMismatch", "KeyUnavailable", "Cancelled",
    "DeadlineExceeded", "ModelUnavailable", "RateLimited", "InternalFailure", "SpoofDetected"}

IdentityError == {"Cancelled", "DeadlineExceeded", "NoFace", "MultipleFaces", "PoorQuality",
    "FaceGeometry", "LivenessUnavailable", "SpoofDetected", "InvalidEmbedding", "Runtime"}

Stored == [key : Keys, count : MINIMUM_PROFILE_SAMPLES..MAXIMUM_PROFILE_SAMPLES, who : Faces]

Responses == [kind : {"status", "sample", "ack", "verification", "key", "error"},
              code : WorkerErrorCode \cup
                  {"0", "Absent", "Ready", "Corrupt", "Unavailable", "Match", "NoMatch"},
              generation : Nat]

(* A payload: how much of the header is there, the header's fields, the    *)
(* keys in front, the count byte (-1 for none), the embeddings behind it,  *)
(* and the image: "none", shorter than its header, with a bad header, or   *)
(* of somebody.                                                            *)
PayloadAssumption ==
    \A p \in Payloads :
        /\ p.header \in {"short", "cut", "whole"} /\ p.generation \in Nat
        /\ p.count \in Nat \cup {-1} /\ p.who \in Faces
        /\ p.have \in 0..p.count \/ p.have = 0
        /\ p.keys \in Seq(Keys) /\ p.image \in {"none", "short", "bad"} \cup Faces
        /\ p.operation = "Extract" => p.keys = << >>
        /\ p.operation \in {"Commit", "Verify"} /\ p.keys = << >> =>
              p.count = -1 /\ p.image = "none"

WorkerAssumption ==
    /\ PayloadAssumption
    /\ Sessions \subseteq Workers /\ Extractions \subseteq IdentityError
    /\ Vaults \subseteq {None, Unreadable} \cup Stored

Generation(p) == IF p.header = "short" THEN 0 ELSE p.generation

JustKeys(p, n) == p.flags = 0 /\ Len(p.keys) = n /\ p.count = -1 /\ p.image = "none"

parse_image(p) == IF p.image \in {"none", "short", "bad"} THEN "InvalidFrame" ELSE "ok"

parse_embeddings(p) ==
    CASE p.count = -1 -> "InvalidRequest"
      [] p.count > MAXIMUM_PROFILE_SAMPLES -> "ProfileBounds"
      [] p.count \in 0..MAXIMUM_PROFILE_SAMPLES ->
            IF p.have # p.count \/ ~p.good THEN "InvalidRequest" ELSE "ok"

(* One sample less than a profile may have: the new one is to fit. *)
parse_enrollment_image(p) ==
    CASE p.count = -1 -> "InvalidRequest"
      [] p.count >= MAXIMUM_PROFILE_SAMPLES -> "ProfileBounds"
      [] p.count \in 0..(MAXIMUM_PROFILE_SAMPLES - 1) ->
            IF p.have < p.count \/ p.image = "none" THEN "InvalidRequest"
            ELSE IF parse_embeddings(p) # "ok" THEN parse_embeddings(p)
            ELSE parse_image(p)

(* What the arms of the operation table make of the body. *)
Body(p) ==
    LET Shape(fits) == IF fits THEN "ok" ELSE "InvalidRequest"
    IN  CASE p.operation = "Status" ->
                Shape(\/ JustKeys(p, 0)
                      \/ p.flags = 1 /\ Len(p.keys) = 1 /\ p.count = -1 /\ p.image = "none")
          [] p.operation = "Extract" ->
                IF p.flags # 0 THEN "InvalidRequest" ELSE parse_enrollment_image(p)
          [] p.operation = "Commit" ->
                IF p.flags # 0 \/ p.keys = << >> THEN "InvalidRequest"
                ELSE IF parse_embeddings(p) # "ok" THEN parse_embeddings(p)
                ELSE Shape(p.image = "none")
          [] p.operation = "Verify" ->
                IF p.flags # 0 \/ p.image = "none" THEN "InvalidRequest" ELSE parse_image(p)
          [] p.operation \in {"Summary", "Delete", "Validate"} -> Shape(JustKeys(p, 1))
          [] p.operation = "Rotate" -> Shape(JustKeys(p, 2))
          [] p.operation \in {"ResetUnreadable", "GenerateKey"} -> Shape(JustKeys(p, 0))
          [] OTHER -> "UnsupportedOperation"

parse_request(p) ==
    CASE p.header # "whole" -> "InvalidRequest"
      [] p.header = "whole" /\ p.version # VERSION -> "UnsupportedVersion"
      [] p.header = "whole" /\ p.version = VERSION ->
            IF p.generation = 0 THEN "InvalidGeneration"
            ELSE IF p.timeout \notin 1..MAX_TIMEOUT_MS THEN "InvalidTimeout"
            ELSE Body(p)

-----------------------------------------------------------------------------
Idle == [operation |-> "none"]
NoReply == [kind |-> "none"]

TypeOK ==
    /\ vault \in {None, Unreadable} \cup Stored
    /\ models \in BOOLEAN
    /\ input \in [Workers -> Seq(Payloads)] /\ hangup \in [Workers -> {"open", "closed", "cut"}]
    /\ pc \in [Workers -> {"read", "eof", "parse", "load", "vault", "extract", "write",
                           "ok", "error", "killed"}]
    /\ cur \in [Workers -> Payloads \cup {Idle}] /\ cache \in [Workers -> BOOLEAN]
    /\ \A w \in Workers : pc[w] = "write" => reply[w] \in Responses
    /\ out \in [Workers -> Seq(Responses)]

Init ==
    /\ vault \in Vaults /\ models \in BOOLEAN
    /\ input = [w \in Workers |-> << >>] /\ hangup = [w \in Workers |-> "open"]
    /\ pc = [w \in Workers |-> "read"] /\ cur = [w \in Workers |-> Idle]
    /\ cache = [w \in Workers |-> FALSE] /\ profile = [w \in Workers |-> None]
    /\ reply = [w \in Workers |-> NoReply] /\ out = [w \in Workers |-> << >>]
    /\ read = [w \in Workers |-> << >>] /\ window = [w \in Workers |-> {}]
    /\ bad = [w \in Workers |-> FALSE] /\ did = [w \in Workers |-> FALSE]
    /\ hit = [w \in Workers |-> FALSE] /\ changed = {}
    /\ upgrades = 0 /\ faults = 0

Goes(w, point) == pc' = [pc EXCEPT ![w] = point]

Answers(w, kind, code) ==
    /\ Goes(w, "write")
    /\ reply' = [reply EXCEPT ![w] =
           [kind |-> kind, code |-> code, generation |-> Generation(cur[w])]]

encode_error(w, code) == Answers(w, "error", code)

-----------------------------------------------------------------------------
(* The client, which may run ahead of the worker; it closes the pipe       *)
(* between requests or within one.                                         *)
Send(w) ==
    /\ hangup[w] = "open" /\ Len(read[w]) + Len(input[w]) < MaxRequests
    /\ \E p \in Payloads : input' = [input EXCEPT ![w] = Append(@, p)]
    /\ UNCHANGED <<vault, models, hangup, workerVars, history, upgrades, faults>>

HangUp(w) ==
    /\ hangup[w] = "open"
    /\ \/ hangup' = [hangup EXCEPT ![w] = "closed"] /\ UNCHANGED faults
       \/ faults < MaxFaults /\ faults' = faults + 1 /\ hangup' = [hangup EXCEPT ![w] = "cut"]
    /\ UNCHANGED <<vault, models, input, workerVars, history, upgrades>>

(* The client's timers kill the worker. *)
Kill(w) ==
    /\ pc[w] \notin {"ok", "error", "killed"} /\ faults < MaxFaults /\ faults' = faults + 1
    /\ Goes(w, "killed")
    /\ UNCHANGED <<vault, models, pipes, cur, cache, profile, reply, out, history, upgrades>>

(* A package upgrade replaces the model files one by one. *)
Upgrade ==
    /\ upgrades < MaxUpgrades /\ upgrades' = upgrades + 1 /\ models' = ~models
    /\ bad' = [w \in Workers |-> bad[w] \/ ~models']
    /\ UNCHANGED <<vault, pipes, workerVars, read, window, did, hit, changed, faults>>

-----------------------------------------------------------------------------
(* Mutant: a request is processed as soon as it is there. *)
ReadRequestOnly(w) ==
    /\ pc[w] = "read"
    /\ \/ /\ input[w] # << >>
          /\ cur' = [cur EXCEPT ![w] = Head(input[w])]
          /\ input' = [input EXCEPT ![w] = Tail(@)]
          /\ read' = [read EXCEPT ![w] = Append(@, Head(input[w]))]
          /\ window' = [window EXCEPT ![w] = {vault}] /\ bad' = [bad EXCEPT ![w] = ~models]
          /\ did' = [did EXCEPT ![w] = FALSE] /\ hit' = [hit EXCEPT ![w] = FALSE]
          /\ Goes(w, "parse")
       \/ /\ input[w] = << >> /\ hangup[w] # "open"
          /\ Goes(w, IF hangup[w] = "closed" /\ w \in Sessions THEN "ok" ELSE "error")
          /\ UNCHANGED <<cur, input, read, window, bad, did, hit>>
    /\ UNCHANGED <<vault, models, hangup, cache, profile, reply, out, changed, upgrades, faults>>

(* Mutant: an empty pipe is waited on, closed or not. *)
ReadNext(w) ==
    /\ pc[w] = "read" /\ input[w] # << >>
    /\ cur' = [cur EXCEPT ![w] = Head(input[w])] /\ input' = [input EXCEPT ![w] = Tail(@)]
    /\ read' = [read EXCEPT ![w] = Append(@, Head(input[w]))]
    /\ window' = [window EXCEPT ![w] = {vault}] /\ bad' = [bad EXCEPT ![w] = ~models]
    /\ did' = [did EXCEPT ![w] = FALSE] /\ hit' = [hit EXCEPT ![w] = FALSE]
    /\ Goes(w, IF w \in Sessions THEN "parse" ELSE "eof")
    /\ UNCHANGED <<vault, models, hangup, cache, profile, reply, out, changed, upgrades, faults>>

(* read_frame in serve_once, read_frame_or_eof in serve_session: a clean   *)
(* end is an error to the first and the end of the second.                 *)
ReadRequest(w) ==
    /\ pc[w] = "read"
    /\ \/ /\ input[w] # << >>
          /\ cur' = [cur EXCEPT ![w] = Head(input[w])]
          /\ input' = [input EXCEPT ![w] = Tail(@)]
          /\ read' = [read EXCEPT ![w] = Append(@, Head(input[w]))]
          /\ window' = [window EXCEPT ![w] = {vault}] /\ bad' = [bad EXCEPT ![w] = ~models]
          /\ did' = [did EXCEPT ![w] = FALSE] /\ hit' = [hit EXCEPT ![w] = FALSE]
          /\ Goes(w, IF w \in Sessions THEN "parse" ELSE "eof")
       \/ /\ input[w] = << >> /\ hangup[w] # "open"
          /\ Goes(w, IF hangup[w] = "closed" /\ w \in Sessions THEN "ok" ELSE "error")
          /\ UNCHANGED <<cur, input, read, window, bad, did, hit>>
    /\ UNCHANGED <<vault, models, hangup, cache, profile, reply, out, changed, upgrades, faults>>

RequireEof(w) ==
    /\ pc[w] = "eof"
    /\ \/ (input[w] # << >> \/ hangup[w] = "cut") /\ Goes(w, "error")
       \/ input[w] = << >> /\ hangup[w] = "closed" /\ Goes(w, "parse")
    /\ UNCHANGED <<vault, models, pipes, cur, cache, profile, reply, out, history, upgrades, faults>>

(* The first thing each arm of process_request_with_cache needs. *)
ParseRequest(w) ==
    /\ pc[w] = "parse"
    /\ LET code == parse_request(cur[w])
       IN  IF code # "ok" THEN encode_error(w, code)
           ELSE /\ Goes(w, IF cur[w].operation \in {"Status", "Extract"} THEN "load" ELSE "vault")
                /\ UNCHANGED reply
    /\ UNCHANGED <<vault, models, pipes, cur, cache, profile, out, history, upgrades, faults>>

AfterLoad(w) == Goes(w, IF cur[w].operation = "Status" THEN "vault" ELSE "extract")

(* Mutant: models that failed to load once are not tried again. *)
get_provider_once(w) ==
    /\ pc[w] = "load"
    /\ IF cache[w] THEN encode_error(w, "ModelUnavailable") /\ UNCHANGED cache
       ELSE IF models THEN AfterLoad(w) /\ UNCHANGED <<cache, reply>>
       ELSE cache' = [cache EXCEPT ![w] = TRUE] /\ encode_error(w, "ModelUnavailable")
    /\ UNCHANGED <<vault, models, pipes, cur, profile, out, history, upgrades, faults>>

(* Mutant: bad models are waited out. *)
get_provider_later(w) ==
    /\ pc[w] = "load" /\ (cache[w] \/ models)
    /\ cache' = [cache EXCEPT ![w] = TRUE] /\ AfterLoad(w)
    /\ UNCHANGED <<reply, vault, models, pipes, cur, profile, out, history, upgrades, faults>>

(* A provider that was loaded stays for the session; a failure is not      *)
(* kept.  serve_once starts without one.                                   *)
get_provider(w) ==
    /\ pc[w] = "load"
    /\ IF cache[w] \/ models
       THEN cache' = [cache EXCEPT ![w] = TRUE] /\ AfterLoad(w) /\ UNCHANGED reply
       ELSE UNCHANGED cache /\ encode_error(w, "ModelUnavailable")
    /\ UNCHANGED <<vault, models, pipes, cur, profile, out, history, upgrades, faults>>

-----------------------------------------------------------------------------
map_identity_error(e) ==
    CASE e \in {"LivenessUnavailable", "InvalidEmbedding", "Runtime"} -> "InternalFailure"
      [] OTHER -> e

map_vault_error(e) ==
    CASE e = "NotFound" -> "NoProfile"
      [] e \in {"Crypto", "Corrupt"} -> "VaultCorrupt"
      [] e = "ProfileBounds" -> "ProfileBounds"
      [] e = "Io" -> "InternalFailure"

(* Mutant: any key opens a vault. *)
OpensAnyKey(key) ==
    IF vault = None THEN "NotFound" ELSE IF vault = Unreadable THEN "Corrupt" ELSE "ok"

Opens(key) ==
    IF vault = None THEN "NotFound"
    ELSE IF vault = Unreadable THEN "Corrupt"
    ELSE IF vault.key # key THEN "Crypto" ELSE "ok"

Writers == {"Commit", "Rotate", "Delete", "ResetUnreadable"}

(* What the vault says before it changes anything. *)
Refusal(p) ==
    CASE p.operation = "Commit" ->
            IF p.count \notin MINIMUM_PROFILE_SAMPLES..MAXIMUM_PROFILE_SAMPLES THEN "ProfileBounds"
            ELSE IF vault = None THEN "ok" ELSE Opens(p.keys[1])
      [] p.operation \in {"Rotate", "Delete"} -> Opens(p.keys[1])
      [] p.operation = "ResetUnreadable" -> IF vault = None THEN "NotFound" ELSE "ok"

Changed(p) ==
    CASE p.operation = "Commit" -> [key |-> p.keys[1], count |-> p.count, who |-> p.who]
      [] p.operation = "Rotate" -> [vault EXCEPT !.key = p.keys[2]]
      [] OTHER -> None

Failing == faults < MaxFaults /\ faults' = faults + 1

(* Mutant: an answer before the work is done. *)
ChangeVaultLater(w) ==
    /\ pc[w] = "vault" /\ cur[w].operation \in Writers
    /\ LET e == Refusal(cur[w])
       IN  IF e # "ok"
           THEN encode_error(w, map_vault_error(e)) /\ UNCHANGED <<vault, window, did, hit, changed, faults>>
           ELSE \/ Answers(w, "ack", "0") /\ UNCHANGED <<vault, window, did, hit, changed, faults>>
                \/ /\ vault' = Changed(cur[w]) /\ Answers(w, "ack", "0")
                   /\ window' = [v \in Workers |-> window[v] \cup {vault'}]
                   /\ did' = [did EXCEPT ![w] = TRUE] /\ changed' = changed \cup {w}
                   /\ UNCHANGED <<hit, faults>>
    /\ UNCHANGED <<models, pipes, cur, cache, profile, out, read, bad, upgrades>>

(* A change that took effect may still be reported as failed: the          *)
(* directory is synchronised after the rename or the removal.              *)
ChangeVault(w) ==
    /\ pc[w] = "vault" /\ cur[w].operation \in Writers
    /\ LET e == Refusal(cur[w])
       IN  IF e # "ok"
           THEN encode_error(w, map_vault_error(e)) /\ UNCHANGED <<vault, window, did, hit, changed, faults>>
           ELSE /\ vault' = Changed(cur[w])
                /\ window' = [v \in Workers |-> window[v] \cup {vault'}]
                /\ did' = [did EXCEPT ![w] = TRUE] /\ changed' = changed \cup {w}
                /\ \/ Answers(w, "ack", "0") /\ UNCHANGED <<hit, faults>>
                   \/ Failing /\ hit' = [hit EXCEPT ![w] = TRUE] /\ encode_error(w, "InternalFailure")
    /\ UNCHANGED <<models, pipes, cur, cache, profile, out, read, bad, upgrades>>

StatusOf(e) ==
    CASE e = "ok" -> "Ready"
      [] e = "NotFound" -> "Absent"
      [] e \in {"Crypto", "Corrupt"} -> "Corrupt"

status(p) ==
    IF vault = None THEN "Absent" ELSE IF p.keys = << >> THEN "Unavailable"
    ELSE StatusOf(Opens(p.keys[1]))

ReadVault(w) ==
    /\ pc[w] = "vault" /\ cur[w].operation \in {"Status", "Summary", "Validate", "Verify"}
    /\ CASE cur[w].operation \in {"Status", "Summary"} ->
               Answers(w, "status", status(cur[w])) /\ UNCHANGED profile
         [] cur[w].operation = "Validate" ->
               /\ IF Opens(cur[w].keys[1]) = "ok" THEN Answers(w, "status", "Ready")
                  ELSE encode_error(w, map_vault_error(Opens(cur[w].keys[1])))
               /\ UNCHANGED profile
         [] cur[w].operation = "Verify" ->
               IF Opens(cur[w].keys[1]) = "ok"
               THEN profile' = [profile EXCEPT ![w] = vault] /\ Goes(w, "load") /\ UNCHANGED reply
               ELSE encode_error(w, map_vault_error(Opens(cur[w].keys[1]))) /\ UNCHANGED profile
    /\ UNCHANGED <<vault, models, pipes, cur, cache, out, history, upgrades, faults>>

GenerateKey(w) ==
    /\ pc[w] = "vault" /\ cur[w].operation = "GenerateKey"
    /\ \/ Answers(w, "key", "0") /\ UNCHANGED faults
       \/ Failing /\ encode_error(w, map_vault_error("Crypto"))
    /\ UNCHANGED <<vault, models, pipes, cur, cache, profile, out, history, upgrades>>

(* Vault::production, or a call on the vault, fails without an effect. *)
VaultFails(w) ==
    /\ pc[w] = "vault" /\ cur[w].operation # "GenerateKey" /\ Failing
    /\ hit' = [hit EXCEPT ![w] = TRUE]
    /\ IF cur[w].operation \in {"Status", "Summary"} THEN Answers(w, "status", "Unavailable")
       ELSE encode_error(w, map_vault_error("Io"))
    /\ UNCHANGED <<vault, models, pipes, cur, cache, profile, out, read, window, bad, did, changed, upgrades>>

(* The verdict, without the ambiguous one: whose face it is decides.       *)
verify(prof, face) == IF prof.who = face THEN "Match" ELSE "NoMatch"

(* The extraction, and what follows: the comparison with the samples so    *)
(* far, or with the profile that was opened before the models were loaded. *)
Extract(w) ==
    /\ pc[w] = "extract"
    /\ \/ \E e \in Extractions : encode_error(w, map_identity_error(e))
       \/ cur[w].operation = "Extract" /\ cur[w].count > 0 /\ encode_error(w, "DuplicateSample")
       \/ cur[w].operation = "Extract" /\ Answers(w, "sample", "0")
       \/ /\ cur[w].operation = "Verify"
          /\ Answers(w, "verification", verify(profile[w], cur[w].image))
    /\ UNCHANGED <<vault, models, pipes, cur, cache, profile, out, history, upgrades, faults>>

(* Mutant: the answer carries the generation of the request before. *)
WriteReplyLate(w) ==
    /\ pc[w] = "write"
    /\ out' = [out EXCEPT ![w] = Append(@, IF @ = << >> THEN reply[w]
                                          ELSE [reply[w] EXCEPT !.generation = out[w][Len(out[w])].generation])]
    /\ Goes(w, IF w \in Sessions THEN "read" ELSE "ok")
    /\ cur' = [cur EXCEPT ![w] = Idle] /\ profile' = [profile EXCEPT ![w] = None]
    /\ UNCHANGED <<vault, models, pipes, cache, reply, history, upgrades, faults>>

(* A client that is gone makes the write fail, which ends the worker. *)
WriteReply(w) ==
    /\ pc[w] = "write"
    /\ \/ /\ out' = [out EXCEPT ![w] = Append(@, reply[w])]
          /\ Goes(w, IF w \in Sessions THEN "read" ELSE "ok") /\ UNCHANGED faults
       \/ Failing /\ Goes(w, "error") /\ UNCHANGED out
    /\ cur' = [cur EXCEPT ![w] = Idle] /\ profile' = [profile EXCEPT ![w] = None]
    /\ UNCHANGED <<vault, models, pipes, cache, reply, history, upgrades>>

Work(w) ==
    \/ ReadRequest(w) \/ RequireEof(w) \/ ParseRequest(w) \/ get_provider(w)
    \/ ChangeVault(w) \/ ReadVault(w) \/ GenerateKey(w) \/ VaultFails(w)
    \/ Extract(w) \/ WriteReply(w)

Next == Upgrade \/ \E w \in Workers : Send(w) \/ HangUp(w) \/ Kill(w) \/ Work(w)

Spec == Init /\ [][Next]_vars

(* A worker with something to do goes on: all its waits are for input. *)
FairSpec == Spec /\ \A w \in Workers : WF_vars(Work(w))

-----------------------------------------------------------------------------
Ended(w) == pc[w] \in {"ok", "error", "killed"}

KindOf ==
    [Status |-> "status", Extract |-> "sample", Commit |-> "ack", Summary |-> "status",
     Verify |-> "verification", Delete |-> "ack", Rotate |-> "ack", Validate |-> "status",
     ResetUnreadable |-> "ack", GenerateKey |-> "key"]

(* Responses leave in the order of the requests, each with the generation  *)
(* of its own request and of the kind its operation has, or an error; the  *)
(* client tells late answers apart by nothing else.                        *)
RepliesInOrder ==
    \A w \in Workers :
        /\ Len(out[w]) <= Len(read[w]) /\ Len(read[w]) <= Len(out[w]) + 1
        /\ \A i \in 1..Len(out[w]) :
              /\ out[w][i].generation = Generation(read[w][i])
              /\ \/ out[w][i].kind = "error"
                 \/ /\ parse_request(read[w][i]) = "ok"
                    /\ out[w][i].kind = KindOf[read[w][i].operation]

(* A verdict is that of a profile the vault held, under the request's key, *)
(* at some time while the request was worked on, whatever another worker   *)
(* did between opening it and the extraction.                              *)
VerdictOfStoredProfile ==
    \A w \in Workers : pc[w] = "write" /\ reply[w].kind = "verification" =>
        \E v \in window[w] \ {None, Unreadable} :
            v.key = cur[w].keys[1] /\ reply[w].code = verify(v, cur[w].image)

(* An acknowledged request changed the vault; a refused one did not,       *)
(* unless a call on the vault failed after its effect.                     *)
AcknowledgedIsDone ==
    \A w \in Workers : pc[w] = "write" =>
        /\ reply[w].kind = "ack" => did[w]
        /\ did[w] => reply[w].kind = "ack" \/ hit[w]

(* A worker for one request changes the vault and answers only after it    *)
(* has seen the end of its input with nothing behind that request.         *)
OneRequestOnly ==
    \A w \in Workers \ Sessions : w \in changed \/ out[w] # << >> =>
        hangup[w] = "closed" /\ input[w] = << >> /\ Len(read[w]) = 1

(* What a worker reports of the vault is so: the two statements above. *)
EffectsAsReported == AcknowledgedIsDone /\ OneRequestOnly

(* Models that could not be loaded are tried again by the next request:    *)
(* no request fails for models that were good while it was worked on.      *)
FailureNotKept ==
    \A w \in Workers :
        pc[w] = "write" /\ reply[w].code = "ModelUnavailable" => bad[w]

(* Answers fit the requests: they leave in order, and none fails for       *)
(* models that were good while it was worked on.                           *)
RepliesFit == RepliesInOrder /\ FailureNotKept

(* Every request to a session is answered unless the session ended. *)
RequestsAnswered ==
    \A w \in Sessions : \A n \in 1..MaxRequests :
        Len(read[w]) + Len(input[w]) >= n ~> Len(out[w]) >= n \/ Ended(w)

(* A worker whose client has gone ends. *)
WorkerEnds == \A w \in Workers : hangup[w] # "open" ~> Ended(w)
====
