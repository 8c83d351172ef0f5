------------------------- MODULE IdentityWorkerProofs -------------------------
(***************************************************************************)
(* IdentityWorker for every number of workers, sessions, requests, model   *)
(* upgrades and failures: answers fit their requests, a verdict is that of *)
(* a profile the vault held, and what is reported of a change is so.       *)
(*                                                                         *)
(* The workers share the vault and the models only.  Both reach another    *)
(* worker through its histories, window and bad, which grow; all else of a *)
(* worker changes in its own steps.                                        *)
(***************************************************************************)
EXTENDS IdentityWorker, TLAPS

Working == {"parse", "load", "vault", "extract"}
Busy == Working \cup {"eof", "write"}
Points == Busy \cup {"read", "ok", "error", "killed"}
VaultStates == {None, Unreadable} \cup Stored

(* The functions have the workers as their domain, and what they hold. *)
Shape ==
    /\ TypeOK
    /\ profile \in [Workers -> VaultStates]
    /\ reply \in [Workers -> Responses \cup {NoReply}]
    /\ read \in [Workers -> Seq(Payloads)]
    /\ window \in [Workers -> SUBSET VaultStates]
    /\ bad \in [Workers -> BOOLEAN] /\ did \in [Workers -> BOOLEAN] /\ hit \in [Workers -> BOOLEAN]

(* The answer r fits the request p. *)
Fits(r, p) ==
    /\ r.generation = Generation(p)
    /\ r.kind = "error" \/ (parse_request(p) = "ok" /\ r.kind = KindOf[p.operation])

(* The profile prof is one the vault held since w read its request, and    *)
(* the request's key opens it.                                             *)
Held(w, prof) ==
    prof \in window[w] \ {None, Unreadable} /\ prof.key = cur[w].keys[1]

(* One answer for each request but the one that is worked on. *)
OrderInv(w) ==
    /\ Len(out[w]) <= Len(read[w]) /\ Len(read[w]) <= Len(out[w]) + 1
    /\ \A i \in 1..Len(out[w]) : Fits(out[w][i], read[w][i])
    /\ pc[w] = "read" => Len(read[w]) = Len(out[w])
    /\ pc[w] \in Busy => Len(read[w]) = Len(out[w]) + 1 /\ cur[w] = read[w][Len(read[w])]

(* The histories are those of the request that is worked on. *)
HistoryInv(w) ==
    pc[w] \in Busy => vault \in window[w] /\ (~models => bad[w])

(* What is known of the request before it is answered. *)
WorkInv(w) ==
    /\ pc[w] \in Working \ {"parse"} => parse_request(cur[w]) = "ok"
    /\ pc[w] \in Busy \ {"write"} => ~did[w]
    /\ pc[w] \in {"load", "extract"} /\ cur[w].operation = "Verify" => Held(w, profile[w])

(* The answer that is to be written. *)
ReplyInv(w) ==
    pc[w] = "write" =>
        /\ Fits(reply[w], cur[w])
        /\ reply[w].kind = "verification" =>
              \E v \in window[w] : Held(w, v) /\ reply[w].code = verify(v, cur[w].image)
        /\ reply[w].kind = "ack" => did[w]
        /\ did[w] => reply[w].kind = "ack" \/ hit[w]
        /\ reply[w].code = "ModelUnavailable" => bad[w]

(* A worker for one request works when nothing else can come. *)
Alone(w) == hangup[w] = "closed" /\ input[w] = << >> /\ Len(read[w]) = 1

OnceInv(w) ==
    /\ pc[w] = "read" => Len(read[w]) = 0
    /\ pc[w] \in {"read", "eof"} => out[w] = << >> /\ w \notin changed
    /\ pc[w] \in Working \cup {"write"} => Alone(w)
    /\ w \in changed \/ out[w] # << >> => Alone(w)

WorkerInv(w) ==
    /\ OrderInv(w) /\ HistoryInv(w) /\ WorkInv(w) /\ ReplyInv(w)
    /\ w \notin Sessions => OnceInv(w)

(* The inductive invariant. *)
Inv == Shape /\ \A w \in Workers : WorkerInv(w)

-----------------------------------------------------------------------------
(* What the operators of the model return.                                 *)

(* Errors that do not speak of the models. *)
OtherErrors == WorkerErrorCode \ {"ModelUnavailable"}

(* parse_request refuses with one of the error codes, and never for the    *)
(* models.                                                                 *)
LEMMA ParseCodes ==
    ASSUME WorkerAssumption, NEW p \in Payloads
    PROVE  parse_request(p) \in OtherErrors \cup {"ok"}
<1>1. p.count \in Nat \cup {-1}
  BY DEF WorkerAssumption, PayloadAssumption
<1>2. parse_image(p) \in {"InvalidFrame", "ok"}
  BY DEF parse_image
<1>3. parse_embeddings(p) \in {"InvalidRequest", "ProfileBounds", "ok"}
  BY <1>1, SMT DEF parse_embeddings, MAXIMUM_PROFILE_SAMPLES
<1>4. parse_enrollment_image(p) \in {"InvalidRequest", "ProfileBounds", "InvalidFrame", "ok"}
  BY <1>1, <1>2, <1>3, SMT DEF parse_enrollment_image, MAXIMUM_PROFILE_SAMPLES
<1>5. Body(p) \in {"InvalidRequest", "ProfileBounds", "InvalidFrame", "UnsupportedOperation", "ok"}
  BY <1>2, <1>3, <1>4, SMT DEF Body
<1>6. parse_request(p) \in {"InvalidRequest", "UnsupportedVersion", "InvalidGeneration", "InvalidTimeout",
                            "ProfileBounds", "InvalidFrame", "UnsupportedOperation", "ok"}
  BY <1>5, SMT DEF parse_request
<1> QED BY <1>6, SMT DEF OtherErrors, WorkerErrorCode

(* A request that is accepted has the keys its operation uses. *)
LEMMA ParsedKeys ==
    ASSUME WorkerAssumption, NEW p \in Payloads, parse_request(p) = "ok"
    PROVE  /\ p.operation = "Commit" => p.keys[1] \in Keys
           /\ p.operation = "Rotate" => p.keys[2] \in Keys
<1>1. p.keys \in Seq(Keys)
  BY DEF WorkerAssumption, PayloadAssumption
<1>2. Body(p) = "ok"
  BY SMT DEF parse_request
<1>3. p.operation = "Commit" => p.keys # << >>
  BY <1>2, SMT DEF Body
<1>4. p.operation = "Rotate" => Len(p.keys) = 2
  BY <1>2, SMT DEF Body, JustKeys
<1> QED BY <1>1, <1>3, <1>4, SMT

LEMMA OpenCodes ==
    ASSUME NEW k
    PROVE  /\ Opens(k) \in {"NotFound", "Corrupt", "Crypto", "ok"}
           /\ Opens(k) = "ok" => vault \notin {None, Unreadable} /\ vault.key = k
  BY SMT DEF Opens

LEMMA VaultCodes ==
    ASSUME NEW e \in {"NotFound", "Corrupt", "Crypto", "ProfileBounds", "Io"}
    PROVE  map_vault_error(e) \in OtherErrors
<1>1. map_vault_error(e) \in {"NoProfile", "VaultCorrupt", "ProfileBounds", "InternalFailure"}
  BY SMT DEF map_vault_error
<1> QED BY <1>1, SMT DEF OtherErrors, WorkerErrorCode

LEMMA ExtractionCodes ==
    ASSUME WorkerAssumption, NEW e \in Extractions
    PROVE  map_identity_error(e) \in OtherErrors
<1>1. e \in IdentityError
  BY DEF WorkerAssumption
<1> QED BY <1>1, SMT DEF IdentityError, map_identity_error, OtherErrors, WorkerErrorCode

LEMMA StatusCodes ==
    ASSUME NEW p
    PROVE  status(p) \in {"Absent", "Ready", "Corrupt", "Unavailable"}
  BY OpenCodes, SMT DEF status, StatusOf

(* A vault that refuses says why; one that does not is changed to another  *)
(* of its states.                                                          *)
LEMMA ChangeCodes ==
    ASSUME WorkerAssumption, NEW p \in Payloads, parse_request(p) = "ok", p.operation \in Writers,
           vault \in VaultStates
    PROVE  /\ Refusal(p) \in {"NotFound", "Corrupt", "Crypto", "ProfileBounds", "ok"}
           /\ Refusal(p) = "ok" => Changed(p) \in VaultStates
<1>1. Refusal(p) \in {"NotFound", "Corrupt", "Crypto", "ProfileBounds", "ok"}
  BY OpenCodes, SMT DEF Refusal, Writers
<1>2. CASE p.operation = "Commit"
  <2>1. Refusal(p) = "ok" => p.count \in MINIMUM_PROFILE_SAMPLES..MAXIMUM_PROFILE_SAMPLES
    BY <1>2, SMT DEF Refusal
  <2>2. p.who \in Faces /\ p.keys[1] \in Keys
    BY <1>2, ParsedKeys DEF WorkerAssumption, PayloadAssumption
  <2>3. Changed(p) = [key |-> p.keys[1], count |-> p.count, who |-> p.who]
    BY <1>2, SMT DEF Changed
  <2> QED BY <1>1, <2>1, <2>2, <2>3, SMT DEF VaultStates, Stored
<1>3. CASE p.operation = "Rotate"
  <2>1. Refusal(p) = "ok" => vault \in Stored
    BY <1>3, OpenCodes, SMT DEF Refusal, VaultStates
  <2>2. p.keys[2] \in Keys
    BY <1>3, ParsedKeys
  <2>3. Changed(p) = [vault EXCEPT !.key = p.keys[2]]
    BY <1>3, SMT DEF Changed
  <2> QED BY <1>1, <2>1, <2>2, <2>3, SMT DEF VaultStates, Stored
<1>4. CASE p.operation \in {"Delete", "ResetUnreadable"}
  <2>1. Changed(p) = None
    BY <1>4, SMT DEF Changed
  <2> QED BY <1>1, <2>1 DEF VaultStates
<1> QED BY <1>2, <1>3, <1>4 DEF Writers

-----------------------------------------------------------------------------
(* What the others do to a worker.                                         *)

(* A step that is not the worker's own: its histories grow, and its pipe   *)
(* changes only while it is open.                                          *)
Apart(v) ==
    /\ pc'[v] = pc[v] /\ cur'[v] = cur[v] /\ profile'[v] = profile[v] /\ reply'[v] = reply[v]
    /\ out'[v] = out[v] /\ read'[v] = read[v] /\ did'[v] = did[v] /\ hit'[v] = hit[v]
    /\ v \in changed' <=> v \in changed
    /\ hangup[v] = "closed" => input'[v] = input[v] /\ hangup'[v] = "closed"
    /\ window[v] \subseteq window'[v] /\ (vault' = vault \/ vault' \in window'[v])
    /\ bad[v] => bad'[v]
    /\ models' = models \/ models' \/ bad'[v]

LEMMA ApartKeeps ==
    ASSUME NEW v, Apart(v), WorkerInv(v)
    PROVE  WorkerInv(v)'
<1>1. OrderInv(v)'
  <2>1. pc'[v] = pc[v] /\ cur'[v] = cur[v] /\ out'[v] = out[v] /\ read'[v] = read[v]
    BY Zenon DEF Apart
  <2>2. \A r, q : Fits(r, q)' <=> Fits(r, q)
    BY Zenon DEF Fits
  <2> QED BY <2>1, <2>2, Zenon DEF WorkerInv, OrderInv
<1>2. HistoryInv(v)'
  BY Zenon DEF WorkerInv, HistoryInv, Apart
<1>3. \A x : Held(v, x) => Held(v, x)'
  BY Zenon DEF Held, Apart
<1>4. WorkInv(v)'
  BY <1>3, Zenon DEF WorkerInv, WorkInv, Apart
<1>5. ReplyInv(v)'
  BY <1>3, Zenon DEF WorkerInv, ReplyInv, Apart, Fits
<1>6. v \notin Sessions => OnceInv(v)'
  BY Zenon DEF WorkerInv, OnceInv, Alone, Apart
<1> QED BY <1>1, <1>2, <1>4, <1>5, <1>6, Zenon DEF WorkerInv

LEMMA InitInv ==
    ASSUME WorkerAssumption, Init
    PROVE  Inv
<1>1. TypeOK
  BY DEF Init, TypeOK, WorkerAssumption, NoReply, Idle
<1>2. Shape
  BY <1>1 DEF Init, Shape, VaultStates
<1>3. ASSUME NEW w \in Workers PROVE WorkerInv(w)
  BY DEF Init, WorkerInv, OrderInv, HistoryInv, WorkInv, ReplyInv, OnceInv, Busy, Working
<1> QED BY <1>2, <1>3 DEF Inv

-----------------------------------------------------------------------------
(* A worker answers.                                                       *)

Kinds == {"status", "sample", "ack", "verification", "key", "error"}
Codes == WorkerErrorCode \cup
             {"0", "Absent", "Ready", "Corrupt", "Unavailable", "Match", "NoMatch"}

(* The request that is worked on. *)
LEMMA Current ==
    ASSUME WorkerAssumption, Inv, NEW w \in Workers, pc[w] \in Busy
    PROVE  cur[w] \in Payloads /\ Generation(cur[w]) \in Nat
<1>1. OrderInv(w) /\ read[w] \in Seq(Payloads) /\ out[w] \in Seq(Responses)
  BY DEF Inv, WorkerInv, Shape, TypeOK
<1>2. Len(read[w]) \in 1..Len(read[w]) /\ cur[w] = read[w][Len(read[w])]
  BY <1>1, SMT DEF OrderInv
<1>3. cur[w] \in Payloads
  BY <1>1, <1>2, SMT
<1> QED BY <1>3, SMT DEF WorkerAssumption, PayloadAssumption, Generation

LEMMA AnswerShape ==
    ASSUME WorkerAssumption, Inv, NEW w \in Workers, pc[w] \in Working,
           NEW kind \in Kinds, NEW code \in Codes, Answers(w, kind, code)
    PROVE  /\ pc' \in [Workers -> Points] /\ pc'[w] = "write"
           /\ reply' \in [Workers -> Responses \cup {NoReply}]
           /\ reply'[w] = [kind |-> kind, code |-> code, generation |-> Generation(cur[w])]
           /\ \A v \in Workers \ {w} : pc'[v] = pc[v] /\ reply'[v] = reply[v]
           /\ \A v \in Workers : pc'[v] = "write" => reply'[v] \in Responses
<1>1. Generation(cur[w]) \in Nat
  BY Current, Zenon DEF Busy
<1>2. [kind |-> kind, code |-> code, generation |-> Generation(cur[w])] \in Responses
  BY <1>1, SMT DEF Responses, Kinds, Codes
<1>3. /\ pc \in [Workers -> Points] /\ reply \in [Workers -> Responses \cup {NoReply}]
      /\ \A v \in Workers : pc[v] = "write" => reply[v] \in Responses
  BY DEF Inv, Shape, TypeOK, Points, Busy, Working
<1>4. "write" \in Points
  BY DEF Points, Busy
<1> HIDE DEF Points, Responses
<1> QED BY <1>2, <1>3, <1>4, SMT DEF Answers, Goes

LEMMA AnswerKeeps ==
    ASSUME WorkerAssumption, Inv, NEW w \in Workers, pc[w] \in Working,
           NEW kind \in Kinds, NEW code \in Codes, Answers(w, kind, code),
           kind = "error" \/ (parse_request(cur[w]) = "ok" /\ kind = KindOf[cur[w].operation]),
           kind = "verification" =>
               \E v \in window[w] : Held(w, v) /\ code = verify(v, cur[w].image),
           kind = "ack" => did'[w], did'[w] => kind = "ack" \/ hit'[w],
           code = "ModelUnavailable" => bad[w],
           UNCHANGED <<cur, out, read, pipes, bad, models>>,
           window[w] \subseteq window'[w], vault' \in window'[w]
    PROVE  WorkerInv(w)'
<1>1. /\ pc'[w] = "write" /\ WorkerInv(w) /\ pc[w] \in Busy
      /\ reply'[w] = [kind |-> kind, code |-> code, generation |-> Generation(cur[w])]
  BY AnswerShape, Zenon DEF Inv, Busy
<1>2. /\ reply'[w].kind = kind /\ reply'[w].code = code
      /\ reply'[w].generation = Generation(cur[w])
  BY <1>1, SMT
<1>3. /\ cur' = cur /\ out' = out /\ read' = read /\ input' = input /\ hangup' = hangup
      /\ bad' = bad /\ models' = models
  BY DEF pipes
<1>4. "write" # "read" /\ "write" \in Busy /\ "write" \notin Working /\ "write" \notin {"load", "extract"}
      /\ "write" # "eof"
  BY DEF Busy, Working
<1>5. OrderInv(w)'
  BY <1>1, <1>3, <1>4, Zenon DEF WorkerInv, OrderInv, Fits
<1>6. HistoryInv(w)'
  BY <1>1, <1>3, SMT DEF WorkerInv, HistoryInv
<1>7. WorkInv(w)'
  BY <1>1, <1>4, Zenon DEF WorkInv
<1>8. ReplyInv(w)'
  <2>1. Fits(reply[w], cur[w])'
    BY <1>2, <1>3, Zenon DEF Fits
  <2>2. \A v : Held(w, v) => Held(w, v)'
    BY <1>3, Zenon DEF Held
  <2>3. (\E v \in window[w] : Held(w, v) /\ code = verify(v, cur[w].image))
           => (\E v \in window'[w] : Held(w, v)' /\ code = verify(v, cur'[w].image))
    BY <1>3, <2>2, Zenon
  <2> QED BY <1>2, <1>3, <2>1, <2>3, Zenon DEF ReplyInv
<1>9. w \notin Sessions => OnceInv(w)'
  BY <1>1, <1>3, <1>4, Zenon DEF WorkerInv, OnceInv, Alone
<1> QED BY <1>5, <1>6, <1>7, <1>8, <1>9, Zenon DEF WorkerInv

-----------------------------------------------------------------------------
(* The steps of the client and of the package manager.                     *)

LEMMA SendKeeps ==
    ASSUME Inv, NEW w \in Workers, Send(w)
    PROVE  Inv'
<1>1. Shape'
  BY DEF Inv, Shape, TypeOK, Send, workerVars, history
<1>2. ASSUME NEW v \in Workers PROVE Apart(v)
  BY DEF Inv, Shape, TypeOK, Send, workerVars, history, Apart
<1> QED BY <1>1, <1>2, ApartKeeps, Zenon DEF Inv

LEMMA HangUpKeeps ==
    ASSUME Inv, NEW w \in Workers, HangUp(w)
    PROVE  Inv'
<1>1. Shape'
  BY DEF Inv, Shape, TypeOK, HangUp, workerVars, history
<1>2. ASSUME NEW v \in Workers PROVE Apart(v)
  BY DEF Inv, Shape, TypeOK, HangUp, workerVars, history, Apart
<1> QED BY <1>1, <1>2, ApartKeeps, Zenon DEF Inv

LEMMA UpgradeKeeps ==
    ASSUME Inv, Upgrade
    PROVE  Inv'
<1>1. Shape'
  BY DEF Inv, Shape, TypeOK, Upgrade, pipes, workerVars
<1>2. ASSUME NEW v \in Workers PROVE Apart(v)
  BY DEF Inv, Shape, TypeOK, Upgrade, pipes, workerVars, Apart
<1> QED BY <1>1, <1>2, ApartKeeps, Zenon DEF Inv

LEMMA KillKeeps ==
    ASSUME Inv, NEW w \in Workers, Kill(w)
    PROVE  Inv'
<1>1. Shape'
  BY DEF Inv, Shape, TypeOK, Kill, Goes, pipes, history
<1>2. ASSUME NEW v \in Workers, v # w PROVE Apart(v)
  BY <1>2 DEF Inv, Shape, TypeOK, Kill, Goes, pipes, history, Apart
<1>3. WorkerInv(w)'
  <2>1. pc'[w] = "killed"
    BY DEF Inv, Shape, TypeOK, Kill, Goes
  <2>2. "killed" \notin Busy /\ "killed" \notin Working /\ "killed" \notin {"load", "extract"}
        /\ "killed" \notin {"read", "eof", "write"}
    BY DEF Busy, Working
  <2>3. WorkerInv(w) /\ out' = out /\ read' = read /\ input' = input /\ hangup' = hangup /\ changed' = changed
    BY DEF Inv, Kill, pipes, history
  <2> QED BY <2>1, <2>2, <2>3, Zenon
          DEF WorkerInv, OrderInv, Fits, HistoryInv, WorkInv, ReplyInv, OnceInv, Alone
<1> QED BY <1>1, <1>2, <1>3, ApartKeeps, Zenon DEF Inv

-----------------------------------------------------------------------------
(* The steps of a worker.  Two patterns: an answer that changes nothing    *)
(* but the answer, and a step to a later point.                            *)

LEMMA QuietAnswer ==
    ASSUME WorkerAssumption, Inv, NEW w \in Workers, pc[w] \in Working,
           NEW kind \in Kinds \ {"ack"}, NEW code \in Codes, Answers(w, kind, code),
           kind = "error" \/ (parse_request(cur[w]) = "ok" /\ kind = KindOf[cur[w].operation]),
           kind = "verification" =>
               \E v \in window[w] : Held(w, v) /\ code = verify(v, cur[w].image),
           code = "ModelUnavailable" => bad[w],
           UNCHANGED <<vault, models, pipes, cur, profile, out, read, window, bad, did, changed>>,
           cache' \in [Workers -> BOOLEAN], hit' \in [Workers -> BOOLEAN],
           \A v \in Workers \ {w} : hit'[v] = hit[v]
    PROVE  Inv'
<1>1. /\ pc' \in [Workers -> Points] /\ reply' \in [Workers -> Responses \cup {NoReply}]
      /\ \A v \in Workers \ {w} : pc'[v] = pc[v] /\ reply'[v] = reply[v]
      /\ \A v \in Workers : pc'[v] = "write" => reply'[v] \in Responses
  BY AnswerShape, Zenon
<1>2. Shape'
  BY <1>1 DEF Inv, Shape, TypeOK, Points, Busy, Working, pipes
<1>3. ASSUME NEW v \in Workers, v # w PROVE Apart(v)
  BY <1>1, <1>3 DEF Apart, pipes
<1>4. WorkerInv(w)'
  <2>1. WorkerInv(w) /\ pc[w] \in Busy \ {"write"} /\ pc[w] \in Busy
    BY Zenon DEF Inv, Busy, Working
  <2>2. ~did[w] /\ vault \in window[w]
    BY <2>1, Zenon DEF WorkerInv, WorkInv, HistoryInv
  <2>3. kind # "ack" /\ kind \in Kinds
    OBVIOUS
  <2>4. ~did'[w] /\ window[w] \subseteq window'[w] /\ vault' \in window'[w]
    BY <2>2
  <2> QED BY <2>3, <2>4, AnswerKeeps
<1> QED BY <1>2, <1>3, <1>4, ApartKeeps, Zenon DEF Inv

LEMMA StepForward ==
    ASSUME Inv, NEW w \in Workers, pc[w] \in Working, NEW point \in Working \ {"parse"},
           Goes(w, point), parse_request(cur[w]) = "ok",
           UNCHANGED <<vault, models, pipes, cur, reply, out, history>>,
           cache' \in [Workers -> BOOLEAN], profile' \in [Workers -> VaultStates],
           \A v \in Workers \ {w} : profile'[v] = profile[v],
           point \in {"load", "extract"} /\ cur[w].operation = "Verify" => Held(w, profile'[w])
    PROVE  Inv'
<1>1. /\ pc' \in [Workers -> Points] /\ pc'[w] = point
      /\ \A v \in Workers \ {w} : pc'[v] = pc[v]
  BY DEF Inv, Shape, TypeOK, Goes, Points, Busy, Working
<1>2. point # "write" /\ point # "read" /\ point # "eof" /\ point \in Busy \ {"write"} /\ point \in Busy
  BY DEF Busy, Working
<1>3. Shape'
  BY <1>1, <1>2 DEF Inv, Shape, TypeOK, Points, Busy, Working, pipes, history
<1>4. ASSUME NEW v \in Workers, v # w PROVE Apart(v)
  BY <1>1, <1>4 DEF Apart, pipes, history
<1>5. WorkerInv(w)'
  <2>1. WorkerInv(w) /\ pc[w] \in Busy \ {"write"} /\ pc[w] \in Busy
    BY Zenon DEF Inv, Busy, Working
  <2>2. /\ vault' = vault /\ (models' <=> models) /\ cur' = cur /\ reply' = reply /\ out' = out
        /\ input' = input /\ hangup' = hangup /\ read' = read /\ window' = window /\ bad' = bad
        /\ (did'[w] <=> did[w]) /\ changed' = changed
    BY DEF pipes, history
  <2>3. OrderInv(w)'
    BY <1>1, <1>2, <2>1, <2>2, Zenon DEF WorkerInv, OrderInv, Fits
  <2>4. HistoryInv(w)'
    BY <1>1, <1>2, <2>1, <2>2, Zenon DEF WorkerInv, HistoryInv
  <2>5. WorkInv(w)'
    BY <1>1, <1>2, <2>1, <2>2, Zenon DEF WorkerInv, WorkInv, Held
  <2>6. ReplyInv(w)'
    BY <1>1, <1>2, Zenon DEF ReplyInv
  <2>7. w \notin Sessions => OnceInv(w)'
    BY <1>1, <1>2, <2>1, <2>2, Zenon DEF WorkerInv, OnceInv, Alone
  <2> QED BY <2>3, <2>4, <2>5, <2>6, <2>7, Zenon DEF WorkerInv
<1> QED BY <1>3, <1>4, <1>5, ApartKeeps, Zenon DEF Inv

(* serve_once and serve_session take the next request. *)
LEMMA ReadRequestKeeps ==
    ASSUME Inv, NEW w \in Workers, ReadRequest(w)
    PROVE  Inv'
<1>1. pc[w] = "read" /\ WorkerInv(w) /\ TypeOK /\ Shape
  BY DEF ReadRequest, Inv, Shape
<1>2. CASE input[w] # << >>
  <2> DEFINE p == Head(input[w])
             point == IF w \in Sessions THEN "parse" ELSE "eof"
  <2>1. input[w] \in Seq(Payloads) /\ p \in Payloads /\ Tail(input[w]) \in Seq(Payloads)
    BY <1>1, <1>2 DEF TypeOK
  <2>2. /\ cur' = [cur EXCEPT ![w] = p] /\ input' = [input EXCEPT ![w] = Tail(@)]
        /\ read' = [read EXCEPT ![w] = Append(@, p)]
        /\ window' = [window EXCEPT ![w] = {vault}] /\ bad' = [bad EXCEPT ![w] = ~models]
        /\ did' = [did EXCEPT ![w] = FALSE] /\ hit' = [hit EXCEPT ![w] = FALSE]
        /\ pc' = [pc EXCEPT ![w] = point]
        /\ UNCHANGED <<vault, models, hangup, cache, profile, reply, out, changed, upgrades, faults>>
    BY <1>2 DEF ReadRequest, Goes
  <2> HIDE DEF p
  <2>3. Shape'
    BY <1>1, <2>1, <2>2 DEF Shape, TypeOK, VaultStates
  <2>4. ASSUME NEW v \in Workers, v # w PROVE Apart(v)
    BY <1>1, <2>2, <2>4 DEF Shape, TypeOK, Apart
  <2>5. WorkerInv(w)'
    <3>1. /\ read[w] \in Seq(Payloads) /\ out[w] \in Seq(Responses) /\ read'[w] = Append(read[w], p)
          /\ out'[w] = out[w] /\ cur'[w] = p /\ pc'[w] = point /\ window'[w] = {vault} /\ vault' = vault
          /\ models' = models /\ bad'[w] = ~models /\ did'[w] = FALSE /\ changed' = changed
      BY <1>1, <2>2 DEF Shape, TypeOK
    <3>2. Len(read[w]) = Len(out[w])
      BY <1>1 DEF WorkerInv, OrderInv
    <3>3. /\ Len(read'[w]) = Len(out[w]) + 1 /\ read'[w][Len(read'[w])] = p
          /\ Len(read'[w]) = Len(read[w]) + 1
          /\ Len(out[w]) \in Nat
          /\ \A i \in 1..Len(out[w]) : read'[w][i] = read[w][i]
      BY <2>1, <3>1, <3>2, SMT
    <3>4. OrderInv(w)'
      <4>1. \A i \in 1..Len(out'[w]) : Fits(out'[w][i], read'[w][i])
        BY <1>1, <3>1, <3>3, Zenon DEF WorkerInv, OrderInv
      <4>2. point # "read"
        OBVIOUS
      <4> QED BY <3>1, <3>3, <4>1, <4>2, SMT DEF OrderInv
    <3>5. HistoryInv(w)'
      <4>1. models \in BOOLEAN
        BY <1>1 DEF TypeOK
      <4>2. ~models' => bad'[w]
        BY <3>1, <4>1
      <4> QED BY <3>1, <4>2 DEF HistoryInv
    <3>6. WorkInv(w)'
      BY <3>1, SMT DEF WorkInv, Working
    <3>7. ReplyInv(w)'
      BY <3>1, SMT DEF ReplyInv
    <3>8. w \notin Sessions => OnceInv(w)'
      <4> SUFFICES ASSUME w \notin Sessions PROVE OnceInv(w)'
        OBVIOUS
      <4>1. out[w] = << >> /\ w \notin changed /\ pc'[w] = "eof"
        BY <1>1, <3>1 DEF WorkerInv, OnceInv
      <4> QED BY <3>1, <4>1, SMT DEF OnceInv, Working
    <3> QED BY <3>4, <3>5, <3>6, <3>7, <3>8, Zenon DEF WorkerInv
  <2> QED BY <2>3, <2>4, <2>5, <1>1, ApartKeeps, Zenon DEF Inv
<1>3. CASE input[w] = << >>
  <2>1. PICK point \in {"ok", "error"} : pc' = [pc EXCEPT ![w] = point]
    BY <1>3 DEF ReadRequest, Goes
  <2>2. UNCHANGED <<vault, models, input, hangup, cur, cache, profile, reply, out, read, window, bad, did,
                    hit, changed>>
    BY <1>3 DEF ReadRequest
  <2>3. Shape'
    BY <1>1, <2>1, <2>2 DEF Shape, TypeOK
  <2>4. ASSUME NEW v \in Workers, v # w PROVE Apart(v)
    BY <1>1, <2>1, <2>2, <2>4 DEF Shape, TypeOK, Apart
  <2>5. pc'[w] \in {"ok", "error"}
    BY <1>1, <2>1 DEF TypeOK
  <2>6. pc'[w] \notin Busy /\ pc'[w] \notin Working /\ pc'[w] \notin {"read", "eof", "write", "load", "extract"}
    BY <2>5 DEF Busy, Working
  <2>7. WorkerInv(w)'
    BY <1>1, <2>2, <2>6, Zenon
       DEF WorkerInv, OrderInv, Fits, HistoryInv, WorkInv, ReplyInv, OnceInv, Alone
  <2> QED BY <1>1, <2>3, <2>4, <2>7, ApartKeeps, Zenon DEF Inv
<1> QED BY <1>2, <1>3

(* require_eof of serve_once. *)
LEMMA RequireEofKeeps ==
    ASSUME Inv, NEW w \in Workers, RequireEof(w)
    PROVE  Inv'
<1>1. PICK point \in {"error", "parse"} :
          /\ pc' = [pc EXCEPT ![w] = point]
          /\ point = "parse" => input[w] = << >> /\ hangup[w] = "closed"
  BY DEF RequireEof, Goes
<1>2. /\ pc[w] = "eof" /\ pc[w] \in Busy /\ pc[w] \in Busy \ {"write"} /\ WorkerInv(w) /\ Shape
      /\ UNCHANGED <<vault, models, input, hangup, cur, cache, profile, reply, out, read, window, bad, did,
                     hit, changed>>
  BY DEF RequireEof, Inv, Busy, pipes, history
<1>3. Shape'
  BY <1>1, <1>2 DEF Shape, TypeOK
<1>4. ASSUME NEW v \in Workers, v # w PROVE Apart(v)
  BY <1>1, <1>2, <1>4 DEF Shape, TypeOK, Apart
<1>5. pc'[w] = point
  BY <1>1, <1>2 DEF Shape, TypeOK
<1>6. /\ pc'[w] \notin Working \ {"parse"} /\ pc'[w] \notin {"read", "eof", "write", "load", "extract"}
      /\ pc'[w] \in Working \cup {"write"} => pc'[w] = "parse"
  BY <1>5 DEF Working
<1>7. WorkerInv(w)'
  <2>1. OrderInv(w)'
    BY <1>2, <1>6, Zenon DEF WorkerInv, OrderInv, Fits
  <2>2. HistoryInv(w)'
    BY <1>2, SMT DEF WorkerInv, HistoryInv
  <2>3. WorkInv(w)'
    <3>1. did'[w] = did[w] /\ ~did[w]
      BY <1>2, Zenon DEF WorkerInv, WorkInv
    <3> QED BY <1>6, <3>1, Zenon DEF WorkInv
  <2>4. ReplyInv(w)'
    BY <1>6, Zenon DEF ReplyInv
  <2>5. w \notin Sessions => OnceInv(w)'
    <3> SUFFICES ASSUME w \notin Sessions PROVE OnceInv(w)'
      OBVIOUS
    <3>1. out[w] = << >> /\ w \notin changed /\ OnceInv(w) /\ OrderInv(w)
      BY <1>2, Zenon DEF WorkerInv, OnceInv
    <3>2. Len(read[w]) = 1
      <4>1. Len(read[w]) = Len(out[w]) + 1
        BY <1>2, <3>1, Zenon DEF OrderInv
      <4> QED BY <3>1, <4>1
    <3>3. pc'[w] \in Working \cup {"write"} => Alone(w)'
      BY <1>1, <1>2, <1>5, <1>6, <3>2, Zenon DEF Alone
    <3> QED BY <1>2, <1>6, <3>1, <3>3, Zenon DEF OnceInv
  <2> QED BY <2>1, <2>2, <2>3, <2>4, <2>5, Zenon DEF WorkerInv
<1> QED BY <1>2, <1>3, <1>4, <1>7, ApartKeeps, Zenon DEF Inv

LEMMA ErrorCodes ==
    /\ OtherErrors \subseteq Codes /\ "ModelUnavailable" \in Codes /\ "ModelUnavailable" \notin OtherErrors
    /\ {"0", "Absent", "Ready", "Corrupt", "Unavailable", "Match", "NoMatch"} \subseteq Codes \ {"ModelUnavailable"}
    /\ "InternalFailure" \in OtherErrors /\ "DuplicateSample" \in OtherErrors
    /\ "error" \in Kinds \ {"ack"} /\ "error" # "verification"
  BY DEF OtherErrors, Codes, WorkerErrorCode, Kinds

(* An error that does not speak of the models, whatever its code. *)
LEMMA ErrorAnswer ==
    ASSUME WorkerAssumption, Inv, NEW w \in Workers, pc[w] \in Working,
           NEW code \in OtherErrors, encode_error(w, code),
           UNCHANGED <<vault, models, pipes, cur, profile, out, read, window, bad, did, changed>>,
           cache' \in [Workers -> BOOLEAN], hit' \in [Workers -> BOOLEAN],
           \A v \in Workers \ {w} : hit'[v] = hit[v]
    PROVE  Inv'
<1>1. Answers(w, "error", code)
  BY DEF encode_error
<1>2. code \in Codes /\ code # "ModelUnavailable" /\ "error" \in Kinds \ {"ack"}
  BY ErrorCodes
<1> QED BY <1>1, <1>2, QuietAnswer

(* parse_request, with an error to write or the operation's first step. *)
LEMMA ParseRequestKeeps ==
    ASSUME WorkerAssumption, Inv, NEW w \in Workers, ParseRequest(w)
    PROVE  Inv'
<1>1. /\ pc[w] = "parse" /\ pc[w] \in Working /\ pc[w] \in Busy
      /\ UNCHANGED <<vault, models, pipes, cur, profile, out, read, window, bad, did, changed, history>>
      /\ cache' \in [Workers -> BOOLEAN] /\ hit' \in [Workers -> BOOLEAN] /\ hit' = hit
      /\ profile' \in [Workers -> VaultStates]
  BY DEF ParseRequest, Working, Busy, history, Inv, Shape, TypeOK
<1>2. cur[w] \in Payloads
  BY <1>1, Current
<1>3. CASE parse_request(cur[w]) # "ok"
  <2>1. parse_request(cur[w]) \in OtherErrors
    BY <1>2, <1>3, ParseCodes
  <2>2. encode_error(w, parse_request(cur[w]))
    BY <1>3, Zenon DEF ParseRequest
  <2> QED BY <1>1, <2>1, <2>2, ErrorAnswer
<1>4. CASE parse_request(cur[w]) = "ok"
  <2> DEFINE point == IF cur[w].operation \in {"Status", "Extract"} THEN "load" ELSE "vault"
  <2>1. Goes(w, point) /\ UNCHANGED reply
    BY <1>4, Zenon DEF ParseRequest
  <2>2. point \in Working \ {"parse"}
    BY DEF Working
  <2>3. ~(point \in {"load", "extract"} /\ cur[w].operation = "Verify")
    OBVIOUS
  <2> HIDE DEF point
  <2> QED BY <1>1, <1>4, <2>1, <2>2, <2>3, StepForward
<1> QED BY <1>3, <1>4

LEMMA OperationKinds ==
    /\ KindOf["Status"] = "status" /\ KindOf["Summary"] = "status" /\ KindOf["Validate"] = "status"
    /\ KindOf["Extract"] = "sample" /\ KindOf["Verify"] = "verification" /\ KindOf["GenerateKey"] = "key"
    /\ \A operation \in Writers : KindOf[operation] = "ack"
<1>1. KindOf["Status"] = "status" /\ KindOf["Summary"] = "status" /\ KindOf["Validate"] = "status"
  BY DEF KindOf
<1>2. KindOf["Extract"] = "sample" /\ KindOf["Verify"] = "verification" /\ KindOf["GenerateKey"] = "key"
  BY DEF KindOf
<1>3. ASSUME NEW operation \in Writers
      PROVE  KindOf[operation] = "ack"
  <2>1. KindOf["Commit"] = "ack" /\ KindOf["Delete"] = "ack"
    BY DEF KindOf
  <2>2. KindOf["Rotate"] = "ack" /\ KindOf["ResetUnreadable"] = "ack"
    BY DEF KindOf
  <2> QED BY <2>1, <2>2, Zenon DEF Writers
<1> QED BY <1>1, <1>2, <1>3, Zenon

(* The models, or an error while they are bad. *)
LEMMA GetProviderKeeps ==
    ASSUME WorkerAssumption, Inv, NEW w \in Workers, get_provider(w)
    PROVE  Inv'
<1>1. /\ pc[w] = "load" /\ pc[w] \in Working /\ pc[w] \in Busy /\ pc[w] \in Working \ {"parse"}
      /\ pc[w] \in {"load", "extract"} /\ WorkerInv(w)
      /\ UNCHANGED <<vault, models, pipes, cur, profile, out, read, window, bad, did, changed, history>>
      /\ hit' \in [Workers -> BOOLEAN] /\ hit' = hit /\ profile' \in [Workers -> VaultStates]
  BY DEF get_provider, Working, Busy, history, Inv, Shape, TypeOK
<1>2. cache \in [Workers -> BOOLEAN]
  BY DEF Inv, Shape, TypeOK
<1>3. CASE cache[w] \/ models
  <2> DEFINE point == IF cur[w].operation = "Status" THEN "vault" ELSE "extract"
  <2>1. cache' = [cache EXCEPT ![w] = TRUE] /\ Goes(w, point) /\ UNCHANGED reply
    BY <1>3, Zenon DEF get_provider, AfterLoad
  <2>2. point \in Working \ {"parse"}
    BY DEF Working
  <2>3. cache' \in [Workers -> BOOLEAN]
    BY <1>2, <2>1
  <2>4. /\ parse_request(cur[w]) = "ok"
        /\ cur[w].operation = "Verify" => Held(w, profile'[w])
    BY <1>1, Zenon DEF WorkerInv, WorkInv
  <2> HIDE DEF point
  <2> QED BY <1>1, <2>1, <2>2, <2>3, <2>4, StepForward
<1>4. CASE ~(cache[w] \/ models)
  <2>1. cache' = cache /\ Answers(w, "error", "ModelUnavailable")
    BY <1>4, Zenon DEF get_provider, encode_error
  <2>2. bad[w]
    BY <1>1, <1>4, Zenon DEF WorkerInv, HistoryInv
  <2>3. "error" \in Kinds \ {"ack"} /\ "ModelUnavailable" \in Codes
    BY ErrorCodes
  <2> QED BY <1>1, <1>2, <2>1, <2>2, <2>3, QuietAnswer
<1> QED BY <1>3, <1>4

(* commit_profile, rotate_key, delete_profile and reset_unreadable:        *)
(* refused, done, or done and reported as failed.                          *)
LEMMA ChangeVaultKeeps ==
    ASSUME WorkerAssumption, Inv, NEW w \in Workers, ChangeVault(w)
    PROVE  Inv'
<1> DEFINE p == cur[w]
<1>1. /\ pc[w] = "vault" /\ pc[w] \in Working /\ pc[w] \in Busy /\ pc[w] \in Working \ {"parse"}
      /\ WorkerInv(w) /\ Shape /\ p.operation \in Writers
      /\ UNCHANGED <<models, pipes, cur, cache, profile, out, read, bad>>
  BY DEF ChangeVault, Working, Busy, Inv
<1>2. p \in Payloads /\ parse_request(p) = "ok" /\ vault \in VaultStates
  BY <1>1, Current, Zenon DEF WorkerInv, WorkInv, Shape, TypeOK, VaultStates
<1>3. /\ Refusal(p) \in {"NotFound", "Corrupt", "Crypto", "ProfileBounds", "ok"}
      /\ Refusal(p) = "ok" => Changed(p) \in VaultStates
  BY <1>1, <1>2, ChangeCodes
<1>4. CASE Refusal(p) # "ok"
  <2>1. encode_error(w, map_vault_error(Refusal(p))) /\ UNCHANGED <<vault, window, did, hit, changed, faults>>
    BY <1>4, Zenon DEF ChangeVault
  <2>2. map_vault_error(Refusal(p)) \in OtherErrors
    BY <1>3, <1>4, VaultCodes
  <2>3. cache' \in [Workers -> BOOLEAN] /\ hit' \in [Workers -> BOOLEAN] /\ hit' = hit
    BY <1>1, <2>1 DEF Shape, TypeOK
  <2> QED BY <1>1, <2>1, <2>2, <2>3, ErrorAnswer
<1>5. CASE Refusal(p) = "ok"
  <2>1. /\ vault' = Changed(p) /\ window' = [v \in Workers |-> window[v] \cup {vault'}]
        /\ did' = [did EXCEPT ![w] = TRUE] /\ changed' = changed \cup {w}
    BY <1>5, Zenon DEF ChangeVault
  <2>2. vault' \in VaultStates
    BY <1>3, <1>5, <2>1
  <2>3. PICK kind \in {"ack", "error"}, code \in {"0", "InternalFailure"} :
            /\ Answers(w, kind, code)
            /\ \/ kind = "ack" /\ hit' = hit
               \/ kind = "error" /\ hit' = [hit EXCEPT ![w] = TRUE]
    BY <1>5, Zenon DEF ChangeVault, encode_error
  <2>4. kind \in Kinds /\ code \in Codes /\ code # "ModelUnavailable"
    BY ErrorCodes DEF Kinds, OtherErrors
  <2>5. /\ pc' \in [Workers -> Points] /\ reply' \in [Workers -> Responses \cup {NoReply}]
        /\ \A v \in Workers \ {w} : pc'[v] = pc[v] /\ reply'[v] = reply[v]
        /\ \A v \in Workers : pc'[v] = "write" => reply'[v] \in Responses
    BY <1>1, <2>3, <2>4, AnswerShape, Zenon
  <2>6. Shape'
    BY <1>1, <2>1, <2>2, <2>3, <2>5 DEF Shape, TypeOK, VaultStates, Points, Busy, Working, pipes
  <2>7. ASSUME NEW v \in Workers, v # w PROVE Apart(v)
    BY <1>1, <2>1, <2>3, <2>5, <2>7 DEF Shape, Apart, pipes
  <2>8. WorkerInv(w)'
    <3>1. did'[w] /\ window[w] \subseteq window'[w] /\ vault' \in window'[w]
      BY <1>1, <2>1 DEF Shape
    <3>2. kind = "ack" \/ hit'[w]
      BY <1>1, <2>3 DEF Shape
    <3>3. kind = "error" \/ (parse_request(cur[w]) = "ok" /\ kind = KindOf[cur[w].operation])
      BY <1>1, <1>2, OperationKinds
    <3>4. kind # "verification"
      OBVIOUS
    <3> QED BY <1>1, <2>3, <2>4, <3>1, <3>2, <3>3, <3>4, AnswerKeeps
  <2> QED BY <1>1, <2>6, <2>7, <2>8, ApartKeeps, Zenon DEF Inv
<1> QED BY <1>4, <1>5

(* status, validate_integrity and open_profile: they change nothing, and a *)
(* profile that is opened for a verification is one the vault holds.       *)
LEMMA ReadVaultKeeps ==
    ASSUME WorkerAssumption, Inv, NEW w \in Workers, ReadVault(w)
    PROVE  Inv'
<1> DEFINE p == cur[w]
           e == Opens(p.keys[1])
<1>1. /\ pc[w] = "vault" /\ pc[w] \in Working /\ pc[w] \in Busy /\ pc[w] \in Working \ {"parse"}
      /\ WorkerInv(w) /\ Shape /\ p.operation \in {"Status", "Summary", "Validate", "Verify"}
      /\ UNCHANGED <<vault, models, pipes, cur, cache, out, history, read, window, bad, did, changed>>
      /\ cache' \in [Workers -> BOOLEAN] /\ hit' \in [Workers -> BOOLEAN] /\ hit' = hit
  BY DEF ReadVault, Working, Busy, Inv, Shape, TypeOK, history
<1>2. parse_request(p) = "ok" /\ vault \in VaultStates /\ vault \in window[w]
  BY <1>1, Zenon DEF WorkerInv, WorkInv, HistoryInv, Shape, TypeOK, VaultStates
<1>3. e \in {"NotFound", "Corrupt", "Crypto", "ok"}
  BY OpenCodes
<1>4. "status" \in Kinds \ {"ack"} /\ "status" # "verification"
  BY DEF Kinds
<1>5. ASSUME e # "ok", encode_error(w, map_vault_error(e)), UNCHANGED profile PROVE Inv'
  <2>1. map_vault_error(e) \in OtherErrors
    BY <1>3, <1>5, VaultCodes
  <2> QED BY <1>1, <1>5, <2>1, ErrorAnswer
<1>6. CASE p.operation \in {"Status", "Summary"}
  <2>1. Answers(w, "status", status(p)) /\ UNCHANGED profile
    BY <1>6 DEF ReadVault
  <2>2. status(p) \in Codes /\ status(p) # "ModelUnavailable"
    <3>1. status(p) \in {"Absent", "Ready", "Corrupt", "Unavailable"}
      BY StatusCodes
    <3> QED BY <3>1, ErrorCodes
  <2>3. KindOf[p.operation] = "status"
    BY <1>6, OperationKinds
  <2> QED BY <1>1, <1>2, <1>4, <2>1, <2>2, <2>3, QuietAnswer
<1>7. CASE p.operation = "Validate"
  <2>1. /\ IF e = "ok" THEN Answers(w, "status", "Ready") ELSE encode_error(w, map_vault_error(e))
        /\ UNCHANGED profile
    BY <1>7 DEF ReadVault
  <2>2. CASE e = "ok"
    <3>1. "Ready" \in Codes /\ "Ready" # "ModelUnavailable" /\ KindOf[p.operation] = "status"
      BY <1>7, ErrorCodes, OperationKinds
    <3>2. Answers(w, "status", "Ready")
      BY <2>1, <2>2, Zenon
    <3> QED BY <1>1, <1>2, <1>4, <2>1, <3>1, <3>2, QuietAnswer
  <2> QED BY <1>5, <2>1, <2>2, Zenon
<1>8. CASE p.operation = "Verify"
  <2>1. IF e = "ok" THEN profile' = [profile EXCEPT ![w] = vault] /\ Goes(w, "load") /\ UNCHANGED reply
        ELSE encode_error(w, map_vault_error(e)) /\ UNCHANGED profile
    BY <1>8 DEF ReadVault
  <2>2. CASE e = "ok"
    <3>1. /\ profile' \in [Workers -> VaultStates] /\ profile'[w] = vault
          /\ \A v \in Workers \ {w} : profile'[v] = profile[v]
      BY <1>1, <1>2, <2>1, <2>2 DEF Shape
    <3>2. vault \notin {None, Unreadable} /\ vault.key = p.keys[1]
      BY <2>2, OpenCodes
    <3>3. Held(w, profile'[w])
      BY <1>2, <3>1, <3>2 DEF Held
    <3>4. "load" \in Working \ {"parse"} /\ Goes(w, "load") /\ UNCHANGED reply
      BY <2>1, <2>2, SMT DEF Working
    <3> QED BY <1>1, <1>2, <3>1, <3>3, <3>4, StepForward
  <2> QED BY <1>5, <2>1, <2>2, Zenon
<1> QED BY <1>1, <1>6, <1>7, <1>8

LEMMA GenerateKeyKeeps ==
    ASSUME WorkerAssumption, Inv, NEW w \in Workers, GenerateKey(w)
    PROVE  Inv'
<1>1. /\ pc[w] = "vault" /\ pc[w] \in Working /\ pc[w] \in Working \ {"parse"}
      /\ WorkerInv(w) /\ cur[w].operation = "GenerateKey"
      /\ UNCHANGED <<vault, models, pipes, cur, cache, profile, out, read, window, bad, did, changed>>
      /\ cache' \in [Workers -> BOOLEAN] /\ hit' \in [Workers -> BOOLEAN] /\ hit' = hit
  BY DEF GenerateKey, Working, Inv, Shape, TypeOK, history
<1>2. CASE Answers(w, "key", "0")
  <2>1. parse_request(cur[w]) = "ok" /\ KindOf[cur[w].operation] = "key"
    BY <1>1, OperationKinds, Zenon DEF WorkerInv, WorkInv
  <2>2. "key" \in Kinds \ {"ack"} /\ "key" # "verification" /\ "0" \in Codes /\ "0" # "ModelUnavailable"
    BY ErrorCodes DEF Kinds
  <2> QED BY <1>1, <1>2, <2>1, <2>2, QuietAnswer
<1>3. CASE encode_error(w, map_vault_error("Crypto"))
  <2>1. map_vault_error("Crypto") \in OtherErrors
    BY VaultCodes
  <2> QED BY <1>1, <1>3, <2>1, ErrorAnswer
<1> QED BY <1>2, <1>3 DEF GenerateKey

LEMMA VaultFailsKeeps ==
    ASSUME WorkerAssumption, Inv, NEW w \in Workers, VaultFails(w)
    PROVE  Inv'
<1>1. /\ pc[w] = "vault" /\ pc[w] \in Working /\ pc[w] \in Working \ {"parse"} /\ WorkerInv(w)
      /\ UNCHANGED <<vault, models, pipes, cur, cache, profile, out, read, window, bad, did, changed>>
      /\ cache' \in [Workers -> BOOLEAN] /\ hit' \in [Workers -> BOOLEAN]
      /\ \A v \in Workers \ {w} : hit'[v] = hit[v]
  BY DEF VaultFails, Working, Inv, Shape, TypeOK
<1>2. CASE cur[w].operation \in {"Status", "Summary"}
  <2>1. Answers(w, "status", "Unavailable")
    BY <1>2, Zenon DEF VaultFails
  <2>2. parse_request(cur[w]) = "ok" /\ KindOf[cur[w].operation] = "status"
    BY <1>1, <1>2, OperationKinds DEF WorkerInv, WorkInv
  <2>3. /\ "status" \in Kinds \ {"ack"} /\ "status" # "verification"
        /\ "Unavailable" \in Codes /\ "Unavailable" # "ModelUnavailable"
    BY ErrorCodes DEF Kinds
  <2> QED BY <1>1, <2>1, <2>2, <2>3, QuietAnswer
<1>3. CASE cur[w].operation \notin {"Status", "Summary"}
  <2>1. encode_error(w, map_vault_error("Io"))
    BY <1>3, Zenon DEF VaultFails
  <2>2. map_vault_error("Io") \in OtherErrors
    BY VaultCodes
  <2> QED BY <1>1, <2>1, <2>2, ErrorAnswer
<1> QED BY <1>2, <1>3

(* The extraction and the comparison: the profile that was opened is still *)
(* one of the window's, whatever became of the vault.                      *)
LEMMA ExtractKeeps ==
    ASSUME WorkerAssumption, Inv, NEW w \in Workers, Extract(w)
    PROVE  Inv'
<1>1. /\ pc[w] = "extract" /\ pc[w] \in Working /\ pc[w] \in Working \ {"parse"}
      /\ pc[w] \in {"load", "extract"} /\ WorkerInv(w)
      /\ UNCHANGED <<vault, models, pipes, cur, cache, profile, out, read, window, bad, did, changed>>
      /\ cache' \in [Workers -> BOOLEAN] /\ hit' \in [Workers -> BOOLEAN] /\ hit' = hit
  BY DEF Extract, Working, Inv, Shape, TypeOK, history
<1>2. parse_request(cur[w]) = "ok" /\ (cur[w].operation = "Verify" => Held(w, profile[w]))
  BY <1>1, Zenon DEF WorkerInv, WorkInv
<1>3. ASSUME NEW e \in Extractions, encode_error(w, map_identity_error(e)) PROVE Inv'
  <2>1. map_identity_error(e) \in OtherErrors
    BY ExtractionCodes
  <2> QED BY <1>1, <1>3, <2>1, ErrorAnswer
<1>4. CASE encode_error(w, "DuplicateSample")
  <2>1. "DuplicateSample" \in OtherErrors
    BY ErrorCodes
  <2> QED BY <1>1, <1>4, <2>1, ErrorAnswer
<1>5. CASE cur[w].operation = "Extract" /\ Answers(w, "sample", "0")
  <2>1. KindOf[cur[w].operation] = "sample"
    BY <1>5, OperationKinds
  <2>2. "sample" \in Kinds \ {"ack"} /\ "sample" # "verification" /\ "0" \in Codes /\ "0" # "ModelUnavailable"
    BY ErrorCodes DEF Kinds
  <2> QED BY <1>1, <1>2, <1>5, <2>1, <2>2, QuietAnswer
<1>6. CASE /\ cur[w].operation = "Verify"
           /\ Answers(w, "verification", verify(profile[w], cur[w].image))
  <2> DEFINE code == verify(profile[w], cur[w].image)
  <2>1. KindOf[cur[w].operation] = "verification"
    BY <1>6, OperationKinds
  <2>2. "verification" \in Kinds \ {"ack"}
    BY DEF Kinds
  <2>3. code \in Codes /\ code # "ModelUnavailable"
    BY ErrorCodes DEF verify
  <2>4. \E v \in window[w] : Held(w, v) /\ code = verify(v, cur[w].image)
    BY <1>2, <1>6, Zenon DEF Held
  <2>5. Answers(w, "verification", code)
    BY <1>6
  <2> HIDE DEF code
  <2> QED BY <1>1, <1>2, <2>1, <2>2, <2>3, <2>4, <2>5, QuietAnswer
<1> QED BY <1>3, <1>4, <1>5, <1>6, Zenon DEF Extract

(* The answer leaves, or the client is gone. *)
LEMMA WriteReplyKeeps ==
    ASSUME WorkerAssumption, Inv, NEW w \in Workers, WriteReply(w)
    PROVE  Inv'
<1>1. /\ pc[w] = "write" /\ pc[w] \in Busy /\ pc[w] \in Working \cup {"write"} /\ WorkerInv(w) /\ Shape
      /\ cur' = [cur EXCEPT ![w] = Idle] /\ profile' = [profile EXCEPT ![w] = None]
      /\ UNCHANGED <<vault, models, input, hangup, cache, reply, read, window, bad, did, hit, changed>>
  BY DEF WriteReply, Busy, Inv, pipes, history
<1>2. PICK point \in {"read", "ok", "error"} :
          /\ pc' = [pc EXCEPT ![w] = point]
          /\ \/ out' = [out EXCEPT ![w] = Append(@, reply[w])]
             \/ out' = out /\ point = "error"
          /\ w \notin Sessions => point # "read"
  BY DEF WriteReply, Goes
<1>3. /\ reply[w] \in Responses /\ out[w] \in Seq(Responses) /\ read[w] \in Seq(Payloads)
      /\ out \in [Workers -> Seq(Responses)]
  BY <1>1 DEF Shape, TypeOK
<1>4. Shape'
  <2>1. /\ pc' \in [Workers -> Points] /\ \A v \in Workers : pc'[v] = "write" => pc[v] = "write"
    BY <1>1, <1>2 DEF Shape, TypeOK, Points, Busy, Working
  <2>2. out' \in [Workers -> Seq(Responses)]
    <3>1. Append(out[w], reply[w]) \in Seq(Responses)
      BY <1>3, SMT
    <3> QED BY <1>2, <1>3, <3>1
  <2> QED BY <1>1, <2>1, <2>2 DEF Shape, TypeOK, VaultStates, Points, Busy, Working
<1>5. ASSUME NEW v \in Workers, v # w PROVE Apart(v)
  BY <1>1, <1>2, <1>5 DEF Shape, TypeOK, Apart
<1>6. pc'[w] = point
  BY <1>1, <1>2 DEF Shape, TypeOK
<1>7. pc'[w] \notin Busy /\ pc'[w] \notin Working \cup {"write"} /\ pc'[w] \notin {"eof", "write", "load", "extract"}
  BY <1>6 DEF Busy, Working
<1>8. WorkerInv(w)'
  <2>1. /\ Len(read[w]) = Len(out[w]) + 1 /\ cur[w] = read[w][Len(read[w])] /\ Fits(reply[w], cur[w])
        /\ OrderInv(w)
    BY <1>1, Zenon DEF WorkerInv, OrderInv, ReplyInv
  <2>2. OrderInv(w)'
    <3>1. CASE out' = [out EXCEPT ![w] = Append(@, reply[w])]
      <4>1. out'[w] = Append(out[w], reply[w])
        BY <1>3, <3>1
      <4>2. /\ Len(out'[w]) = Len(out[w]) + 1 /\ Len(out[w]) \in Nat /\ out'[w][Len(out[w]) + 1] = reply[w]
            /\ \A i \in 1..Len(out[w]) : out'[w][i] = out[w][i]
        BY <1>3, <4>1, SMT
      <4>3. Len(out'[w]) = Len(read'[w]) /\ Len(out'[w]) \in Nat
        <5> DEFINE n == Len(out[w])
        <5>1. Len(out'[w]) = n + 1 /\ n \in Nat
          BY <4>2, Zenon
        <5>2. Len(read'[w]) = n + 1
          BY <1>1, <2>1, Zenon
        <5> HIDE DEF n
        <5>3. n + 1 \in Nat
          BY <5>1
        <5> QED BY <5>1, <5>2, <5>3, Zenon
      <4>4. ASSUME NEW i \in 1..Len(out'[w]) PROVE Fits(out[w][i], read[w][i])'
        <5>1. CASE i \in 1..Len(out[w])
          <6>1. Fits(out[w][i], read[w][i])
            BY <2>1, <5>1 DEF OrderInv
          <6> QED BY <1>1, <4>2, <5>1, <6>1, Zenon DEF Fits
        <5>2. CASE i = Len(out[w]) + 1
          <6>1. out'[w][i] = reply[w] /\ read'[w][i] = cur[w]
            BY <1>1, <2>1, <4>2, <5>2
          <6> QED BY <2>1, <6>1, Zenon DEF Fits
        <5>3. i \in 1..Len(out[w]) \/ i = Len(out[w]) + 1
          <6> DEFINE n == Len(out[w])
          <6>1. i \in 1..(n + 1) /\ n \in Nat
            BY <4>2, Zenon
          <6> HIDE DEF n
          <6>2. i \in 1..n \/ i = n + 1
            BY <6>1
          <6> QED BY <6>2, Zenon DEF n
        <5> QED BY <5>1, <5>2, <5>3, Zenon
      <4>5. Len(out'[w]) <= Len(read'[w]) /\ Len(read'[w]) <= Len(out'[w]) + 1
        BY <4>3, SMT
      <4> QED BY <1>7, <4>3, <4>4, <4>5, Zenon DEF OrderInv
    <3>2. CASE out' = out /\ point = "error"
      <4>1. pc'[w] # "read"
        BY <1>6, <3>2
      <4> QED BY <1>1, <1>7, <2>1, <3>2, <4>1, Zenon DEF OrderInv, Fits
    <3> QED BY <1>2, <3>1, <3>2
  <2>3. HistoryInv(w)'
    BY <1>7, Zenon DEF HistoryInv
  <2>4. WorkInv(w)'
    BY <1>7, Zenon DEF WorkInv, Busy
  <2>5. ReplyInv(w)'
    BY <1>7, Zenon DEF ReplyInv
  <2>6. w \notin Sessions => OnceInv(w)'
    <3> SUFFICES ASSUME w \notin Sessions PROVE OnceInv(w)'
      OBVIOUS
    <3>1. pc'[w] # "read"
      BY <1>2, <1>6
    <3>2. Alone(w)'
      BY <1>1, Zenon DEF WorkerInv, OnceInv, Alone
    <3> QED BY <1>7, <3>1, <3>2, Zenon DEF OnceInv
  <2> QED BY <2>2, <2>3, <2>4, <2>5, <2>6, Zenon DEF WorkerInv
<1> QED BY <1>1, <1>4, <1>5, <1>8, ApartKeeps, Zenon DEF Inv

LEMMA NextKeeps ==
    ASSUME WorkerAssumption, Inv, [Next]_vars
    PROVE  Inv'
<1>1. CASE Upgrade
  BY <1>1, UpgradeKeeps
<1>2. ASSUME NEW w \in Workers, Send(w) \/ HangUp(w) \/ Kill(w) PROVE Inv'
  BY <1>2, SendKeeps, HangUpKeeps, KillKeeps
<1>3. ASSUME NEW w \in Workers, Work(w) PROVE Inv'
  BY <1>3, ReadRequestKeeps, RequireEofKeeps, ParseRequestKeeps, GetProviderKeeps, ChangeVaultKeeps,
     ReadVaultKeeps, GenerateKeyKeeps, VaultFailsKeeps, ExtractKeeps, WriteReplyKeeps, Zenon DEF Work
<1>4. CASE UNCHANGED vars
  <2>1. UNCHANGED <<vault, models, input, hangup, pc, cur, cache, profile, reply, out, read, window, bad, did,
                    hit, changed>>
    BY <1>4 DEF vars, pipes, workerVars, history
  <2>2. Shape'
    BY <2>1 DEF Inv, Shape, TypeOK
  <2>3. ASSUME NEW v \in Workers PROVE Apart(v)
    BY <2>1 DEF Apart
  <2> QED BY <2>2, <2>3, ApartKeeps, Zenon DEF Inv
<1> QED BY <1>1, <1>2, <1>3, <1>4, Zenon DEF Next

-----------------------------------------------------------------------------
(* The results.                                                            *)

(* The invariant of the workers: each knows which request it works on,     *)
(* what the vault and the models were since it read it, and what its       *)
(* answer says of them.                                                    *)
THEOREM WorkerInvariant ==
    ASSUME WorkerAssumption
    PROVE  Spec => []Inv
<1>1. Init => Inv
  BY InitInv
<1>2. Inv /\ [Next]_vars => Inv'
  BY NextKeeps
<1> QED BY <1>1, <1>2, PTL DEF Spec

(* process_request_with_cache opens the profile before the models are      *)
(* loaded and compares with it after the extraction: the verdict is that   *)
(* of a profile the vault held under the request's key while the request   *)
(* was worked on, whatever other workers did in between.                   *)
THEOREM VerdictHolds ==
    ASSUME WorkerAssumption
    PROVE  Spec => []VerdictOfStoredProfile
<1>1. Inv => VerdictOfStoredProfile
  BY Zenon DEF Inv, WorkerInv, ReplyInv, Held, VerdictOfStoredProfile
<1> QED BY <1>1, WorkerInvariant, PTL

(* An acknowledgement follows the change, a refusal means there was none   *)
(* unless the vault failed after it, and serve_once acts only when         *)
(* require_eof saw the end of the input behind its one request.            *)
THEOREM EffectsHold ==
    ASSUME WorkerAssumption
    PROVE  Spec => []EffectsAsReported
<1>1. Inv => AcknowledgedIsDone
  BY Zenon DEF Inv, WorkerInv, ReplyInv, AcknowledgedIsDone
<1>2. Inv => OneRequestOnly
  BY Zenon DEF Inv, WorkerInv, OnceInv, Alone, OneRequestOnly
<1>3. Inv => EffectsAsReported
  BY <1>1, <1>2, Zenon DEF EffectsAsReported
<1> QED BY <1>3, WorkerInvariant, PTL

(* serve_session answers in the order of the requests, each with its own   *)
(* generation and the kind of its operation or an error; get_provider      *)
(* keeps no failure, so that none of them fails for models that were good  *)
(* while it was worked on.                                                 *)
THEOREM RepliesHold ==
    ASSUME WorkerAssumption
    PROVE  Spec => []RepliesFit
<1>1. Inv => RepliesInOrder
  BY Zenon DEF Inv, WorkerInv, OrderInv, Fits, RepliesInOrder
<1>2. Inv => FailureNotKept
  BY Zenon DEF Inv, WorkerInv, ReplyInv, FailureNotKept
<1>3. Inv => RepliesFit
  BY <1>1, <1>2, Zenon DEF RepliesFit
<1> QED BY <1>3, WorkerInvariant, PTL
====
