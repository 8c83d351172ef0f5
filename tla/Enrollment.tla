------------------------------- MODULE Enrollment -------------------------------
(***************************************************************************)
(* The settings module's side of a face profile: EnrollmentSession and     *)
(* LocalVerificationSession, the KWalletKeyProvider and the                *)
(* IdentityWorkerClient they share, with the wallet, the worker process,   *)
(* the vault and the privileged helper they reach through them.            *)
(*                                                                         *)
(* All of it runs on one event loop.  A handler is an operator from the    *)
(* state to the set of states it may leave; the completions it calls at    *)
(* once, and what the caller does after them, are on the stack s.todo, and *)
(* the next event waits until Run has emptied it.  Keys are numbers; the   *)
(* vault is the key that opens it.  A killed process does nothing more,    *)
(* though it may be long before the client hears of its end.               *)
(***************************************************************************)
EXTENDS Naturals, FiniteSets, Sequences

CONSTANTS
    MINIMUM_SAMPLES, MAXIMUM_SAMPLES,
    MaxInputs,  \* bound of the model: what the user and the surroundings do
    Profiles,   \* the vault, wallet entry and system profile at the start
    None

VARIABLES
    s,          \* the state, a record
    inputs,     \* how many inputs there were
    applied     \* the answer a session took last, with the operation it waited for

vars == <<s, inputs, applied>>

Busy(t) == t.state \in {"opening_wallet", "capturing", "saving"}
enrollmentActive(t) == Busy(t) \/ t.state \in {"enrolling", "ready_to_save"}

(* LocalVerificationSession::busy. *)
verifying(t) == t.verify \in {"opening_wallet", "verifying"}

(* The operations that change the vault. *)
Mutations == {"commit", "delete", "reset"}

NoOne == [op |-> "none"]

(* The page is open, its preview runs and its first status check is done. *)
Init ==
    /\ \E p \in Profiles :
         s = [state |-> "idle", error |-> "", pending |-> "none", active |-> 0, gen |-> 0,
              epoch |-> 0, commitAfter |-> FALSE, key |-> None, needsStore |-> FALSE,
              keyStored |-> FALSE, samples |-> 0, profile |-> IF p.vault = None THEN "absent" ELSE "ready", page |-> TRUE,
              timer |-> FALSE, timedOut |-> FALSE, streaming |-> TRUE,
              sysBusy |-> FALSE, authOp |-> "idle", queries |-> TRUE, waits |-> {}, helper |-> NoOne,
              wc |-> NoOne, open |-> FALSE, entry |-> p.entry, keys |-> 1,
              verify |-> "idle", vactive |-> 0,
              proc |-> NoOne, vault |-> p.vault, sys |-> p.sys,
              committed |-> {}, saved |-> FALSE, asked |-> {}, rollback |-> "none", todo |-> <<>>]
    /\ inputs = 0 /\ applied = NoOne

-----------------------------------------------------------------------------
(* A call is made next; what was on the stack before it comes after it. *)
Call(t, f) == [t EXCEPT !.todo = <<f>> \o @]

(* EnrollmentSession: small steps. *)
setState(t, state) == [t EXCEPT !.state = state, !.error = IF state = "failed" THEN @ ELSE ""]

clearSensitive(t) == [t EXCEPT !.key = None, !.samples = 0, !.needsStore = FALSE]

Failed(t, code) == [t EXCEPT !.state = "failed", !.error = code]

(* checkSystemAuthStatus starts the two policy queries. *)
checkSystemAuthStatus(t) ==
    IF t.sysBusy /\ t.authOp # "checking" THEN t ELSE [t EXCEPT !.queries = TRUE]

(* KWalletKeyProvider::performRead on an open wallet: what it leaves, and   *)
(* the result.                                                              *)
performRead(t, c) ==
    {[t |-> t, result |-> "unavailable", key |-> None]} \cup
    CASE c.action = "delete" -> {[t |-> [t EXCEPT !.entry = None], result |-> "absent", key |-> None]}
      [] c.action = "store" ->
            IF t.entry # None THEN {}
            ELSE {[t |-> [t EXCEPT !.entry = c.key], result |-> "available", key |-> None]}
      [] c.action = "read" ->
            {[t |-> t, result |-> IF t.entry = None THEN "absent" ELSE "available", key |-> t.entry]}

(* A completion of the key provider is called. *)
Completed(t, c, result, key) == Call(t, [call |-> "complete", c |-> c, result |-> result, key |-> key])

(* requestKey, storeKey and deleteKey: refused while another request is     *)
(* pending or the wallet is disabled, done at once when the wallet is open, *)
(* and otherwise kept until it opens.                                       *)
Wallet(t, c) ==
    CASE t.wc # NoOne -> {Completed(t, c, "unavailable", None)}
      [] t.wc = NoOne /\ t.open -> {Completed(r.t, c, r.result, r.key) : r \in performRead(t, c)}
      [] OTHER -> {[t EXCEPT !.wc = c], Completed(t, c, "unavailable", None)}

(* KWalletKeyProvider::cancel and its timer. *)
WalletGivesUp(t, result) ==
    IF t.wc = NoOne THEN {t} ELSE {Completed([t EXCEPT !.wc = NoOne], t.wc, result, None)}

-----------------------------------------------------------------------------
(* Mutant: nobody hears of the end of the rollback. *)
failSilently(t, code) ==
    LET u == clearSensitive([t EXCEPT !.timer = FALSE, !.pending = "none"])
    IN  IF t.keyStored
        THEN Wallet([u EXCEPT !.keyStored = FALSE], [op |-> "cancelled_key", action |-> "delete"])
        ELSE {Failed(u, code)}

(* fail: with a key that was stored for this enrollment, the key is taken   *)
(* back first and the state follows its completion.                         *)
fail(t, code) ==
    LET u == clearSensitive([t EXCEPT !.timer = FALSE, !.pending = "none"])
    IN  IF t.keyStored
        THEN Wallet([u EXCEPT !.keyStored = FALSE],
                    [op |-> "rollback", action |-> "delete", code |-> code])
        ELSE {Failed(u, code)}

(* Mutant: the generation of an answer is not compared. *)
AwaitsAny(t, p) == TRUE

(* The answer has the generation of the request that is active. *)
Awaits(t, p) == p.gen = t.active

(* EnrollmentSession::handleResponse. *)
handleResponse(t, p, result) ==
    LET u == [t EXCEPT !.active = 0]
        done == [u EXCEPT !.pending = "none"]
    IN  IF ~Awaits(t, p) THEN {t}
        ELSE CASE result = "transport" -> fail(done, "transport")
               [] result = "error" /\ t.pending = "capture" ->
                     fail(done, "identity-error") \cup
                     {[done EXCEPT !.error = "sample",
                                   !.state = IF t.samples >= MINIMUM_SAMPLES THEN "ready_to_save" ELSE "enrolling"]}
               [] result = "error" /\ t.pending # "capture" -> fail(done, "identity-error")
               [] result = "ok" /\ t.pending = "status" ->
                     {checkSystemAuthStatus([done EXCEPT !.profile = p.found])}
               [] result = "ok" /\ t.pending = "capture" ->
                     {setState([done EXCEPT !.samples = @ + 1],
                               IF t.samples + 1 >= MINIMUM_SAMPLES THEN "ready_to_save" ELSE "enrolling")}
               [] result = "ok" /\ t.pending = "commit" ->
                     {checkSystemAuthStatus(setState(
                         clearSensitive([done EXCEPT !.timer = FALSE, !.profile = "ready", !.keyStored = FALSE]),
                         "complete"))}
               [] result = "ok" /\ t.pending \in {"delete", "reset"} ->
                     Wallet(Call(u, [call |-> "pending_none"]), [op |-> "delete_ack", action |-> "delete"])
               [] OTHER -> {done}

(* LocalVerificationSession::handleResponse. *)
verified(t, p, result) ==
    IF p.gen # t.vactive THEN {t}
    ELSE {[t EXCEPT !.vactive = 0, !.verify = IF result = "ok" THEN "complete" ELSE "failed"]}

Answer(t, p, result) ==
    IF p.op = "verify" THEN verified(t, p, result) ELSE handleResponse(t, p, result)

(* IdentityWorkerClient::execute. *)
execute(t, op, key) ==
    LET p == [op |-> op, gen |-> t.gen, key |-> key, at |-> "starting", killed |-> FALSE,
              result |-> "transport", found |-> "unknown"]
    IN  {IF t.proc # NoOne THEN Call(t, [call |-> "answer", p |-> p]) ELSE [t EXCEPT !.proc = p]}

(* A request of the enrollment session: nextGeneration and execute.  (The   *)
(* generations of the two sessions are kept apart by their operations.)     *)
Request(t, op, key) ==
    LET u == [t EXCEPT !.gen = @ + 1, !.active = t.gen + 1, !.pending = op]
    IN  execute(u, op, key)

(* beginTermination, for a cancel and for a timer. *)
Killed(t) == IF t.proc = NoOne THEN t ELSE [t EXCEPT !.proc.killed = TRUE]

-----------------------------------------------------------------------------
Continued(t, k, success) == Call(t, [call |-> "continue", k |-> k, success |-> success])

(* Mutant: the system profile is left to the next synchronisation. *)
revokeSkipped(t, k) == {Continued(t, k, TRUE)}

(* revokeSystemProfileThen: it waits while the policy is being read, gives  *)
(* up when the policy is unknown or a helper is missing or busy, has        *)
(* nothing to do without a system profile, and else starts the helper.      *)
revokeSystemProfileThen(t, k) ==
    IF t.queries THEN {[t EXCEPT !.waits = @ \cup {k}]}
    ELSE {Continued(t, k, FALSE)} \cup
         (CASE ~t.sys -> {Continued(t, k, TRUE)}
            [] t.sys /\ ~t.sysBusy ->
                 {[t EXCEPT !.sysBusy = TRUE, !.helper = [op |-> "revoke", then |-> k]]}
            [] OTHER -> {})

commitEnrollment(t) ==
    CASE t.sysBusy -> fail([t EXCEPT !.commitAfter = FALSE], "busy")
      [] ~t.sysBusy /\ ~t.commitAfter ->
            revokeSystemProfileThen([t EXCEPT !.commitAfter = TRUE], [op |-> "commit", epoch |-> t.epoch])
      [] ~t.sysBusy /\ t.commitAfter /\ t.samples > 0 ->
            Request([t EXCEPT !.commitAfter = FALSE], "commit", t.key)
      [] OTHER -> fail([t EXCEPT !.commitAfter = FALSE], "invalid-sample-state")

(* Mutant: a continuation does not compare the epoch. *)
ContinueAnyEpoch(t, k, success) ==
    CASE k.op = "commit" /\ ~t.commitAfter -> {t}
      [] k.op = "commit" /\ t.commitAfter /\ ~success ->
            fail([t EXCEPT !.commitAfter = FALSE], "revoke-failed")
      [] k.op = "commit" /\ t.commitAfter /\ success -> commitEnrollment(t)
      [] k.op # "commit" /\ ~success -> fail([t EXCEPT !.pending = "none"], "revoke-failed")
      [] k.op = "delete" /\ success ->
            Wallet(setState(t, "opening_wallet"),
                   [op |-> "delete_local", action |-> "read", epoch |-> k.epoch])
      [] k.op = "reset" /\ success -> Request(setState(t, "saving"), "reset", None)

(* The continuations of revokeSystemProfileThen. *)
Continue(t, k, success) ==
    CASE k.epoch # t.epoch \/ (k.op = "commit" /\ ~t.commitAfter) -> {t}
      [] k.op = "commit" /\ k.epoch = t.epoch /\ t.commitAfter /\ ~success ->
            fail([t EXCEPT !.commitAfter = FALSE], "revoke-failed")
      [] k.op = "commit" /\ k.epoch = t.epoch /\ t.commitAfter /\ success -> commitEnrollment(t)
      [] k.op # "commit" /\ k.epoch = t.epoch /\ ~success ->
            fail([t EXCEPT !.pending = "none"], "revoke-failed")
      [] k.op = "delete" /\ k.epoch = t.epoch /\ success ->
            Wallet(setState(t, "opening_wallet"),
                   [op |-> "delete_local", action |-> "read", epoch |-> k.epoch])
      [] k.op = "reset" /\ k.epoch = t.epoch /\ success ->
            Request(setState(t, "saving"), "reset", None)

-----------------------------------------------------------------------------
(* startEnrollment's completion. *)
started(t, result, key) ==
    LET fresh == [t EXCEPT !.key = t.keys, !.keys = @ + 1, !.needsStore = TRUE]
        with == CASE result = "available" -> [t EXCEPT !.key = key, !.needsStore = FALSE]
                  [] result = "absent" -> fresh
                  [] OTHER -> t
    IN  IF with.key = None \/ ~t.page \/ ~t.streaming THEN fail(with, "unavailable")
        ELSE {setState([with EXCEPT !.timer = TRUE], "enrolling")}

(* The completions given to the key provider, by the request they belong    *)
(* to.  (That of a verification is the other session's.)                    *)
Complete(t, c, result, key) ==
    CASE c.op = "status" ->
            IF result \in {"available", "absent"} THEN Request(t, "status", key)
            ELSE {[t EXCEPT !.profile = IF result = "cancelled" THEN "locked" ELSE "unavailable"]}
      [] c.op = "start" -> started(t, result, key)
      [] c.op = "store" ->
            IF result # "available" THEN fail(t, "unavailable")
            ELSE commitEnrollment([t EXCEPT !.needsStore = FALSE, !.keyStored = TRUE])
      [] c.op = "delete_local" ->
            CASE c.epoch # t.epoch -> {t}
              [] c.epoch = t.epoch /\ result # "available" -> fail(t, "unavailable")
              [] OTHER -> Request(setState(t, "saving"), "delete", key)
      [] c.op = "rollback" ->
            {[Failed(t, IF result = "absent" THEN c.code ELSE "rollback-failed") EXCEPT
                !.rollback = IF result = "absent" THEN "done" ELSE "failed"]}
      [] c.op = "cancelled_key" -> {[t EXCEPT !.rollback = IF result = "absent" THEN "done" ELSE "failed"]}
      [] c.op = "delete_ack" ->
            IF result = "absent"
            THEN {checkSystemAuthStatus(setState([t EXCEPT !.profile = "absent"], "complete"))}
            ELSE fail(Call([t EXCEPT !.profile = "unavailable"], [call |-> "check"]), "delete-failed")
      [] c.op = "auth" ->
            IF result = "available"
            THEN {[t EXCEPT !.authOp = "updating", !.helper = [op |-> "sync", key |-> key]]}
            ELSE {checkSystemAuthStatus([t EXCEPT !.sysBusy = FALSE, !.authOp = "idle"])}
      [] c.op = "verify" ->
            IF result = "available"
            THEN execute([t EXCEPT !.gen = @ + 1, !.vactive = t.gen + 1, !.verify = "verifying"], "verify", key)
            ELSE {[t EXCEPT !.verify = IF result = "cancelled" THEN "cancelled" ELSE "failed"]}

(* EnrollmentSession::cancel: the worker, the wallet request, the key that  *)
(* was stored, and the state, in this order.                                *)
cancel(t) ==
    LET stop == [t EXCEPT !.epoch = @ + 1, !.commitAfter = FALSE, !.timer = FALSE, !.asked = {}]
        dropped == IF t.active = 0 THEN stop
                   ELSE Killed([stop EXCEPT !.active = 0, !.pending = "none"])
    IN  WalletGivesUp(Call(Call(dropped, [call |-> "cancelled"]), [call |-> "take_back"]), "cancelled")

takeBack(t) ==
    IF t.keyStored
    THEN Wallet([t EXCEPT !.keyStored = FALSE], [op |-> "cancelled_key", action |-> "delete"])
    ELSE {t}

cancelled(t) ==
    IF t.state \in {"idle", "complete"} THEN clearSensitive(t) ELSE setState(clearSensitive(t), "cancelled")

-----------------------------------------------------------------------------
(* What the user does; the page offers an operation as its properties say. *)
Input == s.todo = <<>> /\ inputs < MaxInputs /\ inputs' = inputs + 1 /\ UNCHANGED applied

(* The policy queries end within half a second.  Three samples, each a      *)
(* worker process of its own, or a confirmation dialog take longer: when    *)
(* the user saves or removes a profile no earlier revocation still waits    *)
(* for the queries.                                                         *)
Settled == s.waits = {}

startEnrollment ==
    /\ Input
    /\ s.page /\ s.proc = NoOne /\ ~enrollmentActive(s) /\ s.streaming
    /\ s' \in Wallet(setState(clearSensitive([s EXCEPT !.timedOut = FALSE, !.saved = FALSE, !.rollback = "none"]),
                               "opening_wallet"),
                      [op |-> "start", action |-> "read"])

captureSample ==
    /\ Input
    /\ s.page /\ s.proc = NoOne /\ s.state \in {"enrolling", "ready_to_save"}
    /\ s.samples < MAXIMUM_SAMPLES /\ s.streaming
    /\ s' \in Request(setState(s, "capturing"), "capture", None) \cup fail(s, "frame-unavailable")

discardLastSample ==
    /\ Input
    /\ ~Busy(s) /\ s.samples > 0 /\ s.state # "complete"
    /\ s' = setState([s EXCEPT !.samples = @ - 1],
                     IF s.samples - 1 >= MINIMUM_SAMPLES THEN "ready_to_save" ELSE "enrolling")

(* Mutant: the vault is written first and the key stored with the next one. *)
finishAndSaveUnstored ==
    /\ Input
    /\ s.page /\ s.proc = NoOne /\ s.state = "ready_to_save" /\ Settled
    /\ s' \in commitEnrollment(setState([s EXCEPT !.asked = @ \cup {"commit"}], "saving"))

finishAndSave ==
    /\ Input
    /\ s.page /\ s.proc = NoOne /\ s.state = "ready_to_save" /\ Settled
    /\ LET t == setState([s EXCEPT !.asked = @ \cup {"commit"}], "saving")
       IN  s' \in IF s.needsStore THEN Wallet(t, [op |-> "store", action |-> "store", key |-> s.key])
                  ELSE commitEnrollment(t)

refreshProfileStatus(t) ==
    IF t.active # 0 \/ Busy(t) THEN {t}
    ELSE Wallet([t EXCEPT !.profile = "checking"], [op |-> "status", action |-> "read"])

Refresh == Input /\ s' \in refreshProfileStatus(s)

setPageActive ==
    /\ Input
    /\ s' \in IF s.page THEN cancel([s EXCEPT !.page = FALSE])
              ELSE refreshProfileStatus([s EXCEPT !.page = TRUE])

Cancel == Input /\ enrollmentActive(s) /\ s' \in cancel(s)

(* deleteProfile and resetUnreadable.  The page offers neither during an    *)
(* enrollment, whose samples and key they would leave in place.             *)
Remove(op) ==
    /\ Input
    /\ ~enrollmentActive(s)
    /\ s.profile \in (IF op = "delete" THEN {"ready"} ELSE {"unreadable", "locked", "unavailable"})
    /\ s.active = 0 /\ ~s.sysBusy /\ Settled
    /\ s' \in revokeSystemProfileThen(setState([s EXCEPT !.pending = op, !.asked = @ \cup {op}], "saving"),
                                      [op |-> op, epoch |-> s.epoch])

(* runAuthTargetOperation: enabling a target or synchronising the profile   *)
(* needs the key; disabling one does not.                                   *)
runAuthTargetOperation ==
    /\ Input
    /\ ~s.sysBusy /\ s.active = 0 /\ ~enrollmentActive(s) /\ ~s.queries
    /\ \/ /\ s.profile = "ready"
          /\ s' \in Wallet([s EXCEPT !.sysBusy = TRUE, !.authOp = "opening_wallet"],
                            [op |-> "auth", action |-> "read"])
       \/ /\ s.sys
          /\ s' = [s EXCEPT !.sysBusy = TRUE, !.authOp = "updating", !.helper = [op |-> "disable"]]

verifyCurrentFrame ==
    /\ Input
    /\ ~verifying(s) /\ s.proc = NoOne /\ s.streaming
    /\ s' \in Wallet([s EXCEPT !.verify = "opening_wallet"], [op |-> "verify", action |-> "read"])

(* LocalVerificationSession::cancel, when its page is left: it cancels the  *)
(* wallet request that is pending, whoever made it.                         *)
verifyCancel ==
    /\ Input
    /\ LET t == IF s.vactive = 0 THEN s ELSE Killed([s EXCEPT !.vactive = 0])
       IN  s' \in WalletGivesUp(Call(t, [call |-> "verify_cancelled", busy |-> verifying(s)]), "cancelled")

-----------------------------------------------------------------------------
(* The surroundings. *)
Event == s.todo = <<>> /\ UNCHANGED <<inputs, applied>>

PreviewStops ==
    /\ Input
    /\ s.streaming
    /\ LET t == [s EXCEPT !.streaming = FALSE]
       IN  s' \in IF s.state \in {"enrolling", "capturing", "ready_to_save", "saving"} THEN cancel(t) ELSE {t}

PreviewStarts == Input /\ ~s.streaming /\ s' = [s EXCEPT !.streaming = TRUE]

(* The session timer runs out. *)
SessionTimeout ==
    /\ Input
    /\ s.timer
    /\ s' \in cancel([s EXCEPT !.timedOut = TRUE])

WalletCloses == Input /\ s.open /\ s' = [s EXCEPT !.open = FALSE]

WalletOpens ==
    /\ s.wc # NoOne
    /\ \/ s' \in WalletGivesUp(s, "cancelled")
       \/ s' \in WalletGivesUp(s, "unavailable")
       \/ \E r \in performRead([s EXCEPT !.open = TRUE, !.wc = NoOne], s.wc) :
             s' = Completed(r.t, s.wc, r.result, r.key)
    /\ Event

(* The worker process: its vault operation may fail before its effect, or   *)
(* report an error after it.                                                *)
Worked(t, p) ==
    LET with(vault) == [t EXCEPT !.vault = vault, !.proc.at = "applied"]
        ends(u, results) == {[u EXCEPT !.proc.result = r] : r \in results}
    IN  CASE p.op = "status" ->
                {[with(t.vault) EXCEPT !.proc.result = "ok",
                     !.proc.found = CASE t.vault = None -> "absent"
                                      [] t.vault # None /\ t.vault = p.key -> "ready"
                                      [] OTHER -> "unreadable"]}
          [] p.op \in {"capture", "verify"} -> ends(with(t.vault), {"ok", "error"})
          [] p.op = "commit" /\ t.vault \in {None, p.key} ->
                ends(with(t.vault), {"error"}) \cup
                ends([with(p.key) EXCEPT !.committed = @ \cup {p.key}, !.saved = TRUE], {"ok", "error"})
          [] (p.op = "delete" /\ t.vault # None /\ t.vault = p.key) \/ p.op = "reset" ->
                ends(with(t.vault), {"error"}) \cup ends(with(None), {"ok", "error"})
          [] OTHER -> ends(with(t.vault), {"error"})

Worker ==
    /\ s.proc # NoOne /\ ~s.proc.killed
    /\ \/ s.proc.at = "starting" /\ s' = [s EXCEPT !.proc.at = "running"]
       \/ s.proc.at = "running" /\ s' \in Worked(s, s.proc)
       \/ s.proc.at = "applied" /\ s' = [s EXCEPT !.proc.at = "answered"]
    /\ Event

(* A timer of the client runs out, or the process ends before its answer. *)
ClientTimeout ==
    /\ s.proc # NoOne /\ ~s.proc.killed
    /\ s' = Killed(s)
    /\ Event

(* processFinished and finish, or the shutdown timer after a kill. *)
ProcessFinished ==
    LET p == s.proc
        result == IF p.killed THEN "transport" ELSE p.result
    IN  /\ s.todo = <<>> /\ p # NoOne /\ (p.killed \/ p.at = "answered")
        /\ s' \in Answer([s EXCEPT !.proc = NoOne], p, result)
        /\ applied' = IF p.op = "verify" \/ ~Awaits(s, p) THEN applied
                      ELSE [op |-> p.op, waited |-> s.pending]
        /\ UNCHANGED inputs

(* The privileged helper ends: a profile and an enabled target are revoked, *)
(* made, or one target of perhaps two disabled.                             *)
HelperEnds ==
    /\ s.helper # NoOne
    /\ LET t == [s EXCEPT !.helper = NoOne]
           freed == [t EXCEPT !.sysBusy = FALSE]
           checked(sys) == checkSystemAuthStatus([t EXCEPT !.sys = sys, !.authOp = "checking"])
       IN  IF s.helper.op = "revoke"
           THEN \/ s' \in Continue(checkSystemAuthStatus([freed EXCEPT !.sys = FALSE]), s.helper.then, TRUE)
                \/ s' \in Continue(freed, s.helper.then, FALSE)
           ELSE \/ s.helper.op = "sync" /\ s.vault # None /\ s.vault = s.helper.key /\ s' = checked(TRUE)
                \/ s.helper.op = "disable" /\ s' \in {checked(FALSE), checked(TRUE)}
                \/ s' = checkSystemAuthStatus([freed EXCEPT !.authOp = "idle"])
    /\ Event

(* systemAuthChanged reaches the revocations that waited for the policy. *)
Release(t, ks) ==
    IF ks = {} THEN {t}
    ELSE UNION {LET u == Call([t EXCEPT !.waits = @ \ {k}], [call |-> "release", ks |-> ks \ {k}])
                IN  IF k.epoch # t.epoch THEN {u} ELSE revokeSystemProfileThen(u, k) : k \in ks}

(* Mutant: the readback leaves the flag up. *)
QueriesEndBusy ==
    /\ s.queries
    /\ s' \in Release([s EXCEPT !.queries = FALSE, !.authOp = IF @ = "checking" THEN "idle" ELSE @], s.waits)
    /\ Event

(* Both policy queries have ended, or the readback timer has. *)
QueriesEnd ==
    /\ s.queries
    /\ s' \in Release([s EXCEPT !.queries = FALSE,
                               !.sysBusy = IF s.authOp = "checking" THEN FALSE ELSE @,
                               !.authOp = IF @ = "checking" THEN "idle" ELSE @], s.waits)
    /\ Event

WaitTimeout ==
    /\ \E k \in s.waits : s' \in Continue([s EXCEPT !.waits = @ \ {k}], k, FALSE)
    /\ Event

(* The call on top of the stack is carried out. *)
Run ==
    /\ s.todo # <<>>
    /\ LET f == Head(s.todo)
           t == [s EXCEPT !.todo = Tail(@)]
       IN  \/ f.call = "complete" /\ s' \in Complete(t, f.c, f.result, f.key)
           \/ f.call = "continue" /\ s' \in Continue(t, f.k, f.success)
           \/ f.call = "answer" /\ s' \in Answer(t, f.p, "transport")
           \/ f.call = "release" /\ s' \in Release(t, f.ks)
           \/ f.call = "take_back" /\ s' \in takeBack(t)
           \/ f.call = "cancelled" /\ s' = cancelled(t)
           \/ f.call = "pending_none" /\ s' = [t EXCEPT !.pending = "none"]
           \/ f.call = "check" /\ s' = checkSystemAuthStatus(t)
           \/ f.call = "verify_cancelled" /\ s' = [t EXCEPT !.verify = IF f.busy THEN "cancelled" ELSE "idle"]
    /\ UNCHANGED <<inputs, applied>>

Next ==
    \/ Run
    \/ startEnrollment \/ captureSample \/ discardLastSample \/ finishAndSave
    \/ Refresh \/ setPageActive \/ Cancel \/ Remove("delete") \/ Remove("reset")
    \/ runAuthTargetOperation \/ verifyCurrentFrame \/ verifyCancel
    \/ PreviewStops \/ PreviewStarts \/ SessionTimeout \/ WalletCloses \/ WalletOpens
    \/ Worker \/ ClientTimeout \/ ProcessFinished \/ HelperEnds \/ QueriesEnd \/ WaitTimeout

Spec == Init /\ [][Next]_vars

(* The client's timers and the provider's end what does not end by itself;  *)
(* the policy queries have deadlines.  That the helper ends is the user's   *)
(* answer to the authorisation dialog.                                      *)
Fairness ==
    /\ WF_vars(Run) /\ WF_vars(Worker) /\ WF_vars(ClientTimeout) /\ WF_vars(ProcessFinished)
    /\ WF_vars(WalletOpens) /\ WF_vars(HelperEnds) /\ WF_vars(QueriesEnd) /\ WF_vars(WaitTimeout)

FairSpec == Spec /\ Fairness

-----------------------------------------------------------------------------
States == {"idle", "opening_wallet", "enrolling", "capturing", "ready_to_save", "saving",
           "complete", "cancelled", "failed"}

(* The session's state and its counters stay in their ranges; a sample is   *)
(* never held without a key.                                                *)
TypeOK ==
    /\ s.state \in States
    /\ s.samples \in 0..MAXIMUM_SAMPLES
    /\ s.active <= s.gen
    /\ s.samples > 0 => s.key # None

(* An answer the session takes is that of the operation it waits for, or it *)
(* waits for none any more: a worker that was cancelled, replaced or timed  *)
(* out does not end another operation when its own end is heard of late.    *)
AnswerIsAwaited == applied # NoOne => applied.waited \in {applied.op, "none"}

(* While a worker is at work on the local profile there is no system        *)
(* profile, and no helper that makes one: revokeSystemProfileThen comes     *)
(* first, and the operations on the system profile are refused meanwhile.   *)
RevokedFirst ==
    s.proc # NoOne /\ s.proc.op \in Mutations /\ ~s.proc.killed /\ s.proc.at \in {"starting", "running"} =>
        ~s.sys /\ s.helper.op # "sync"

(* finishAndSave stores the key before commitEnrollment asks for the vault: *)
(* a worker never commits with a key that is not in the wallet.             *)
KeyStoredFirst ==
    s.proc # NoOne /\ s.proc.op = "commit" /\ ~s.proc.killed /\ s.proc.at \in {"starting", "running"} =>
        s.entry = s.proc.key

(* A worker that changes the vault is started only for what the user has    *)
(* asked for since the last cancel: an operation that was cancelled is not  *)
(* carried out when its revocation ends later.                              *)
StartedAsAsked ==
    s.proc = NoOne /\ s'.proc.op \in Mutations => s'.proc.op \in s'.asked

(* The flag that keeps privileged operations apart is up exactly while one  *)
(* is under way.                                                            *)
BusyIsOperation == s.sysBusy <=> (s.helper # NoOne \/ s.authOp # "idle")

(* Every busy state of the session ends. *)
BusyEnds == Busy(s) ~> ~Busy(s)

-----------------------------------------------------------------------------
(* Statements of the repository that the code does not keep.               *)

(* A profile that was committed can be opened with the key in the wallet    *)
(* for as long as it is there: taking the key back of a commit that failed  *)
(* or was cancelled concerns an unused key.                                 *)
CommittedReadable == s.vault \in s.committed => s.entry = s.vault

(* The key of a cancelled or failed enrollment that could not be taken back *)
(* is reported.                                                             *)
RollbackReported ==
    [][s'.rollback = "failed" /\ s.rollback # "failed" => s'.error = "rollback-failed"]_vars

(* An enrollment that the session timer ended has saved no profile. *)
TimedOutUnsaved == ~(s.timedOut /\ s.saved)

(* cancel kills the worker of the operation it cancels.                     *)
CancelledKilled ==
    s.proc.op \in Mutations => (s.proc.killed \/ s.proc.op \in s.asked)
====
