------------------------------ MODULE AuthDaemon ------------------------------
(***************************************************************************)
(* The authentication daemon kfaceauthd (src/engine/daemon/src/lib.rs):    *)
(* the accept loop with its bounded, UID-aware ingress, the pool of        *)
(* threads that each serve one connection, the single slot for the auth    *)
(* worker child, the per-user rate limiter and the policy file whose       *)
(* identity must not change during an attempt.                             *)
(*                                                                         *)
(* A connection is a member of Conns, used once; its pc is the program     *)
(* point of the thread (or queue) that has it.  The worker launched for    *)
(* connection c is process c.  Time is a clock that ticks.                 *)
(***************************************************************************)
EXTENDS Integers, FiniteSets, Sequences

CONSTANTS
    Conns,              \* connections to the daemon's socket
    Users,              \* UIDs that have a profile
    Root,               \* UID 0, which may ask on behalf of any user
    Targets,            \* authentication targets (SDDM, Plasma lock)
    Requests,           \* the requests that may arrive, each with its peer's UID
    FileIds,            \* identities of policy files: (device, inode, times)
    NoFile,             \* no readable policy file / no descriptor held
    None,               \* no value
    Reaper,             \* the accept loop, as holder of the slot's mutex
    MaxActive,          \* MAX_ACTIVE_CONNECTIONS: permits, threads, queue
    MaxPerUid,          \* MAX_CONNECTIONS_PER_PEER_UID
    ConnTimeout,        \* DEFAULT_PAM_TIMEOUT_MS, in ticks
    Reserve,            \* PAM_RESPONSE_RESERVE, in ticks
    Window,             \* PAM_ATTEMPT_WINDOW, in ticks
    AttemptsPerWindow,  \* PAM_ATTEMPTS_PER_WINDOW
    Faults,             \* what may go wrong around the daemon
    MaxClock            \* bound of the model: see Tick

Kinds == {"auth", "status", "freshness", "undecodable"}

(* A client that sends nothing, or goes away; a worker that garbles its    *)
(* output, or dies unasked; a failing system call; the end of the loop.    *)
FaultKinds == {"mute", "gone", "garble", "crash", "syscall", "stop"}

(* REJECTED stands for each status, other than SUCCESS, that a worker may  *)
(* report; the daemon passes all of them on in the same way.               *)
WorkerStatus == {"SUCCESS", "REJECTED"}
Frames == WorkerStatus \cup {"progress", "bad"}
Streams == Seq(Frames)
Status == WorkerStatus \cup {"ACCESS_DENIED", "NO_PROFILE", "TIMEOUT", "DEVICE_BUSY",
                             "INTERNAL_ERROR", "RATE_LIMITED", "CANCELLED"}

ASSUME ConstantsAssumption ==
    /\ Requests \subseteq [peer : Users \cup {Root}, kind : Kinds, uid : Users,
                           target : Targets, timeout : Nat]
    /\ None \notin Conns \cup Status /\ Reaper \notin Conns /\ Reaper # None
    /\ NoFile \notin FileIds
    /\ MaxActive \in Nat \ {0} /\ MaxPerUid \in Nat \ {0}
    /\ ConnTimeout \in Nat /\ Reserve \in Nat /\ Window \in Nat
    /\ AttemptsPerWindow \in Nat /\ Faults \subseteq FaultKinds /\ MaxClock \in Nat

VARIABLES
    clock,        \* Instant::now()
    listener,     \* program point of run_daemon_loop_until
    permits,      \* connections holding an IngressPermit
    pc,           \* [Conns -> program point of the connection]
    req,          \* [Conns -> peer UID and request of the client]
    client,       \* [Conns -> what the client's end of the socket does]
    deadline,     \* [Conns -> connection_deadline, then processing_deadline]
    snap,         \* [Conns -> file identity that start_policy holds open]
    status,       \* [Conns -> final_status, then the status of the response]
    slotLock,     \* holder of the mutex around auth_child
    slot,         \* auth_child: the child registered in the slot
    proc,         \* [Conns -> state of the worker process]
    killed,       \* [Conns -> SIGKILL was sent to the worker]
    pipe,         \* [Conns -> frames the worker wrote, not yet read]
    attempts,     \* AuthRateLimiter: [Users -> attempts recorded]
    policyFile,   \* identity of the file now at AUTH_POLICY_PATH
    policy,       \* its contents: the <<user, target>> that are not Off
    changed       \* history: the policy was replaced during the attempt

clientVars == <<req, client>>
jobVars == <<permits, pc, deadline, snap, status>>
slotVars == <<slotLock, slot>>
workerVars == <<proc, killed, pipe>>
policyVars == <<policyFile, policy, changed>>
vars == <<clock, listener, clientVars, jobVars, slotVars, workerVars, attempts, policyVars>>

-----------------------------------------------------------------------------
Supervising == {"poll", "read", "wait"}
HoldsPolicy == {"claim", "recheck"} \cup Supervising
Handling == {"reading", "dispatch", "clear", "respond"} \cup HoldsPolicy
InFlight == {"queued"} \cup Handling
Points == {"out", "backlog", "closed"} \cup InFlight

AliveStates == {"started", "capturing", "matching", "finished"}
ProcStates == AliveStates \cup {"none", "exited_ok", "exited_bad", "reaped"}
Alive(c) == proc[c] \in AliveStates
Exited(c) == proc[c] \in {"exited_ok", "exited_bad"}

Attempt == [conn : Conns, at : Nat]

TypeOK ==
    /\ clock \in Nat
    /\ listener \in {"top", "reaping", "accept", "drain", "lastreap", "stopped"}
    /\ permits \in SUBSET Conns
    /\ pc \in [Conns -> Points]
    /\ req \in [Conns -> Requests \cup {None}]
    /\ \A c \in Conns : pc[c] # "out" => req[c] \in Requests
    /\ client \in [Conns -> {"out", "sent", "mute", "gone"}]
    /\ deadline \in [Conns -> Int]
    /\ snap \in [Conns -> FileIds \cup {NoFile}]
    /\ status \in [Conns -> Status \cup {None}]
    /\ \A c \in Conns : pc[c] \in {"recheck", "clear", "respond"} => status[c] \in Status
    /\ slotLock \in Conns \cup {None, Reaper}
    /\ slot \in Conns \cup {None}
    /\ proc \in [Conns -> ProcStates]
    /\ killed \in [Conns -> BOOLEAN]
    /\ pipe \in [Conns -> Streams]
    /\ attempts \in [Users -> SUBSET Attempt]
    /\ policyFile \in FileIds \cup {NoFile}
    /\ policy \in SUBSET (Users \X Targets)
    /\ changed \in [Conns -> BOOLEAN]

Init ==
    /\ clock = 0
    /\ listener = "top"
    /\ permits = {}
    /\ pc = [c \in Conns |-> "out"]
    /\ req = [c \in Conns |-> None]
    /\ client = [c \in Conns |-> "out"]
    /\ deadline = [c \in Conns |-> 0]
    /\ snap = [c \in Conns |-> NoFile]
    /\ status = [c \in Conns |-> None]
    /\ slotLock = None
    /\ slot = None
    /\ proc = [c \in Conns |-> "none"]
    /\ killed = [c \in Conns |-> FALSE]
    /\ pipe = [c \in Conns |-> <<>>]
    /\ attempts = [u \in Users |-> {}]
    /\ policyFile \in FileIds
    /\ policy = Users \X Targets
    /\ changed = [c \in Conns |-> FALSE]

-----------------------------------------------------------------------------
(* The environment: time, clients and the writers of the policy file.      *)

(* Beyond MaxClock the clock only runs up to the deadlines that are set.   *)
Tick ==
    /\ clock < MaxClock \/ \E c \in Conns : clock < deadline[c]
    /\ clock' = clock + 1
    /\ UNCHANGED <<listener, clientVars, jobVars, slotVars, workerVars, attempts, policyVars>>

(* remaining_timeout_ms(d) is None *)
Expired(d) == clock >= d

(* A client connects, and sends its request or never does. *)
Connect(c) ==
    /\ pc[c] = "out"
    /\ \E r \in Requests, how \in {"sent"} \cup (Faults \cap {"mute"}) :
          /\ req' = [req EXCEPT ![c] = r]
          /\ client' = [client EXCEPT ![c] = how]
    /\ pc' = [pc EXCEPT ![c] = "backlog"]
    /\ UNCHANGED <<clock, listener, permits, deadline, snap, status, slotVars, workerVars,
                   attempts, policyVars>>

(* The client closes its end, or writes more than its request, which       *)
(* client_disconnected does not tell apart.                                *)
Disconnect(c) ==
    /\ "gone" \in Faults
    /\ pc[c] \in InFlight
    /\ client[c] # "gone"
    /\ client' = [client EXCEPT ![c] = "gone"]
    /\ UNCHANGED <<clock, listener, req, jobVars, slotVars, workerVars, attempts,
                   policyVars>>

(* Mutant: the snapshot keeps no descriptor, so an inode may come back.    *)
ReusableAlways(f) == TRUE

(* No attempt holds f open; an open file keeps its inode from being reused *)
(* (AuthPolicySnapshot.file).                                              *)
Reusable(f) == \A c \in Conns : pc[c] \in HoldsPolicy => snap[c] # f

(* write_atomic renames a new file over the policy; an administrator may   *)
(* also remove it or make it unsafe to read.                               *)
ReplacePolicy ==
    /\ \/ \E f \in FileIds, p \in SUBSET (Users \X Targets) :
             /\ f # policyFile /\ Reusable(f)
             /\ policyFile' = f /\ policy' = p
       \/ policyFile' = NoFile /\ policy' = {}
    /\ changed' = [c \in Conns |-> changed[c] \/ pc[c] \in HoldsPolicy]
    /\ UNCHANGED <<clock, listener, clientVars, jobVars, slotVars, workerVars, attempts>>

(* The policy on disk is readable and enables the target of c's request.   *)
authentication_target_enabled(c) ==
    policyFile # NoFile /\ <<req[c].uid, req[c].target>> \in policy

-----------------------------------------------------------------------------
(* The auth worker child: serve_auth_worker around handle_pam_request.     *)

(* What the worker writes is lost once the daemon has closed its end.      *)
Write(c, f) ==
    pipe' = IF pc[c] \in Supervising THEN [pipe EXCEPT ![c] = Append(@, f)] ELSE pipe

ProcBecomes(c, s) ==
    /\ proc' = [proc EXCEPT ![c] = s]
    /\ UNCHANGED <<clock, listener, clientVars, jobVars, slotVars, killed, attempts, policyVars>>

(* The worker writes its last frame; all that remains is to exit.          *)
Finish(c, f) == ProcBecomes(c, "finished") /\ Write(c, f)

(* Deadline, policy, key and vault checks that precede the capture.        *)
WorkerCheck(c) ==
    /\ proc[c] = "started"
    /\ \/ Finish(c, "REJECTED")
       \/ /\ authentication_target_enabled(c)
          /\ ProcBecomes(c, "capturing") /\ pipe' = pipe

(* The capture of one frame, and the progress record written after it.     *)
WorkerCapture(c) ==
    /\ proc[c] = "capturing"
    /\ \/ Finish(c, "REJECTED")
       \/ ProcBecomes(c, "matching") /\ Write(c, "progress")

(* verify_frame_against_vault and the last check of the worker's deadline. *)
WorkerMatch(c) ==
    /\ proc[c] = "matching"
    /\ \E s \in WorkerStatus : Finish(c, s)

(* Bound of the model: frames a faulty worker gets ahead of the daemon.    *)
MaxUnread == 3

(* A faulty worker ends with something that is not a frame, with part of   *)
(* one or nothing at all, or it writes on after its last frame.            *)
WorkerGarbles(c) ==
    /\ "garble" \in Faults
    /\ \/ /\ proc[c] \in AliveStates \ {"finished"}
          /\ \/ Finish(c, "bad")
             \/ ProcBecomes(c, "finished") /\ pipe' = pipe
       \/ /\ proc[c] = "finished" /\ Len(pipe[c]) < MaxUnread
          /\ Finish(c, "progress")

WorkerExit(c) ==
    /\ proc[c] = "finished"
    /\ ProcBecomes(c, "exited_ok") /\ pipe' = pipe

(* The process crashes, or SIGKILL takes effect.  Until it does a killed   *)
(* worker goes on, and in kernel D state it may never take effect.         *)
WorkerDies(c) ==
    /\ Alive(c)
    /\ killed[c] \/ "crash" \in Faults
    /\ ProcBecomes(c, "exited_bad") /\ pipe' = pipe

-----------------------------------------------------------------------------
(* The accept loop: run_daemon_loop_until.                                 *)

(* reap_auth_child: try_lock, which fails while an attempt is supervised.  *)
ReapBegin ==
    /\ listener = "top"
    /\ IF slotLock = None
       THEN listener' = "reaping" /\ slotLock' = Reaper
       ELSE listener' = "accept" /\ slotLock' = slotLock
    /\ UNCHANGED <<clock, clientVars, jobVars, slot, workerVars, attempts, policyVars>>

(* Mutant: try_wait is never called. *)
ReapSlotNever == UNCHANGED <<slot, proc>>

(* The registered child is reaped and forgotten if it has exited.          *)
ReapSlot ==
    IF slot # None /\ Exited(slot)
    THEN slot' = None /\ proc' = [proc EXCEPT ![slot] = "reaped"]
    ELSE UNCHANGED <<slot, proc>>

(* reap_auth_child: try_wait with the mutex held, then its release.        *)
ReapEnd ==
    /\ listener = "reaping"
    /\ ReapSlot
    /\ slotLock' = None
    /\ listener' = "accept"
    /\ UNCHANGED <<clock, clientVars, jobVars, killed, pipe, attempts, policyVars>>

PermitsOf(u) == {d \in permits : req[d].peer = u}
Queued == {d \in Conns : pc[d] = "queued"}

(* Mutant: only the limit per peer is enforced. *)
try_acquire_per_uid(c) == Cardinality(PermitsOf(req[c].peer)) < MaxPerUid

(* IngressState::try_acquire *)
try_acquire(c) ==
    /\ Cardinality(permits) < MaxActive
    /\ Cardinality(PermitsOf(req[c].peer)) < MaxPerUid

(* Accept one connection: with a permit and room in the queue it becomes a *)
(* job with its own deadline; otherwise reject_busy answers and closes it, *)
(* and it is dropped when its peer's credentials cannot be read.           *)
Accept(c) ==
    /\ listener = "accept"
    /\ pc[c] = "backlog"
    /\ listener' = "top"
    /\ \/ /\ try_acquire(c) /\ Cardinality(Queued) < MaxActive
          /\ pc' = [pc EXCEPT ![c] = "queued"]
          /\ permits' = permits \cup {c}
          /\ deadline' = [deadline EXCEPT ![c] = clock + ConnTimeout]
          /\ client' = client
       \/ /\ \/ ~(try_acquire(c) /\ Cardinality(Queued) < MaxActive)
             \/ "syscall" \in Faults
          /\ pc' = [pc EXCEPT ![c] = "closed"]
          /\ client' = [client EXCEPT ![c] = "gone"]
          /\ UNCHANGED <<permits, deadline>>
    /\ UNCHANGED <<clock, req, snap, status, slotVars, workerVars, attempts, policyVars>>

(* What is left of the loop changes only its own program point, and at     *)
(* shutdown the child.                                                     *)
LoopGoes(from, to) ==
    /\ listener = from
    /\ listener' = to
    /\ UNCHANGED <<clock, clientVars, jobVars, slotLock, pipe, attempts, policyVars>>

(* accept() returned WouldBlock. *)
NothingToAccept ==
    /\ LoopGoes("accept", "top")
    /\ \A c \in Conns : pc[c] # "backlog"
    /\ UNCHANGED <<slot, proc, killed>>

(* The loop ends: accept failed, or the shutdown flag was seen.            *)
Shutdown ==
    /\ "stop" \in Faults
    /\ LoopGoes("accept", "drain")
    /\ UNCHANGED <<slot, proc, killed>>

(* Mutant: the child is killed before the threads are joined. *)
KillChildFirst ==
    /\ LoopGoes("drain", "lastreap")
    /\ killed' = [c \in Conns |-> killed[c] \/ c = slot]
    /\ UNCHANGED <<slot, proc>>

(* The threads have finished all jobs and are joined; the child is killed. *)
KillChild ==
    /\ LoopGoes("drain", "lastreap")
    /\ \A c \in Conns : pc[c] \notin InFlight
    /\ killed' = [c \in Conns |-> killed[c] \/ c = slot]
    /\ UNCHANGED <<slot, proc>>

(* The last reap loop ends: the slot is empty, or its time is over.        *)
LastReap ==
    /\ LoopGoes("lastreap", "stopped")
    /\ ReapSlot
    /\ UNCHANGED killed

-----------------------------------------------------------------------------
(* The threads: worker_loop, handle_client_stream_with_peer, dispatcher.   *)
(* One thread carries one connection from Take to Close.                   *)

Busy == {d \in Conns : pc[d] \in Handling}

Goto(c, point) == pc' = [pc EXCEPT ![c] = point]

Take(c) ==
    /\ pc[c] = "queued"
    /\ Cardinality(Busy) < MaxActive
    /\ Goto(c, "reading")
    /\ UNCHANGED <<clock, listener, clientVars, permits, deadline, snap, status, slotVars,
                   workerVars, attempts, policyVars>>

(* Mutant: the permit is not dropped with the job. *)
CloseLeaks(c) ==
    /\ Goto(c, "closed")
    /\ deadline' = [deadline EXCEPT ![c] = 0]
    /\ status' = [status EXCEPT ![c] = None]
    /\ client' = [client EXCEPT ![c] = "gone"]
    /\ changed' = [changed EXCEPT ![c] = FALSE]
    /\ UNCHANGED <<clock, listener, permits, req, snap, slotVars, workerVars, attempts,
                   policyFile, policy>>

(* The handler returns: the stream is closed and the permit dropped.       *)
Close(c) ==
    /\ Goto(c, "closed")
    /\ permits' = permits \ {c}
    /\ deadline' = [deadline EXCEPT ![c] = 0]
    /\ status' = [status EXCEPT ![c] = None]
    /\ client' = [client EXCEPT ![c] = "gone"]
    /\ changed' = [changed EXCEPT ![c] = FALSE]
    /\ UNCHANGED <<clock, listener, req, snap, slotVars, workerVars, attempts,
                   policyFile, policy>>

(* The dispatcher returns a status, which ends the life of start_policy.   *)
Answer(c, s) ==
    /\ status' = [status EXCEPT ![c] = s]
    /\ snap' = [snap EXCEPT ![c] = NoFile]
    /\ Goto(c, "respond")

(* read_frame within the connection's deadline, then the decoder.          *)
ReadFrame(c) ==
    /\ pc[c] = "reading"
    /\ client[c] \in {"sent", "gone"} /\ ~Expired(deadline[c])
    /\ IF req[c].kind = "undecodable"
       THEN Answer(c, "INTERNAL_ERROR")
       ELSE Goto(c, "dispatch") /\ UNCHANGED <<status, snap>>
    /\ UNCHANGED <<clock, listener, clientVars, permits, deadline, slotVars, workerVars,
                   attempts, policyVars>>

(* End of stream, a bad frame, the deadline, or a stream that cannot be    *)
(* made nonblocking: closed without an answer.                             *)
ReadFails(c) ==
    /\ pc[c] = "reading"
    /\ client[c] = "gone" \/ Expired(deadline[c]) \/ "syscall" \in Faults
    /\ Close(c)

is_authorized(c) == req[c].peer \in {req[c].uid, Root}

(* The requests that only read: caller-bound Freshness, and Status.        *)
DispatchQuery(c) ==
    /\ pc[c] = "dispatch"
    /\ \/ /\ req[c].kind = "freshness"
          /\ Answer(c, IF req[c].peer = req[c].uid THEN "SUCCESS" ELSE "ACCESS_DENIED")
       \/ /\ req[c].kind = "status" /\ is_authorized(c)
          /\ \E s \in {"SUCCESS", "NO_PROFILE", "INTERNAL_ERROR"} : Answer(c, s)
       \/ /\ req[c].kind = "status" /\ ~is_authorized(c)
          /\ Answer(c, "ACCESS_DENIED")
    /\ UNCHANGED <<clock, listener, clientVars, permits, deadline, slotVars, workerVars,
                   attempts, policyVars>>

Earlier(s, t) == IF s < t THEN s ELSE t

(* PamAuth, up to the call of supervise_auth_worker: the attempt opens the *)
(* policy and derives its processing deadline.                             *)
DispatchAuth(c) ==
    /\ pc[c] = "dispatch"
    /\ req[c].kind = "auth"
    /\ IF is_authorized(c) /\ authentication_target_enabled(c)
       THEN /\ Goto(c, "claim")
            /\ snap' = [snap EXCEPT ![c] = policyFile]
            /\ deadline' = [deadline EXCEPT ![c] =
                              Earlier(clock + req[c].timeout, @) - Reserve]
            /\ status' = status
       ELSE Answer(c, "ACCESS_DENIED") /\ deadline' = deadline
    /\ UNCHANGED <<clock, listener, clientVars, permits, slotVars, workerVars, attempts,
                   policyVars>>

-----------------------------------------------------------------------------
(* supervise_auth_worker and the end of the dispatcher.                    *)

(* Mutant: the window is one tick too short. *)
RecentShort(u) == {a \in attempts[u] : clock - a.at + 1 < Window}

(* AuthRateLimiter: the attempts that still count, and recording one.      *)
Recent(u) == {a \in attempts[u] : clock - a.at < Window}
Retain == [u \in Users |-> Recent(u)]
allow(u) == Cardinality(Recent(u)) < AttemptsPerWindow
Record(c) == [Retain EXCEPT ![req[c].uid] = @ \cup {[conn |-> c, at |-> clock]}]

(* try_lock fails, or the registered child has not exited. *)
ClaimBusy(c) ==
    /\ pc[c] = "claim"
    /\ slotLock # None \/ (slot # None /\ ~Exited(slot))
    /\ Answer(c, "DEVICE_BUSY")
    /\ UNCHANGED <<clock, listener, clientVars, permits, deadline, slotVars, workerVars,
                   attempts, policyVars>>

(* The mutex is free, and so is the slot once an exited child is reaped.   *)
SlotFree == slotLock = None /\ (slot # None => Exited(slot))

(* The attempt ends without a child: too late, refused by the limiter, or  *)
(* the spawn failed after the attempt was counted.                         *)
ClaimRefused(c) ==
    /\ pc[c] = "claim"
    /\ SlotFree
    /\ ReapSlot
    /\ \/ /\ Expired(deadline[c])
          /\ Answer(c, "TIMEOUT")
          /\ attempts' = attempts
       \/ /\ ~Expired(deadline[c]) /\ ~allow(req[c].uid)
          /\ Answer(c, "RATE_LIMITED")
          /\ attempts' = Retain
       \/ /\ ~Expired(deadline[c]) /\ allow(req[c].uid) /\ "syscall" \in Faults
          /\ Answer(c, "INTERNAL_ERROR")
          /\ attempts' = Record(c)
    /\ UNCHANGED <<clock, listener, clientVars, permits, deadline, slotLock, killed, pipe,
                   policyVars>>

(* The attempt is counted and its worker spawned and registered.           *)
Spawn(c) ==
    /\ pc[c] = "claim"
    /\ SlotFree
    /\ ~Expired(deadline[c]) /\ allow(req[c].uid)
    /\ attempts' = Record(c)
    /\ slotLock' = c
    /\ slot' = c
    /\ proc' = [d \in Conns |-> IF d = c THEN "started"
                                ELSE IF d = slot /\ Exited(d) THEN "reaped" ELSE proc[d]]
    /\ Goto(c, "poll")
    /\ UNCHANGED <<clock, listener, clientVars, permits, deadline, snap, status, killed, pipe,
                   policyVars>>

(* Supervision ends: the mutex is released and the worker's socket closed. *)
EndSupervision(c) ==
    /\ slotLock' = None
    /\ pipe' = [pipe EXCEPT ![c] = <<>>]

(* Mutants: the killed child is forgotten at once; or the status that it   *)
(* reported before is used all the same.                                   *)
KillAndForget(c, s) ==
    /\ killed' = [killed EXCEPT ![c] = TRUE]
    /\ EndSupervision(c)
    /\ Answer(c, s)
    /\ slot' = None
    /\ UNCHANGED proc
KillAndKeepStatus(c, s) ==
    /\ killed' = [killed EXCEPT ![c] = TRUE]
    /\ EndSupervision(c)
    /\ Answer(c, IF status[c] = None THEN s ELSE status[c])
    /\ UNCHANGED <<slot, proc>>

(* Supervision gives up: the child is killed but stays in the slot.        *)
KillAnd(c, s) ==
    /\ killed' = [killed EXCEPT ![c] = TRUE]
    /\ EndSupervision(c)
    /\ Answer(c, s)
    /\ UNCHANGED <<slot, proc>>

Continue(c, point) ==
    /\ Goto(c, point)
    /\ UNCHANGED <<snap, slotVars, proc, killed>>

(* What no step of the supervision loop changes.                           *)
LoopFrame == UNCHANGED <<clock, listener, clientVars, permits, deadline, attempts, policyVars>>

(* Mutant: only the client can end the wait. *)
PollClientOnly(c) ==
    /\ pc[c] = "poll"
    /\ \/ client[c] = "gone" /\ KillAnd(c, "CANCELLED")
       \/ client[c] # "gone" /\ Continue(c, "read") /\ UNCHANGED <<pipe, status>>
    /\ LoopFrame

(* Top of the supervision loop: the client, then the deadline.             *)
Poll(c) ==
    /\ pc[c] = "poll"
    /\ \/ client[c] = "gone" /\ KillAnd(c, "CANCELLED")
       \/ client[c] # "gone" /\ Expired(deadline[c]) /\ KillAnd(c, "TIMEOUT")
       \/ /\ client[c] # "gone" /\ ~Expired(deadline[c])
          /\ Continue(c, "read") /\ UNCHANGED <<pipe, status>>
    /\ LoopFrame

(* Nothing (more) to read from the worker. *)
ReadNothing(c) ==
    /\ pc[c] = "read"
    /\ pipe[c] = <<>>
    /\ Continue(c, "wait") /\ UNCHANGED <<pipe, status>>
    /\ LoopFrame

(* One frame of the worker.  Progress is forwarded while the client is     *)
(* there and time is left; the first status is kept; all else is an error. *)
ReadWorker(c) ==
    /\ pc[c] = "read"
    /\ pipe[c] # <<>>
    /\ LET frame == Head(pipe[c])
           unread == [pipe EXCEPT ![c] = Tail(@)]
       IN \/ /\ frame = "progress" /\ status[c] = None
             /\ IF client[c] = "gone" \/ Expired(deadline[c])
                THEN KillAnd(c, "CANCELLED")
                ELSE Continue(c, "read") /\ status' = status /\ pipe' = unread
          \/ /\ frame \in WorkerStatus /\ status[c] = None
             /\ Continue(c, "read") /\ pipe' = unread
             /\ status' = [status EXCEPT ![c] = frame]
          \/ /\ frame = "bad" \/ status[c] # None
             /\ KillAnd(c, "INTERNAL_ERROR")
    /\ LoopFrame

(* Mutant: a clean exit without a status is passed on. *)
ExitStatusUnchecked(c) ==
    IF client[c] = "gone" THEN "CANCELLED"
    ELSE IF proc[c] # "exited_ok" THEN "INTERNAL_ERROR"
    ELSE IF Expired(deadline[c]) THEN "TIMEOUT"
    ELSE status[c]

(* The status of an attempt whose worker has exited. *)
ExitStatus(c) ==
    IF client[c] = "gone" THEN "CANCELLED"
    ELSE IF proc[c] # "exited_ok" THEN "INTERNAL_ERROR"
    ELSE IF Expired(deadline[c]) THEN "TIMEOUT"
    ELSE IF status[c] = None THEN "INTERNAL_ERROR"
    ELSE status[c]

(* try_wait: the worker still runs, or it is reaped and its status taken.  *)
(* Only a SUCCESS goes on to the policy check.                             *)
Wait(c) ==
    /\ pc[c] = "wait"
    /\ IF Exited(c)
       THEN /\ EndSupervision(c)
            /\ slot' = None
            /\ proc' = [proc EXCEPT ![c] = "reaped"]
            /\ killed' = killed
            /\ IF ExitStatus(c) = "SUCCESS"
               THEN Goto(c, "recheck") /\ UNCHANGED <<status, snap>>
               ELSE Answer(c, ExitStatus(c))
       ELSE Continue(c, "poll") /\ UNCHANGED <<pipe, status>>
    /\ LoopFrame

(* An I/O error: the request to the worker, its socket, or try_wait.       *)
SuperviseFails(c) ==
    /\ "syscall" \in Faults
    /\ pc[c] \in Supervising
    /\ KillAnd(c, "INTERNAL_ERROR")
    /\ LoopFrame

(* Mutant: the policy is read again, but only for what it says. *)
RecheckContents(c) ==
    /\ pc[c] = "recheck"
    /\ IF authentication_target_enabled(c)
       THEN /\ Goto(c, "clear")
            /\ snap' = [snap EXCEPT ![c] = NoFile]
            /\ status' = status
       ELSE Answer(c, "ACCESS_DENIED")
    /\ UNCHANGED <<slotVars, workerVars>>
    /\ LoopFrame

(* After a SUCCESS the policy is opened again: unless it is readable and   *)
(* still the file the attempt holds open, the answer is ACCESS_DENIED.     *)
Recheck(c) ==
    /\ pc[c] = "recheck"
    /\ IF policyFile # NoFile /\ policyFile = snap[c]
       THEN /\ Goto(c, "clear")
            /\ snap' = [snap EXCEPT ![c] = NoFile]
            /\ status' = status
       ELSE Answer(c, "ACCESS_DENIED")
    /\ UNCHANGED <<slotVars, workerVars>>
    /\ LoopFrame

(* rate_limiter.clear: an accepted attempt forgives the earlier ones.      *)
Clear(c) ==
    /\ pc[c] = "clear"
    /\ attempts' = [attempts EXCEPT ![req[c].uid] = {}]
    /\ Goto(c, "respond")
    /\ UNCHANGED <<clock, listener, clientVars, permits, deadline, snap, status, slotVars,
                   workerVars, policyVars>>

(* write_frame, whether or not the client still takes the answer, and the  *)
(* end of the job.                                                         *)
Respond(c) ==
    /\ pc[c] = "respond"
    /\ Close(c)

-----------------------------------------------------------------------------
ThreadStep(c) ==
    \/ Take(c) \/ ReadFrame(c) \/ ReadFails(c)
    \/ DispatchQuery(c) \/ DispatchAuth(c)
    \/ ClaimBusy(c) \/ ClaimRefused(c) \/ Spawn(c)
    \/ Poll(c) \/ ReadNothing(c) \/ ReadWorker(c) \/ Wait(c) \/ SuperviseFails(c)
    \/ Recheck(c) \/ Clear(c) \/ Respond(c)

LoopStep ==
    \/ ReapBegin \/ ReapEnd \/ NothingToAccept \/ Shutdown \/ KillChild \/ LastReap
    \/ \E c \in Conns : Accept(c)

WorkerStep(c) ==
    \/ WorkerCheck(c) \/ WorkerCapture(c) \/ WorkerMatch(c) \/ WorkerGarbles(c)
    \/ WorkerExit(c) \/ WorkerDies(c)

Next ==
    \/ Tick \/ ReplacePolicy \/ LoopStep
    \/ \E c \in Conns : Connect(c) \/ Disconnect(c) \/ ThreadStep(c) \/ WorkerStep(c)

Spec == Init /\ [][Next]_vars

(* Time passes, the daemon's threads and its accept loop run, and a worker *)
(* that was sent SIGKILL dies (outside kernel D state).  Nothing is        *)
(* assumed of clients, or of a worker that was not killed: it may hang.    *)
Fairness ==
    /\ WF_vars(Tick)
    /\ WF_vars(LoopStep)
    /\ \A c \in Conns : WF_vars(ThreadStep(c))
    /\ \A c \in Conns : WF_vars(killed[c] /\ WorkerDies(c))

FairSpec == Spec /\ Fairness

-----------------------------------------------------------------------------
(* Properties. *)

(* The daemon accepts the authentication asked for on connection c: the    *)
(* policy check is passed and the answer will be SUCCESS.                  *)
Granted(c) ==
    /\ pc[c] \in {"clear", "respond"}
    /\ req[c].kind = "auth" /\ status[c] = "SUCCESS"

(* There is no overlapping camera operation: at most one worker process is *)
(* alive, whether supervised, abandoned at its deadline or being killed    *)
(* (supervise_auth_worker, reap_auth_child).                               *)
SingleWorker ==
    \A c, d \in Conns : Alive(c) /\ Alive(d) => c = d

(* An attempt is accepted only if the policy file that enabled its target  *)
(* when it began was not replaced, even by an equal one, up to the check   *)
(* that follows the worker's exit (AuthPolicySnapshot::same_file_as).      *)
GrantUnderOnePolicy ==
    \A c \in Conns : Granted(c) => ~changed[c]

(* An attempt is accepted only on the verdict of its own worker, which has *)
(* exited and been reaped without ever being sent SIGKILL: a result that   *)
(* comes after a timeout, a cancellation or an error is never used.        *)
GrantByCleanWorker ==
    \A c \in Conns : Granted(c) => proc[c] = "reaped" /\ ~killed[c]

(* The ingress limits hold and permits are neither leaked nor dropped      *)
(* early: they belong exactly to the connections queued or being handled   *)
(* (IngressState, IngressPermit).                                          *)
PermitsExact ==
    /\ permits = {c \in Conns : pc[c] \in InFlight}
    /\ Cardinality(permits) <= MaxActive
    /\ \A u \in Users \cup {Root} : Cardinality(PermitsOf(u)) <= MaxPerUid

(* With a permit in hand the queue has room, so the Full branch of         *)
(* try_send is never taken, and a queued job never waits for a thread.     *)
QueueNeverFull ==
    /\ \A c \in Conns :
          pc[c] = "backlog" /\ try_acquire(c) => Cardinality(Queued) < MaxActive
    /\ Queued # {} => Cardinality(Busy) < MaxActive

(* A live worker is always the one registered in the slot, and the mutex   *)
(* is held by an attempt exactly while it supervises its worker.           *)
SlotOwnsWorker ==
    /\ \A c \in Conns : Alive(c) => slot = c
    /\ \A c \in Conns : pc[c] \in Supervising <=> slotLock = c

(* When the daemon stops, no worker is left running that was not sent      *)
(* SIGKILL (the shutdown path of run_daemon_loop_until).                   *)
StopKillsWorker ==
    listener \in {"lastreap", "stopped"} => \A c \in Conns : Alive(c) => killed[c]

ForgetsExpiredOrAccepted ==
    \A u \in Users : \A a \in attempts[u] \ attempts'[u] :
        \/ clock - a.at >= Window
        \/ \E c \in Conns : Granted(c) /\ req[c].uid = u /\ pc'[c] # pc[c]

(* The limiter forgets an attempt only when its window has passed or when  *)
(* an attempt of the same user is accepted: timeouts, cancellations,       *)
(* failed spawns and successes discarded by the policy check all count.    *)
ForgivenOnlyBySuccess == [][ForgetsExpiredOrAccepted]_vars

(* A worker that reported its status and exited in time is answered with   *)
(* that status while the client waits: the daemon's test of a worker that  *)
(* writes progress and success expects SUCCESS.                            *)
VerdictIsAnswered ==
    [][\A c \in Conns :
          (/\ pc[c] = "wait" /\ proc[c] = "exited_ok" /\ proc'[c] = "reaped"
           /\ client[c] # "gone" /\ ~Expired(deadline[c]))
          => status'[c] # "INTERNAL_ERROR"]_vars

(* Every connection that got a permit is closed again, whatever clients    *)
(* and workers do: a hung worker is abandoned at the deadline.             *)
Served ==
    \A c \in Conns : pc[c] = "queued" ~> pc[c] = "closed"

(* An abandoned worker gives the slot back once SIGKILL takes effect.      *)
SlotRecovers ==
    \A c \in Conns : slot = c /\ killed[c] ~> slot # c \/ listener = "stopped"
====
