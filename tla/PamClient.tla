------------------------------- MODULE PamClient --------------------------------
(***************************************************************************)
(* pam_sm_authenticate: one request to the daemon, with one deadline that   *)
(* connecting, sending and every read share.  The daemon's end answers any *)
(* records, dripped a part at a time, and may close at any moment.         *)
(*                                                                         *)
(* Time is counted in units of which Grain are a millisecond, the grain of *)
(* poll.  It passes only while the client waits in poll: what the scheduler*)
(* adds is not counted.  A request is sent, and a header or a body is read,*)
(* in Parts parts: the short writes and reads of the socket.               *)
(***************************************************************************)
EXTENDS Integers, Sequences

CONSTANTS
    MAX_TIMEOUT_MS,
    Grain,         \* units of time in a millisecond
    Parts,         \* parts of a request, a header or a body
    MaxMessages,   \* bound of the model: records of the daemon
    None

Codes == {"progress", "success", "timeout", "busy", "internal", "limited", "other"}
Malformed == {"length", "version"}
Replies == [code : Codes \cup Malformed, parts : Nat]

ASSUME Bounds ==
    /\ MAX_TIMEOUT_MS \in Nat \ {0} /\ Grain \in Nat \ {0} /\ Parts \in Nat \ {0}
    /\ None \notin Nat \cup {"PAM_SUCCESS", "PAM_AUTH_ERR"} /\ None \notin Replies

VARIABLES
    now, deadline,
    pc,        \* where the client is: connect, request, send, header, body, done
    total,     \* parts sent or read of the current buffer
    wake,      \* when the poll under way times out
    asked,     \* the milliseconds in the request
    body,      \* the record being read
    result,    \* what PAM gets, and the status shown
    status,
    wire,      \* parts the daemon wrote and the client has not read
    reply,     \* the record the daemon is writing, and how many parts it wrote
    granted,   \* the daemon has written a whole success record
    closed, messages

vars == <<now, deadline, pc, total, wake, asked, body, result, status, wire, reply, granted, closed, messages>>
client == <<deadline, pc, total, wake, asked, body, result, status>>
daemon == <<reply, granted, closed, messages>>

Init ==
    /\ now = 0 /\ deadline = None
    /\ pc = "begin" /\ total = 0 /\ wake = None /\ asked = None /\ body = None
    /\ result = None /\ status = None
    /\ wire = <<>> /\ reply = None /\ granted = FALSE /\ closed = FALSE /\ messages = 0

-----------------------------------------------------------------------------
finish(r, st) ==
    /\ pc' = "done" /\ result' = r /\ status' = st /\ wake' = None
    /\ UNCHANGED <<now, deadline, total, asked, body, wire, daemon>>

fail_with_status(st) == finish("PAM_AUTH_ERR", st)
daemon_unavailable(errno) == fail_with_status(IF errno = "ETIMEDOUT" THEN "timeout" ELSE "service-unavailable")

(* remaining_timeout_ms: rounded up to whole milliseconds. *)
remaining_timeout_ms == (deadline - now + Grain - 1) \div Grain
TimedOut == now >= deadline

(* The service, the user and the account are looked up, then the socket is  *)
(* made.                                                                    *)
Begin ==
    /\ pc = "begin"
    /\ \/ finish("PAM_AUTH_ERR", None)
       \/ fail_with_status("use-password")
       \/ daemon_unavailable("other")
       \/ /\ deadline' = now + MAX_TIMEOUT_MS * Grain
          /\ pc' = "connect"
          /\ UNCHANGED <<now, total, wake, asked, body, result, status, wire, daemon>>

(* connect_until, before it waits. *)
Connect ==
    /\ pc = "connect" /\ wake = None /\ total = 0
    /\ \/ pc' = "request" /\ UNCHANGED <<now, deadline, total, wake, asked, body, result, status, wire, daemon>>
       \/ daemon_unavailable("other")
       \/ total' = 1 /\ UNCHANGED <<now, deadline, pc, wake, asked, body, result, status, wire, daemon>>

(* The operations that wait_for_fd serves. *)
Waits == pc \in {"send", "header", "body"} \/ (pc = "connect" /\ total = 1)

(* Mutant: each wait is given the whole timeout. *)
WaitAgain ==
    /\ Waits /\ wake = None
    /\ wake' = now + MAX_TIMEOUT_MS * Grain
    /\ UNCHANGED <<now, deadline, pc, total, asked, body, result, status, wire, daemon>>

(* One turn of wait_for_fd: poll, or the deadline is over. *)
Wait ==
    /\ Waits /\ wake = None
    /\ \/ TimedOut /\ daemon_unavailable("ETIMEDOUT")
       \/ /\ ~TimedOut
          /\ wake' = now + remaining_timeout_ms * Grain
          /\ UNCHANGED <<now, deadline, pc, total, asked, body, result, status, wire, daemon>>

PollTimeout == wake # None /\ now = wake /\ daemon_unavailable("ETIMEDOUT")

(* A signal, or a socket that is not ready after all. *)
Interrupted ==
    /\ wake # None
    /\ wake' = None
    /\ UNCHANGED <<now, deadline, pc, total, asked, body, result, status, wire, daemon>>

(* The end of connect_until and a part of send_all_until; or the peer is gone. *)
Writable ==
    /\ wake # None /\ pc \in {"connect", "send"}
    /\ \/ daemon_unavailable("other")
       \/ /\ wake' = None
          /\ \/ pc = "connect" /\ pc' = "request" /\ total' = 0
             \/ pc = "send" /\ total + 1 < Parts /\ total' = total + 1 /\ UNCHANGED pc
             \/ pc = "send" /\ total + 1 = Parts /\ total' = 0 /\ pc' = "header"
          /\ UNCHANGED <<now, deadline, asked, body, result, status, wire, daemon>>

(* The request, with what is left of the time; or the name is too long. *)
Request ==
    /\ pc = "request"
    /\ \/ fail_with_status("use-password")
       \/ TimedOut /\ fail_with_status("timeout")
       \/ /\ ~TimedOut
          /\ pc' = "send" /\ asked' = remaining_timeout_ms /\ total' = 0
          /\ UNCHANGED <<now, deadline, wake, body, result, status, wire, daemon>>

(* What the answer comes to; a progress record is followed by another one.  *)
(* Mutant: the version and the reserved byte are not looked at.             *)
JudgeCodeOnly(code) ==
    \/ code = "progress" /\ pc' = "header" /\ UNCHANGED <<result, status>>
    \/ code \in {"success", "version"} /\ pc' = "done" /\ result' = "PAM_SUCCESS" /\ status' = None
    \/ code \notin {"progress", "success", "version"} /\ pc' = "done" /\ result' = "PAM_AUTH_ERR" /\ status' = "use-password"

Judge(code) ==
    \/ code = "progress" /\ pc' = "header" /\ UNCHANGED <<result, status>>
    \/ code = "success" /\ pc' = "done" /\ result' = "PAM_SUCCESS" /\ status' = None
    \/ /\ code \notin {"progress", "success"}
       /\ pc' = "done" /\ result' = "PAM_AUTH_ERR"
       /\ status' = CASE code = "timeout" -> "timeout"
                      [] code = "busy" -> "camera-busy"
                      [] code \in {"internal", "version"} -> "service-unavailable"
                      [] code = "limited" -> "retry-later"
                      [] OTHER -> "use-password"

(* read_all_until takes a part; then the length, then the body is looked at. *)
Read ==
    /\ wake # None /\ pc \in {"header", "body"} /\ wire # <<>>
    /\ wake' = None /\ wire' = Tail(wire) /\ body' = Head(wire)
    /\ total' = (total + 1) % Parts
    /\ \/ total' # 0 /\ UNCHANGED <<pc, result, status>>
       \/ /\ total' = 0 /\ pc = "header"
          /\ \/ body' # "length" /\ pc' = "body" /\ UNCHANGED <<result, status>>
             \/ body' = "length" /\ pc' = "done" /\ result' = "PAM_AUTH_ERR" /\ status' = "service-unavailable"
       \/ total' = 0 /\ pc = "body" /\ Judge(body')
    /\ UNCHANGED <<now, deadline, asked, daemon>>

(* The daemon has closed, and everything it wrote is read. *)
ReadEnd ==
    /\ wake # None /\ pc \in {"header", "body"} /\ wire = <<>> /\ closed
    /\ daemon_unavailable("ECONNRESET")

-----------------------------------------------------------------------------
(* The daemon's end of the socket: any records, a part at a time.  It has a *)
(* request before it answers.                                               *)
Drip ==
    /\ pc \in {"header", "body"} /\ ~closed
    /\ \/ /\ reply = None /\ messages < MaxMessages
          /\ \E code \in Codes \cup Malformed :
                reply' = [code |-> code, parts |-> 1] /\ wire' = Append(wire, code)
          /\ messages' = messages + 1 /\ UNCHANGED granted
       \/ /\ reply # None
          /\ wire' = Append(wire, reply.code)
          /\ reply' = IF reply.parts + 1 = 2 * Parts THEN None ELSE [reply EXCEPT !.parts = @ + 1]
          /\ granted' = (granted \/ (reply' = None /\ reply.code = "success"))
          /\ UNCHANGED messages
    /\ UNCHANGED <<now, closed, client>>

Close ==
    /\ pc \in {"send", "header", "body"} /\ ~closed
    /\ closed' = TRUE
    /\ UNCHANGED <<now, client, wire, reply, granted, messages>>

(* Time passes while the client waits for something that is not there. *)
Tick ==
    /\ wake # None /\ now < wake
    /\ pc \in {"header", "body"} => wire = <<>> /\ ~closed
    /\ now' = now + 1
    /\ UNCHANGED <<client, wire, daemon>>

Next ==
    \/ Begin \/ Connect \/ Wait \/ PollTimeout \/ Interrupted \/ Writable \/ Request \/ Read \/ ReadEnd
    \/ Drip \/ Close \/ Tick

Spec == Init /\ [][Next]_vars

-----------------------------------------------------------------------------
(* The type of the state. *)
TypeOK ==
    /\ now \in Nat /\ deadline \in Nat \cup {None} /\ wake \in Nat \cup {None}
    /\ pc \in {"begin", "connect", "request", "send", "header", "body", "done"}
    /\ total \in 0..Parts /\ asked \in Nat \cup {None}
    /\ result \in {"PAM_SUCCESS", "PAM_AUTH_ERR", None}
    /\ wire \in Seq(Codes \cup Malformed) /\ {closed, granted} \subseteq BOOLEAN /\ messages \in 0..MaxMessages

(* However slowly the daemon drips its answer and however often a signal    *)
(* interrupts the wait, the client never waits a whole millisecond beyond   *)
(* its one deadline: rounding up never adds up.                             *)
OneDeadline == deadline # None => now < deadline + Grain

(* The timeout in the request is one the daemon accepts: never zero, even   *)
(* when the request is made in the last fraction of a millisecond, and      *)
(* never more than the client itself waits, rounded up.                     *)
AskedIsValid == asked # None => asked \in 1..MAX_TIMEOUT_MS

(* Success is returned only for a whole, well-formed success record of the  *)
(* daemon, whatever was dripped before it and wherever the daemon closed.   *)
SuccessIsGranted == result = "PAM_SUCCESS" => granted
=============================================================================
