----------------------------- MODULE CameraPreview ------------------------------
(***************************************************************************)
(* The camera preview: CameraPreviewSession in the settings module and     *)
(* PreviewWorker with its CameraProvider in a process of its own, the      *)
(* commands and records in flight between them, the shared memory frames   *)
(* pass through, and cameras that come and go.                             *)
(*                                                                         *)
(* Time is not modelled: a timer that runs may fire at any moment.  The    *)
(* records are valid ones; what matters is when they arrive.  The state is *)
(* one record s, its part w the worker.  A handler is an operator from the *)
(* state to the next one.                                                  *)
(***************************************************************************)
EXTENDS Naturals, Sequences, FiniteSets, TLC

CONSTANTS
    Cameras,     \* places where a camera may be plugged in
    PipeSize,    \* records the pipe from the worker holds
    MaxInputs,   \* bound of the model: inputs of the user, and plugging
    MaxFrames,   \* bound of the model: frames of the camera
    None

VARIABLES
    s,
    plugged,     \* the cameras that are there: a place and the number of the plugging
    chosen,      \* the camera last selected
    asked,       \* the one that was selected when the preview was last started
    inputs, frames

vars == <<s, plugged, chosen, asked, inputs, frames>>

NewWorker ==
    [alive |-> TRUE, session |-> FALSE, progress |-> FALSE, discovery |-> FALSE,
     camera |-> None, active |-> FALSE, attached |-> FALSE, budget |-> FALSE, limit |-> FALSE,
     sequence |-> 0, control |-> <<>>, pending |-> None, current |-> None, flush |-> FALSE,
     known |-> {}, changed |-> FALSE]

Init ==
    /\ s = [state |-> "idle", error |-> "", devices |-> <<>>, selected |-> 0, initial |-> TRUE,
            timers |-> {}, attached |-> FALSE, budget |-> FALSE, frame |-> FALSE, last |-> 0,
            pendingDevices |-> None, shown |-> 0, proc |-> "none", expected |-> FALSE,
            w |-> [NewWorker EXCEPT !.alive = FALSE], commands |-> <<>>, records |-> <<>>, tokens |-> 1]
    /\ plugged = {[place |-> c, number |-> 0] : c \in Cameras}
    /\ chosen = None /\ asked = None
    /\ inputs = 0 /\ frames = 0

-----------------------------------------------------------------------------
(* CameraPreviewSession. *)
setState(t, state) == [t EXCEPT !.state = state, !.error = IF state = "failed" THEN @ ELSE ""]

(* Mutant: the frame stays. *)
failShowing(t, code) == [t EXCEPT !.timers = {}, !.state = "failed", !.error = code]

fail(t, code) == [t EXCEPT !.timers = {}, !.frame = FALSE, !.state = "failed", !.error = code]

terminateWorker(t) ==
    IF t.proc = "none" THEN [t EXCEPT !.attached = FALSE]
    ELSE [t EXCEPT !.attached = FALSE, !.expected = TRUE, !.proc = "killed"]

sendCommand(t, command) ==
    IF t.proc = "running" THEN [t EXCEPT !.commands = Append(@, command)] ELSE t

(* startWorker, with resetWorker. *)
startWorker(t) ==
    setState([t EXCEPT !.attached = FALSE, !.selected = 0, !.pendingDevices = None, !.expected = FALSE,
                       !.last = 0, !.shown = 0, !.proc = "starting", !.w = NewWorker, !.commands = <<>>,
                       !.records = <<>>, !.timers = @ \cup {"startup"}],
             "discovering")

refreshDevices(t) ==
    LET clear == [t EXCEPT !.frame = FALSE, !.error = ""]
    IN  IF t.state \in {"starting", "streaming", "stopping"} THEN sendCommand(t, [type |-> "discover"])
        ELSE IF t.proc = "none" \/ t.expected THEN startWorker(clear)
        ELSE sendCommand([setState(clear, "discovering") EXCEPT !.timers = @ \cup {"startup"}],
                         [type |-> "discover"])

(* The shared memory may not be had; the frames then come as JPEG. *)
startPreview(t, attached) ==
    sendCommand(setState([t EXCEPT !.frame = FALSE, !.budget = FALSE, !.attached = attached,
                                   !.timers = @ \cup {"startup"}],
                         "starting"),
                [type |-> "start", token |-> t.devices[t.selected].token])

beginEnrollmentBudget(t) == sendCommand([t EXCEPT !.budget = TRUE], [type |-> "enrollment"])

stopPreview(t) ==
    LET detached == [t EXCEPT !.attached = FALSE]
    IN  IF t.state \notin {"starting", "streaming"} THEN [detached EXCEPT !.frame = FALSE]
        ELSE sendCommand([setState(detached, "stopping") EXCEPT !.timers = {"stop"}], [type |-> "stop"])

(* handleDevices: the selection follows its token, and is lost with it. *)
handleDevices(t, r) ==
    LET token == IF t.selected \in DOMAIN t.devices THEN t.devices[t.selected].token ELSE None
        same == {i \in DOMAIN r.devices : r.devices[i].token = token}
        selected == IF t.initial /\ Len(r.devices) = 1 THEN 1
                    ELSE IF same = {} THEN 0 ELSE CHOOSE i \in same : TRUE
        u == [t EXCEPT !.timers = @ \ {"startup"}, !.devices = r.devices, !.initial = FALSE,
                       !.selected = selected, !.shown = r.sequence]
    IN  IF t.state \in {"starting", "streaming", "stopping"} THEN [t EXCEPT !.pendingDevices = r]
        ELSE IF r.devices = <<>> THEN fail(u, "no-camera") ELSE setState(u, "ready")

(* handleFrame accepts a frame in these states; frames that were queued     *)
(* before a stop come after it.                                             *)
AcceptsFrame(t, r) == t.state \in {"streaming", "stopping"} /\ (r.shm => t.attached)

(* handleRecord returns true. *)
Accepts(t, r) ==
    /\ r.sequence > t.last
    /\ CASE r.type = "devices" -> TRUE
         [] r.type = "started" -> t.state = "starting"
         [] r.type = "budget" -> t.state \in {"streaming", "stopping"} /\ t.budget
         [] r.type = "frame" -> AcceptsFrame(t, r)
         [] r.type = "stopped" -> t.state \in {"stopping", "streaming"}
         [] r.type = "error" -> TRUE

(* What it does with a record it accepts. *)
handleRecord(t, r) ==
    LET u == [t EXCEPT !.last = r.sequence]
        ready == setState([u EXCEPT !.timers = {}, !.frame = FALSE, !.pendingDevices = None], "ready")
    IN  CASE r.type = "devices" -> handleDevices(u, r)
          [] r.type = "started" -> setState([u EXCEPT !.timers = (@ \ {"startup"}) \cup {"stall", "countdown"}],
                                            "streaming")
          [] r.type = "budget" -> u
          [] r.type = "frame" -> IF t.state = "streaming" THEN [u EXCEPT !.frame = TRUE] ELSE u
          [] r.type = "stopped" -> IF t.pendingDevices = None THEN ready ELSE handleDevices(ready, t.pendingDevices)
          [] r.type = "error" -> fail(u, r.code)

-----------------------------------------------------------------------------
(* PreviewWorker.  A record has its number when it is made; the output is   *)
(* flushed at the end of the handler.                                       *)
queueControl(t, r) ==
    [t EXCEPT !.w.sequence = @ + 1, !.w.flush = TRUE,
              !.w.control = Append(@, [sequence |-> t.w.sequence + 1] @@ r)]

queueFrame(t, r) ==
    [t EXCEPT !.w.sequence = @ + 1, !.w.flush = TRUE,
              !.w.pending = [sequence |-> t.w.sequence + 1] @@ r]

sendError(t, code) == queueControl(t, [type |-> "error", code |-> code])

Orders(S) == {q \in [1..Cardinality(S) -> S] : \A i, j \in DOMAIN q : q[i] = q[j] => i = j}

(* CameraProvider::tokensForDevices: a place keeps its token while known.   *)
Discovered(t) ==
    {LET old == {k \in t.w.known : k.camera.place = c.place}
     IN  [camera |-> c, token |-> IF old = {} THEN <<c.place, t.tokens>> ELSE (CHOOSE k \in old : TRUE).token]
     : c \in plugged}

(* discover, with CameraProvider::discover, which stops the camera and lists *)
(* the cameras in any order.                                                 *)
discover(t) ==
    IF ~t.w.session \/ t.w.progress THEN {[t EXCEPT !.w.discovery = TRUE]}
    ELSE {queueControl([t EXCEPT !.w.discovery = FALSE, !.w.camera = None, !.w.active = FALSE,
                                 !.w.known = Discovered(t), !.tokens = @ + 1],
                       [type |-> "devices", devices |-> q]) : q \in Orders(Discovered(t))}

DiscoverPending(t) == IF t.w.discovery THEN discover(t) ELSE {t}

(* What stopPreview, the failed handler and a refused start release. *)
Released(t) ==
    [t EXCEPT !.w.limit = FALSE, !.w.camera = None, !.w.active = FALSE, !.w.progress = FALSE,
              !.w.pending = None, !.w.attached = FALSE]

workerStop(t) == DiscoverPending(queueControl(Released(t), [type |-> "stopped"]))

providerFailed(t, code) == DiscoverPending(sendError(Released(t), code))

(* Mutant: the budget of the preview before is kept. *)
workerStartSpent(t, token) ==
    LET u == [t EXCEPT !.w.pending = None, !.w.attached = t.attached, !.w.progress = TRUE]
        found == {k.camera : k \in {k \in t.w.known : k.token = token}}
    IN  IF t.w.progress THEN {sendError(t, "camera-busy")}
        ELSE IF found = {} THEN providerFailed(u, "no-camera")
        ELSE {[u EXCEPT !.w.camera = c] : c \in found \cap plugged}

(* CameraProvider::start: the token must be known, the camera still there   *)
(* and free.                                                                *)
workerStart(t, token) ==
    LET u == [t EXCEPT !.w.budget = FALSE, !.w.pending = None, !.w.attached = t.attached, !.w.progress = TRUE]
        found == {k.camera : k \in {k \in t.w.known : k.token = token}}
    IN  IF t.w.progress THEN {sendError(t, "camera-busy")}
        ELSE IF found = {} THEN providerFailed(u, "no-camera")
        ELSE providerFailed(u, "camera-unavailable")
             \cup {[u EXCEPT !.w.camera = c] : c \in found \cap plugged}

(* handleCommand.  An enrollment may come when the deadline is over. *)
handleCommand(t, command) ==
    LET u == [t EXCEPT !.w.session = TRUE]
        refused == {sendError(u, "protocol-error")}
    IN  CASE command.type = "discover" -> discover(u)
          [] command.type = "start" -> workerStart(u, command.token)
          [] command.type = "stop" -> workerStop(u)
          [] command.type = "enrollment" ->
                IF t.w.active /\ ~t.w.budget
                THEN refused \cup {queueControl([u EXCEPT !.w.budget = TRUE, !.w.limit = TRUE], [type |-> "budget"])}
                ELSE refused

(* Mutant: the worker does not limit the preview. *)
providerStartedUnlimited(t) == queueControl([t EXCEPT !.w.active = TRUE], [type |-> "started"])

providerStarted(t) == queueControl([t EXCEPT !.w.active = TRUE, !.w.limit = TRUE], [type |-> "started"])

(* Mutant: a camera that is gone is forgotten with the next discovery only. *)
videoInputsChangedLater(t) == discover([t EXCEPT !.w.changed = FALSE])

(* The handler of videoInputsChanged: a camera that is gone is forgotten. *)
videoInputsChanged(t) ==
    discover([t EXCEPT !.w.changed = FALSE,
                       !.w.known = {k \in @ : \E c \in plugged : c.place = k.camera.place}])

(* One turn of the loop of flushOutput. *)
flushOutput(t) ==
    IF t.w.current # None
    THEN IF Len(t.records) < PipeSize
         THEN [t EXCEPT !.records = Append(@, t.w.current), !.w.current = None]
         ELSE [t EXCEPT !.w.flush = FALSE]
    ELSE IF t.w.control # <<>>
    THEN [t EXCEPT !.w.current = Head(t.w.control), !.w.control = Tail(@)]
    ELSE IF t.w.pending # None
    THEN [t EXCEPT !.w.current = t.w.pending, !.w.pending = None]
    ELSE [t EXCEPT !.w.flush = FALSE]

-----------------------------------------------------------------------------
(* What the user does on the page, and the enrollment with the preview. *)
Input == inputs < MaxInputs /\ inputs' = inputs + 1

Refresh ==
    /\ Input
    /\ s' = refreshDevices(s)
    /\ UNCHANGED <<plugged, chosen, asked, frames>>

Select ==
    /\ Input
    /\ s.state \in {"ready", "failed"}
    /\ \E i \in DOMAIN s.devices :
        /\ s' = [s EXCEPT !.selected = i]
        /\ chosen' = s.devices[i].camera
    /\ UNCHANGED <<plugged, asked, frames>>

Start ==
    /\ Input
    /\ s.state = "ready" /\ s.selected \in DOMAIN s.devices
    /\ \E attached \in BOOLEAN : s' = startPreview(s, attached)
    /\ asked' = chosen
    /\ UNCHANGED <<plugged, chosen, frames>>

Enroll ==
    /\ Input
    /\ s.state = "streaming" /\ ~s.budget
    /\ s' = beginEnrollmentBudget(s)
    /\ UNCHANGED <<plugged, chosen, asked, frames>>

(* Also: the page is left, or the application is not active any more. *)
Stop ==
    /\ Input
    /\ s' = stopPreview(s)
    /\ UNCHANGED <<plugged, chosen, asked, frames>>

(* The events of the session. *)
SessionEvent == UNCHANGED <<plugged, asked, inputs, frames>>

ProcessStarted ==
    /\ s.proc = "starting" /\ s.w.alive
    /\ s' = sendCommand([s EXCEPT !.proc = "running", !.timers = @ \cup {"startup"}], [type |-> "discover"])
    /\ UNCHANGED chosen /\ SessionEvent

(* errorOccurred and finished; what the worker had written is read before. *)
ProcessFinished ==
    /\ s.proc # "none"
    /\ ~s.w.alive \/ s.proc = "killed"
    /\ s.expected \/ s.records = <<>>
    /\ s' = LET t == [s EXCEPT !.proc = "none", !.w.alive = FALSE, !.w.camera = None, !.w.active = FALSE,
                               !.commands = <<>>, !.records = <<>>]
            IN  IF s.expected THEN t ELSE fail(t, "worker-crashed")
    /\ UNCHANGED chosen /\ SessionEvent

(* processRecords: a record that is not accepted ends the worker. *)
processRecords ==
    /\ s.proc = "running" /\ ~s.expected /\ s.records # <<>>
    /\ LET r == Head(s.records)
           t == [s EXCEPT !.records = Tail(@)]
       IN  /\ s' = IF Accepts(t, r) THEN handleRecord(t, r) ELSE terminateWorker(fail(t, "protocol-error"))
           /\ chosen' = IF s.initial /\ s'.selected # 0 THEN s'.devices[s'.selected].camera ELSE chosen
    /\ SessionEvent

Timeout(timer, code) ==
    /\ timer \in s.timers
    /\ s' = terminateWorker(fail(s, code))
    /\ UNCHANGED chosen /\ SessionEvent

StartupTimeout == Timeout("startup", IF s.state = "starting" THEN "startup-timeout" ELSE "worker-crashed")
StallTimeout == Timeout("stall", "stream-stalled")
StopTimeout == Timeout("stop", "worker-crashed")

(* The countdown is at zero. *)
Countdown ==
    /\ "countdown" \in s.timers
    /\ s' = stopPreview(s)
    /\ UNCHANGED chosen /\ SessionEvent

(* The events of the worker; each handler flushes the output as far as the  *)
(* pipe takes it before the next event.                                     *)
Working == s.w.alive /\ s.proc = "running" /\ UNCHANGED <<plugged, chosen, asked, inputs>>
WorkerEvent == Working /\ ~s.w.flush

Flush == Working /\ s.w.flush /\ s' = flushOutput(s) /\ UNCHANGED frames

(* The write notifier. *)
Writable ==
    /\ WorkerEvent /\ s.w.current # None /\ Len(s.records) < PipeSize
    /\ s' = [s EXCEPT !.w.flush = TRUE]
    /\ UNCHANGED frames

ReadCommand ==
    /\ WorkerEvent /\ s.commands # <<>>
    /\ s' \in handleCommand([s EXCEPT !.commands = Tail(@)], Head(s.commands))
    /\ UNCHANGED frames

CameraActive ==
    /\ WorkerEvent /\ s.w.camera # None /\ ~s.w.active
    /\ s' = providerStarted(s)
    /\ UNCHANGED frames

CameraFrame ==
    /\ WorkerEvent /\ s.w.active /\ frames < MaxFrames
    /\ s' = queueFrame(s, [type |-> "frame", shm |-> s.w.attached])
    /\ frames' = frames + 1

CameraFails ==
    /\ WorkerEvent /\ s.w.camera # None
    /\ s' \in providerFailed(s, "camera-unavailable")
    /\ UNCHANGED frames

LimitTimeout ==
    /\ WorkerEvent /\ s.w.limit
    /\ s' \in workerStop(s)
    /\ UNCHANGED frames

InputsChanged ==
    /\ WorkerEvent /\ s.w.changed
    /\ s' \in videoInputsChanged(s)
    /\ UNCHANGED frames

Crash ==
    /\ Input
    /\ s.w.alive /\ s.proc \in {"starting", "running"}
    /\ s' = [s EXCEPT !.w.alive = FALSE, !.w.camera = None, !.w.active = FALSE]
    /\ UNCHANGED <<plugged, chosen, asked, frames>>

(* A camera is plugged in or pulled out.  The worker hears of each change   *)
(* before the next one.                                                     *)
Plug ==
    /\ Input /\ ~s.w.changed
    /\ \E c \in Cameras :
        LET here == {d \in plugged : d.place = c}
        IN  plugged' = IF here # {} THEN plugged \ here
                       ELSE plugged \cup {[place |-> c, number |-> inputs + 1]}
    /\ s' = [s EXCEPT !.w.changed = s.w.alive]
    /\ UNCHANGED <<chosen, asked, frames>>

SessionSteps == ProcessStarted \/ ProcessFinished \/ processRecords \/ StopTimeout \/ Countdown
WorkerSteps == Flush \/ Writable \/ ReadCommand \/ LimitTimeout

Next ==
    \/ Refresh \/ Select \/ Start \/ Enroll \/ Stop \/ Crash \/ Plug
    \/ SessionSteps \/ StartupTimeout \/ StallTimeout
    \/ WorkerSteps \/ CameraActive \/ CameraFrame \/ CameraFails \/ InputsChanged

Spec == Init /\ [][Next]_vars

(* The event loops run and a timer that stays set fires.  Nothing is asked  *)
(* of the camera or of the user.                                            *)
FairSpec ==
    /\ Spec
    /\ WF_vars(ProcessStarted) /\ WF_vars(ProcessFinished) /\ WF_vars(processRecords)
    /\ WF_vars(StartupTimeout) /\ WF_vars(StopTimeout) /\ WF_vars(Countdown)
    /\ WF_vars(Flush) /\ WF_vars(Writable) /\ WF_vars(ReadCommand) /\ WF_vars(LimitTimeout)
    /\ WF_vars(InputsChanged)

-----------------------------------------------------------------------------
Tokens == Cameras \X Nat
Pluggings == [place : Cameras, number : 0..MaxInputs]
States == {"idle", "discovering", "ready", "starting", "streaming", "stopping", "failed"}

(* The type of the state. *)
TypeOK ==
    /\ s.state \in States
    /\ s.timers \subseteq {"startup", "stall", "stop", "countdown"}
    /\ s.selected \in 0..Len(s.devices)
    /\ s.proc \in {"none", "starting", "running", "killed"}
    /\ {s.attached, s.budget, s.frame, s.expected, s.initial} \subseteq BOOLEAN
    /\ s.last \in Nat /\ Len(s.records) <= PipeSize
    /\ \A i \in DOMAIN s.devices : s.devices[i].camera \in Pluggings /\ s.devices[i].token \in Tokens
    /\ \A k \in s.w.known : k.camera \in Pluggings /\ k.token \in Tokens
    /\ plugged \subseteq Pluggings
    /\ {chosen, asked} \subseteq Pluggings \cup {None}

(* The camera that runs is the very one that was selected when the preview  *)
(* was started: rows move, a camera is pulled out and another one takes its *)
(* place, updates wait for a release, and a token still names one camera    *)
(* (handleDevices, tokensForDevices, the handler of videoInputsChanged).    *)
StartedIsSelected == s.w.camera # None => s.w.camera = asked

Quiet ==
    /\ s.proc = "running" /\ ~s.expected /\ s.w.alive
    /\ s.commands = <<>> /\ s.records = <<>>
    /\ s.w.control = <<>> /\ s.w.current = None /\ s.w.pending = None

(* When nothing is under way between them, session and worker agree on the  *)
(* preview and on the enrollment budget; a stop is never left unanswered.   *)
Agreement ==
    Quiet => /\ s.state = "streaming" => s.w.active /\ s.w.budget = s.budget
             /\ s.state = "starting" => s.w.progress
             /\ s.state = "ready" => ~s.w.active
             /\ s.state # "stopping"

(* A frame is held only while the preview is live or being stopped; every   *)
(* failure, stop, refresh and start clears it (clearFrame).                 *)
FrameCleared == s.frame => s.state \in {"streaming", "stopping"}

Showing == s.state \in {"starting", "streaming"}

(* Once the session neither starts nor shows a preview, a camera that is on *)
(* is released, or the user starts again: by the stop, by the stop timer    *)
(* that ends the worker, or by the worker's own limit where the session     *)
(* failed and the worker did not.                                           *)
CameraReleased == ~Showing ~> (~s.w.active \/ Showing)

-----------------------------------------------------------------------------
(* Statements of the repository that the code does not keep.               *)

(* Records reach the session with sequence numbers that increase strictly.  *)
SequenceIncreases ==
    \A i \in DOMAIN s.records : /\ s.records[i].sequence > s.last
                                /\ \A j \in 1..(i - 1) : s.records[j].sequence < s.records[i].sequence

(* A frame that was queued before the stop and arrives after it is accepted.*)
FramesAfterStop ==
    (s.state = "stopping" /\ s.proc = "running" /\ s.records # <<>> /\ Head(s.records).type = "frame"
        /\ Head(s.records).sequence > s.last)
    => Accepts(s, Head(s.records))

(* The worker's data is valid, so the user is never told it was not. *)
DataValid == s.error # "protocol-error"

(* The cameras shown come from ever newer lists of the worker: an update    *)
(* that waits is applied at the release it waits for.                       *)
DevicesNeverGoBack == [][s'.proc = "running" => s'.shown >= s.shown]_vars
====
