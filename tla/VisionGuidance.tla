---------------------------- MODULE VisionGuidance ----------------------------
(***************************************************************************)
(* Live framing guidance: VisionAnalysisSession of the settings module and *)
(* the kfaceauth-vision-worker process it starts, for one frame or for a   *)
(* session of frames.                                                      *)
(*                                                                         *)
(* `session' holds the members of the C++ object, whose handlers run to    *)
(* completion one after the other; `worker' is the process.  They share    *)
(* two pipes and the process signals.  A request is its generation.        *)
(***************************************************************************)
EXTENDS Naturals, Sequences

CONSTANTS
    None,
    MaxGen,      \* bound of the model: generations
    MaxFaults    \* bound of the model: unusable frames, failed starts, crashes

ASSUME GuidanceAssumption == MaxGen \in Nat /\ MaxFaults \in Nat

VARIABLES
    streaming,   \* the preview delivers frames
    session, worker, faults

vars == <<streaming, session, worker, faults>>

Timers == {"startup", "inference", "shutdown"}
Generations == 0..MaxGen
Replies == [gen : Generations, kind : {"analysis", "recoverable", "fatal"}]

TypeOK ==
    /\ streaming \in BOOLEAN /\ faults \in 0..MaxFaults
    /\ session \in [state : {"Idle", "Starting", "Analyzing", "Complete", "Failed"},
          tracking : BOOLEAN, ticking : BOOLEAN, mode : BOOLEAN, started : BOOLEAN,
          inFlight : BOOLEAN, ignoring : BOOLEAN, replace : BOOLEAN, received : BOOLEAN,
          pending : Generations \cup {None}, shown : Generations \cup {None},
          gen : Generations, errors : 0..4, timers : SUBSET Timers, process : BOOLEAN,
          killed : BOOLEAN, request : Generations \cup {None},
          sent : Generations \cup {None}, posted : SUBSET {"analyze", "again"}]
    /\ worker.stage \in {"none", "starting", "read", "eof", "factory", "process", "write",
                         "exited", "dead"}
    /\ worker.requests \in Seq(Generations) /\ worker.out \in Seq(Replies)

NoWorker ==
    [stage |-> "none", session |-> FALSE, signal |-> FALSE, requests |-> << >>,
     closed |-> FALSE, provider |-> FALSE, reply |-> [gen |-> 0, kind |-> "fatal"],
     out |-> << >>]

Init ==
    /\ streaming = TRUE /\ faults = 0 /\ worker = NoWorker
    /\ session = [state |-> "Idle", tracking |-> FALSE, ticking |-> FALSE, mode |-> FALSE,
          started |-> FALSE, inFlight |-> FALSE, ignoring |-> FALSE, replace |-> FALSE,
          received |-> FALSE, pending |-> None, shown |-> None, gen |-> 0, errors |-> 0,
          timers |-> {}, process |-> FALSE, killed |-> FALSE, request |-> None,
          sent |-> None, posted |-> {}]

-----------------------------------------------------------------------------
(* The members after a call of each method. *)
busy(s) == s.state \in {"Starting", "Analyzing"}

resultAvailable(s) == s.state = "Complete" /\ s.shown # None

clearSensitiveData(s) == [s EXCEPT !.pending = None, !.received = FALSE]

Stopped(s) ==
    [clearSensitiveData(s) EXCEPT
        !.timers = {}, !.ticking = FALSE, !.inFlight = FALSE, !.started = FALSE,
        !.mode = FALSE, !.ignoring = TRUE, !.killed = @ \/ s.process, !.shown = None]

stopAnalysis(s, replacementRequested) ==
    [Stopped(s) EXCEPT !.gen = @ + 1, !.replace = replacementRequested, !.state = "Idle"]

(* Mutant: the timer of an analysis goes on after it failed. *)
failLoosely(s) == [Stopped(s) EXCEPT !.tracking = FALSE, !.replace = FALSE,
                                     !.state = "Analyzing"]

fail(s) == [Stopped(s) EXCEPT !.tracking = FALSE, !.replace = FALSE, !.state = "Failed"]

writeRequest(s, g) ==
    IF ~s.process \/ ~s.started THEN fail(s)
    ELSE [clearSensitiveData(s) EXCEPT !.state = "Analyzing", !.sent = g,
                                       !.timers = @ \cup {"inference"}]

startWorker(s) ==
    IF s.process
    THEN IF s.mode /\ s.started THEN writeRequest(s, s.gen) ELSE fail(s)
    ELSE [s EXCEPT !.mode = s.tracking, !.errors = IF s.tracking THEN 0 ELSE @,
                   !.ignoring = FALSE, !.received = FALSE, !.started = FALSE,
                   !.process = TRUE, !.killed = FALSE, !.request = s.gen, !.sent = None,
                   !.state = "Starting", !.timers = @ \cup {"startup"}]

(* Mutant: a request in flight does not hold back the next one. *)
analyzeAlways(s, usable) ==
    IF ~streaming \/ s.state = "Starting" THEN s
    ELSE IF s.process /\ (~s.mode \/ ~s.started) THEN stopAnalysis(s, TRUE)
    ELSE IF ~usable THEN fail(s)
    ELSE startWorker([clearSensitiveData(s) EXCEPT
            !.gen = @ + 1, !.shown = IF s.mode THEN @ ELSE None, !.inFlight = TRUE])

analyzeCurrentFrame(s, usable) ==
    IF ~streaming THEN s
    ELSE IF s.inFlight THEN IF s.mode THEN s ELSE stopAnalysis(s, TRUE)
    ELSE IF busy(s) THEN s
    ELSE IF s.process /\ (~s.mode \/ ~s.started) THEN stopAnalysis(s, TRUE)
    ELSE IF ~usable THEN fail(s)
    ELSE startWorker([clearSensitiveData(s) EXCEPT
            !.gen = @ + 1, !.shown = IF s.mode THEN @ ELSE None, !.inFlight = TRUE])

setContinuousTracking(s, enabled, usable) ==
    LET t == [s EXCEPT !.tracking = enabled,
                       !.ticking = IF s.tracking = enabled THEN @ ELSE enabled]
    IN  IF enabled /\ ~s.tracking /\ streaming /\ ~s.inFlight THEN analyzeCurrentFrame(t, usable)
        ELSE IF ~enabled /\ (s.state # "Idle" \/ s.process) THEN stopAnalysis(t, FALSE)
        ELSE t

(* Mutant: the last result stays when a frame cannot be analysed. *)
readResponseKeeping(s, r) ==
    IF s.received \/ r.gen # s.gen THEN fail(s)
    ELSE IF r.kind = "analysis" /\ s.mode
    THEN [clearSensitiveData(s) EXCEPT !.timers = @ \ {"inference"}, !.inFlight = FALSE,
              !.errors = 0, !.state = "Complete", !.shown = r.gen]
    ELSE IF r.kind = "recoverable" /\ s.mode /\ s.tracking /\ s.errors < 3
    THEN [clearSensitiveData(s) EXCEPT !.timers = @ \ {"inference"}, !.inFlight = FALSE,
              !.received = TRUE, !.errors = @ + 1, !.state = "Complete"]
    ELSE fail(s)

(* An answer of another generation fails the session, also one that comes  *)
(* after a cancellation.                                                   *)
readResponse(s, r) ==
    IF s.received \/ r.gen # s.gen THEN fail(s)
    ELSE IF r.kind = "analysis"
    THEN IF s.mode
         THEN [clearSensitiveData(s) EXCEPT !.timers = @ \ {"inference"}, !.inFlight = FALSE,
                   !.errors = 0, !.state = "Complete", !.shown = r.gen]
         ELSE [s EXCEPT !.timers = (@ \ {"inference"}) \cup {"shutdown"}, !.inFlight = FALSE,
                   !.received = TRUE, !.pending = r.gen]
    ELSE IF r.kind = "recoverable" /\ s.mode /\ s.tracking
    THEN IF s.errors < 3
         THEN [clearSensitiveData(s) EXCEPT !.timers = @ \ {"inference"}, !.inFlight = FALSE,
                   !.received = TRUE, !.shown = None, !.errors = @ + 1, !.state = "Complete"]
         ELSE fail([s EXCEPT !.errors = @ + 1])
    ELSE fail(s)

processFinished(s, clean) ==
    LET t == [s EXCEPT !.process = FALSE, !.started = FALSE, !.timers = {}]
    IN  IF t.ignoring
        THEN [t EXCEPT !.ignoring = FALSE, !.replace = FALSE,
                       !.posted = IF t.replace THEN @ \cup {"analyze"} ELSE @]
        ELSE IF ~t.received \/ t.pending = None \/ ~clean THEN fail(t)
        ELSE [clearSensitiveData(t) EXCEPT
                 !.inFlight = FALSE, !.state = "Complete", !.shown = t.pending,
                 !.posted = IF t.tracking /\ streaming THEN @ \cup {"again"} ELSE @]

-----------------------------------------------------------------------------
(* A handler ran: what it did to the process is seen in the members.       *)
Handled(s) ==
    /\ session' = s
    /\ worker' =
          IF s.process /\ ~session.process
          THEN [NoWorker EXCEPT !.stage = "starting", !.session = s.mode]
          ELSE IF s.sent # session.sent /\ s.sent # None
          THEN [worker EXCEPT !.requests = Append(@, s.sent), !.closed = ~s.mode]
          ELSE worker

(* Frames are unusable when the conversion fails. *)
Usable(ok) == ok \/ faults < MaxFaults

Counted(ok) == faults' = IF ok THEN faults ELSE faults + 1

AnalyzeClicked ==
    /\ session.gen < MaxGen
    /\ \E ok \in BOOLEAN : Usable(ok) /\ Counted(ok) /\ Handled(analyzeCurrentFrame(session, ok))
    /\ UNCHANGED streaming

SetTracking ==
    /\ session.gen < MaxGen
    /\ \E enabled \in BOOLEAN, ok \in BOOLEAN :
          Usable(ok) /\ Counted(ok) /\ Handled(setContinuousTracking(session, enabled, ok))
    /\ UNCHANGED streaming

(* The preview stops or hides, or the application becomes inactive:        *)
(* cancelForLifecycle.                                                     *)
CameraChanges ==
    /\ session.gen < MaxGen /\ streaming' = ~streaming /\ UNCHANGED faults
    /\ IF streaming THEN Handled(setContinuousTracking(session, FALSE, TRUE))
       ELSE UNCHANGED <<session, worker>>

Tick ==
    /\ session.ticking /\ session.tracking /\ streaming /\ ~session.inFlight
    /\ session.gen < MaxGen /\ ~busy(session)
    /\ Handled(analyzeCurrentFrame(session, TRUE)) /\ UNCHANGED <<streaming, faults>>

TimerFires ==
    /\ session.timers # {}
    /\ Handled(fail(session)) /\ UNCHANGED <<streaming, faults>>

(* QTimer::singleShot callbacks. *)
Posted ==
    /\ session.gen < MaxGen
    /\ \E c \in session.posted :
          LET s == [session EXCEPT !.posted = @ \ {c}]
          IN  IF c = "analyze" THEN Handled(analyzeCurrentFrame(s, TRUE))
              ELSE IF s.tracking /\ streaming /\ s.state = "Complete"
              THEN Handled(analyzeCurrentFrame([s EXCEPT !.state = "Idle"], TRUE))
              ELSE Handled(s)
    /\ UNCHANGED <<streaming, faults>>

(* QProcess::started *)
Started ==
    /\ session.process /\ worker.signal
    /\ LET w == [worker EXCEPT !.signal = FALSE]
           s == writeRequest([session EXCEPT !.timers = @ \ {"startup"}, !.started = TRUE],
                             session.request)
       IN  IF session.ignoring THEN worker' = w /\ UNCHANGED session
           ELSE /\ session' = s
                /\ worker' = [w EXCEPT !.requests = Append(@, s.sent), !.closed = ~s.mode]
    /\ UNCHANGED <<streaming, faults>>

(* QProcess::errorOccurred: after a cancellation it is ignored, and no     *)
(* finished signal follows.                                                *)
FailedToStart ==
    /\ worker.stage = "starting" /\ faults < MaxFaults /\ faults' = faults + 1
    /\ worker' = NoWorker
    /\ session' = IF session.ignoring THEN session ELSE fail([session EXCEPT !.process = FALSE])
    /\ UNCHANGED streaming

ReadyRead ==
    /\ session.process /\ worker.out # << >>
    /\ session' = readResponse(session, Head(worker.out))
    /\ worker' = [worker EXCEPT !.out = Tail(@)]
    /\ UNCHANGED <<streaming, faults>>

Finished ==
    /\ session.process /\ worker.stage \in {"exited", "dead"}
    /\ worker.out = << >> /\ ~worker.signal
    /\ session' = processFinished(session, worker.stage = "exited")
    /\ worker' = NoWorker
    /\ UNCHANGED <<streaming, faults>>

-----------------------------------------------------------------------------
(* The worker process. *)
Worker(stage, next) ==
    worker.stage = stage /\ worker' = next /\ UNCHANGED <<streaming, session, faults>>

WorkerStarts == Worker("starting", [worker EXCEPT !.stage = "read", !.signal = TRUE])

(* read_frame, read_frame_or_eof: one request, then end of file; or the    *)
(* next request of a session, which has its provider since the first.  The *)
(* input of a session is never closed: its worker is killed.               *)
ReadRequest ==
    /\ worker.requests # << >>
    /\ Worker("read", [worker EXCEPT
          !.requests = Tail(@), !.reply.gen = Head(worker.requests),
          !.stage = IF ~worker.session THEN "eof"
                    ELSE IF worker.provider THEN "process" ELSE "factory"])

require_eof ==
    /\ worker.closed /\ worker.requests = << >>
    /\ Worker("eof", [worker EXCEPT !.stage = "factory"])

(* initialize_provider: sandbox, models, filter. *)
initialize_provider ==
    \/ Worker("factory", [worker EXCEPT !.stage = "process", !.provider = TRUE])
    \/ \E kind \in {"recoverable", "fatal"} :
          Worker("factory", [worker EXCEPT !.stage = "write", !.reply.kind = kind])

process_request ==
    \E kind \in {"analysis", "recoverable", "fatal"} :
        Worker("process", [worker EXCEPT !.stage = "write", !.reply.kind = kind])

(* Without a provider the session ends after the first answer. *)
WriteReply ==
    Worker("write", [worker EXCEPT
        !.out = Append(@, worker.reply),
        !.stage = IF worker.session /\ worker.provider THEN "read" ELSE "exited"])

WorkerRuns ==
    \/ WorkerStarts \/ ReadRequest \/ require_eof \/ initialize_provider
    \/ process_request \/ WriteReply

(* Killed by the session, or crashed. *)
Dies ==
    /\ worker.stage \notin {"none", "exited", "dead"}
    /\ \/ session.killed /\ UNCHANGED faults
       \/ faults < MaxFaults /\ faults' = faults + 1 /\ worker.stage # "starting"
    /\ worker' = [worker EXCEPT !.stage = "dead"]
    /\ UNCHANGED <<streaming, session>>

Signals == Started \/ ReadyRead \/ Finished \/ Posted

Next ==
    \/ AnalyzeClicked \/ SetTracking \/ CameraChanges \/ Tick \/ TimerFires
    \/ FailedToStart \/ Signals \/ WorkerRuns \/ Dies

Spec == Init /\ [][Next]_vars

(* The event loop delivers signals and timers; a kill is obeyed.  Nothing  *)
(* is assumed of the user, the camera or the worker's progress.            *)
FairSpec ==
    /\ Spec /\ WF_vars(Signals) /\ WF_vars(Tick) /\ WF_vars(TimerFires)
    /\ WF_vars(session.killed /\ Dies)

-----------------------------------------------------------------------------
(* What is shown as available is the answer to the last request, of a      *)
(* session that was not cancelled or replaced since, however late the      *)
(* answers of earlier workers come.                                        *)
ResultIsCurrent == resultAvailable(session) => session.shown = session.gen

(* "The parent keeps at most one request active": the worker never has two *)
(* requests, and none is sent while an answer is under way.                *)
OneRequestActive ==
    Len(worker.requests) + Len(worker.out)
        + (IF worker.stage \in {"eof", "factory", "process", "write"} THEN 1 ELSE 0) <= 1

(* What VisionAnalysisSession shows as available is the answer to its last *)
(* request (readResponse, processFinished), and the worker never has two   *)
(* requests (analyzeCurrentFrame).                                         *)
ShownIsCurrent == ResultIsCurrent /\ OneRequestActive

(* An analysis ends: with a result, an error or a time-out. *)
AnalysisEnds == busy(session) ~> ~busy(session)

-----------------------------------------------------------------------------
(* Statements of the repository that the code does not keep.               *)

(* "sends the latest available frame": while guidance is on and the camera *)
(* delivers frames, frames go on being analysed.                           *)
GuidanceGoesOn ==
    \A g \in 1..(MaxGen - 1) :
        session.tracking /\ streaming /\ session.gen = g
            ~> session.gen # g \/ ~session.tracking \/ ~streaming

(* "accepts a sequence of framed requests until EOF": a session worker     *)
(* that was not stopped ends only after the end of its input.              *)
SessionUntilEof == worker.stage = "exited" /\ worker.session => worker.closed
====
