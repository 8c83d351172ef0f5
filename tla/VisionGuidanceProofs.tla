------------------------- MODULE VisionGuidanceProofs --------------------------
(***************************************************************************)
(* Theorems about VisionGuidance, for every number of requests and faults. *)
(***************************************************************************)
EXTENDS VisionGuidance, TLAPS

Sessions ==
    [state : {"Idle", "Starting", "Analyzing", "Complete", "Failed"},
     tracking : BOOLEAN, ticking : BOOLEAN, mode : BOOLEAN, started : BOOLEAN,
     inFlight : BOOLEAN, ignoring : BOOLEAN, replace : BOOLEAN, received : BOOLEAN,
     pending : Generations \cup {None}, shown : Generations \cup {None},
     gen : Generations, errors : 0..4, timers : SUBSET Timers, process : BOOLEAN,
     killed : BOOLEAN, request : Generations \cup {None},
     sent : Generations \cup {None}, posted : SUBSET {"analyze", "again"}]

Processes ==
    [stage : {"none", "starting", "read", "eof", "factory", "process", "write",
              "exited", "dead"},
     session : BOOLEAN, signal : BOOLEAN, requests : Seq(Generations), closed : BOOLEAN,
     provider : BOOLEAN, reply : Replies, out : Seq(Replies)]

(* The members of the session and of the process. *)
Typed ==
    /\ streaming \in BOOLEAN /\ faults \in 0..MaxFaults
    /\ session \in Sessions /\ worker \in Processes

(* An answer that waits for the worker's exit is that of the last request, *)
(* and so is one that is shown.                                            *)
CurrentIn(s) ==
    /\ s.pending # None => s.pending = s.gen
    /\ resultAvailable(s) => s.shown = s.gen

(* The process of a session was started for a request and its errors are   *)
(* counted from there; one that is to end gets no further request.         *)
CountedIn(s) ==
    /\ s.mode => s.errors <= 3
    /\ s.process => s.request \in Generations
    /\ s.ignoring => ~s.started

(* The process has nothing to do, neither read nor answered. *)
Resting(w) ==
    /\ w.requests = << >> /\ w.out = << >>
    /\ w.stage \notin {"eof", "factory", "process", "write"}

(* The process has one request: on its way, being processed or answered. *)
OneRequest(w) ==
    \/ Resting(w)
    \/ /\ Len(w.requests) = 1 /\ w.out = << >>
       /\ w.stage \notin {"eof", "factory", "process", "write"}
    \/ w.requests = << >> /\ w.out = << >> /\ w.stage \in {"eof", "factory", "process", "write"}
    \/ /\ w.requests = << >> /\ Len(w.out) = 1
       /\ w.stage \notin {"eof", "factory", "process", "write"}

(* A process that has not been given its request, and one whose answer was *)
(* read, has nothing to do, unless the session is waiting for its end.     *)
IdleIn(s, w) ==
    /\ s.process /\ ~s.ignoring /\ ~s.started => s.inFlight
    /\ s.process /\ ~s.ignoring /\ ~(s.started /\ s.inFlight) => Resting(w)
    /\ w.stage = "starting" \/ w.signal => s.ignoring \/ ~s.started
    /\ w.stage = "starting" => ~w.signal

GuidanceInv ==
    /\ Typed /\ CurrentIn(session) /\ CountedIn(session)
    /\ OneRequest(worker) /\ IdleIn(session, worker)

GoodSession(s) == s \in Sessions /\ CurrentIn(s) /\ CountedIn(s)

(* What a method may do to the process: nothing, or to kill it and give it *)
(* no request any more;                                                    *)
Quiet(s, t) ==
    /\ t.process = s.process /\ t.sent = s.sent
    /\ \/ t.ignoring /\ ~t.started
       \/ t.ignoring = s.ignoring /\ t.started = s.started /\ t.inFlight = s.inFlight

(* start one;                                                              *)
Begins(s, t) ==
    ~s.process /\ t.process /\ ~t.started /\ ~t.ignoring /\ t.inFlight /\ t.sent = None

(* or write the next request, with no other under way.                     *)
Writes(s, t) ==
    /\ s.process /\ t.process /\ s.started /\ t.started /\ ~s.inFlight /\ t.inFlight
    /\ t.ignoring = s.ignoring /\ t.sent \in Generations

Does(s, t) == GoodSession(t) /\ (Quiet(s, t) \/ Begins(s, t) \/ Writes(s, t))

-----------------------------------------------------------------------------
(* The methods.                                                            *)

LEMMA NextGeneration ==
  ASSUME NEW s \in Sessions, s.gen < MaxGen
  PROVE  s.gen + 1 \in Generations
  BY GuidanceAssumption DEF Sessions, Generations

LEMMA ClearKeeps ==
  ASSUME NEW s \in Sessions
  PROVE  LET t == clearSensitiveData(s)
         IN  /\ t \in Sessions /\ t.pending = None /\ t.killed = s.killed
             /\ t.process = s.process /\ t.sent = s.sent /\ t.gen = s.gen
             /\ t.errors = s.errors /\ t.request = s.request /\ t.mode = s.mode
             /\ t.started = s.started /\ t.inFlight = s.inFlight /\ t.ignoring = s.ignoring
             /\ t.shown = s.shown /\ t.state = s.state /\ t.timers = s.timers
             /\ t.tracking = s.tracking
  BY DEF Sessions, clearSensitiveData

(* The assignments of Stopped, fail and stopAnalysis, to any session. *)
StoppedOf(u, k) ==
    [u EXCEPT !.timers = {}, !.ticking = FALSE, !.inFlight = FALSE, !.started = FALSE,
              !.mode = FALSE, !.ignoring = TRUE, !.killed = k, !.shown = None]

FailedOf(u) == [u EXCEPT !.tracking = FALSE, !.replace = FALSE, !.state = "Failed"]

IdleOf(u, g, b) == [u EXCEPT !.gen = g, !.replace = b, !.state = "Idle"]

LEMMA StoppedFields ==
  ASSUME NEW u \in Sessions, NEW k \in BOOLEAN
  PROVE  LET t == StoppedOf(u, k)
         IN  /\ t \in Sessions
             /\ t.process = u.process /\ t.sent = u.sent /\ t.gen = u.gen
             /\ t.errors = u.errors /\ t.request = u.request /\ t.pending = u.pending
             /\ t.ignoring /\ ~t.started /\ ~t.mode /\ t.shown = None
<1> DEFINE t == StoppedOf(u, k)
<1>1. t \in Sessions
  <2> DEFINE v == [u EXCEPT !.timers = {}, !.ticking = FALSE, !.inFlight = FALSE, !.started = FALSE]
             w == [v EXCEPT !.mode = FALSE, !.ignoring = TRUE]
  <2>1. v \in Sessions
    BY Zenon DEF Sessions
  <2>2. t = [w EXCEPT !.killed = k, !.shown = None]
    BY DEF StoppedOf
  <2> HIDE DEF t, v
  <2>3. w \in Sessions
    BY <2>1, Zenon DEF Sessions
  <2> HIDE DEF w
  <2>4. [w EXCEPT !.killed = k, !.shown = None] \in Sessions
    BY <2>3, Zenon DEF Sessions
  <2> QED BY <2>2, <2>4, Zenon
<1>2. t.process = u.process
  BY DEF Sessions, StoppedOf
<1>3. t.sent = u.sent
  BY DEF Sessions, StoppedOf
<1>4. t.gen = u.gen
  BY DEF Sessions, StoppedOf
<1>5. t.errors = u.errors
  BY DEF Sessions, StoppedOf
<1>6. t.request = u.request
  BY DEF Sessions, StoppedOf
<1>7. t.pending = u.pending
  BY DEF Sessions, StoppedOf
<1>8. t.ignoring /\ ~t.started /\ ~t.mode /\ t.shown = None
  BY DEF Sessions, StoppedOf
<1> HIDE DEF t
<1> QED BY <1>1, <1>2, <1>3, <1>4, <1>5, <1>6, <1>7, <1>8 DEF t

LEMMA StoppedIs ==
  ASSUME NEW s \in Sessions
  PROVE  LET t == Stopped(s)
         IN  /\ t \in Sessions
             /\ t.process = s.process /\ t.sent = s.sent /\ t.gen = s.gen
             /\ t.errors = s.errors /\ t.request = s.request /\ t.pending = None
             /\ t.ignoring /\ ~t.started /\ ~t.mode /\ t.shown = None
<1> DEFINE u == clearSensitiveData(s)
           k == u.killed \/ s.process
<1>1. /\ u \in Sessions /\ u.pending = None /\ u.process = s.process /\ u.sent = s.sent
      /\ u.gen = s.gen /\ u.errors = s.errors /\ u.request = s.request
  BY ClearKeeps
<1>2. k \in BOOLEAN
  OBVIOUS
<1>3. Stopped(s) = StoppedOf(u, k)
  BY DEF Stopped, StoppedOf
<1> HIDE DEF u, k
<1> QED BY <1>1, <1>2, <1>3, StoppedFields

LEMMA FailedFields ==
  ASSUME NEW u \in Sessions
  PROVE  LET t == FailedOf(u)
         IN  /\ t \in Sessions /\ t.state = "Failed"
             /\ t.process = u.process /\ t.sent = u.sent /\ t.request = u.request
             /\ t.pending = u.pending /\ t.ignoring = u.ignoring /\ t.started = u.started
             /\ t.mode = u.mode
<1> DEFINE t == FailedOf(u)
<1>1. t \in Sessions
  BY DEF Sessions, FailedOf
<1>2. /\ t.state = "Failed" /\ t.process = u.process /\ t.sent = u.sent
      /\ t.request = u.request
  BY DEF Sessions, FailedOf
<1>3. /\ t.pending = u.pending /\ t.ignoring = u.ignoring /\ t.started = u.started
      /\ t.mode = u.mode
  BY DEF Sessions, FailedOf
<1> QED BY <1>1, <1>2, <1>3

LEMMA IdleFields ==
  ASSUME NEW u \in Sessions, NEW g \in Generations, NEW b \in BOOLEAN
  PROVE  LET t == IdleOf(u, g, b)
         IN  /\ t \in Sessions /\ t.state = "Idle"
             /\ t.process = u.process /\ t.sent = u.sent /\ t.request = u.request
             /\ t.pending = u.pending /\ t.ignoring = u.ignoring /\ t.started = u.started
             /\ t.mode = u.mode
<1> DEFINE t == IdleOf(u, g, b)
<1>1. t \in Sessions
  BY DEF Sessions, IdleOf
<1>2. /\ t.state = "Idle" /\ t.process = u.process /\ t.sent = u.sent
      /\ t.request = u.request
  BY DEF Sessions, IdleOf
<1>3. /\ t.pending = u.pending /\ t.ignoring = u.ignoring /\ t.started = u.started
      /\ t.mode = u.mode
  BY DEF Sessions, IdleOf
<1> QED BY <1>1, <1>2, <1>3

(* What ends an analysis kills the process and leaves nothing to show. *)
LEMMA EndDoes ==
  ASSUME NEW s \in Sessions, s.process => s.request \in Generations,
         NEW t \in Sessions, t.state # "Complete",
         t.process = Stopped(s).process, t.sent = Stopped(s).sent,
         t.request = Stopped(s).request, t.pending = Stopped(s).pending,
         t.ignoring = Stopped(s).ignoring, t.started = Stopped(s).started,
         t.mode = Stopped(s).mode
  PROVE  Does(s, t) /\ t.process = s.process /\ t.ignoring /\ ~t.started
<1>1. /\ t.process = s.process /\ t.sent = s.sent /\ t.request = s.request
      /\ t.pending = None /\ t.ignoring /\ ~t.started /\ ~t.mode
  BY StoppedIs
<1>2. CurrentIn(t) /\ CountedIn(t)
  BY <1>1 DEF CurrentIn, CountedIn, resultAvailable
<1> QED BY <1>1, <1>2 DEF Does, Quiet, GoodSession

LEMMA FailDoes ==
  ASSUME NEW s \in Sessions, s.process => s.request \in Generations
  PROVE  /\ Does(s, fail(s))
         /\ fail(s).process = s.process /\ fail(s).ignoring /\ ~fail(s).started
<1>1. fail(s) = FailedOf(Stopped(s))
  BY DEF fail, FailedOf
<1>2. Stopped(s) \in Sessions
  BY StoppedIs
<1> QED BY <1>1, <1>2, FailedFields, EndDoes

LEMMA StopDoes ==
  ASSUME NEW s \in Sessions, s.process => s.request \in Generations,
         s.gen < MaxGen, NEW b \in BOOLEAN
  PROVE  Does(s, stopAnalysis(s, b))
<1>1. Stopped(s) \in Sessions /\ Stopped(s).gen = s.gen
  BY StoppedIs
<1>2. s.gen + 1 \in Generations
  BY NextGeneration
<1>3. stopAnalysis(s, b) = IdleOf(Stopped(s), s.gen + 1, b)
  BY <1>1 DEF stopAnalysis, IdleOf
<1> QED BY <1>1, <1>2, <1>3, IdleFields, EndDoes

(* The assignments of analyzeCurrentFrame, writeRequest and startWorker. *)
RequestedOf(u, g, shown) == [u EXCEPT !.gen = g, !.shown = shown, !.inFlight = TRUE]

WrittenOf(u, g) ==
    [u EXCEPT !.state = "Analyzing", !.sent = g, !.timers = @ \cup {"inference"}]

BegunOf(u, errors) ==
    [u EXCEPT !.mode = u.tracking, !.errors = errors,
              !.ignoring = FALSE, !.received = FALSE, !.started = FALSE,
              !.process = TRUE, !.killed = FALSE, !.request = u.gen, !.sent = None,
              !.state = "Starting", !.timers = @ \cup {"startup"}]

LEMMA RequestedFields ==
  ASSUME NEW u \in Sessions, NEW g \in Generations, NEW shown \in Generations \cup {None}
  PROVE  LET t == RequestedOf(u, g, shown)
         IN  /\ t \in Sessions /\ t.gen = g /\ t.inFlight
             /\ t.process = u.process /\ t.sent = u.sent /\ t.request = u.request
             /\ t.pending = u.pending /\ t.ignoring = u.ignoring /\ t.started = u.started
             /\ t.mode = u.mode /\ t.errors = u.errors /\ t.tracking = u.tracking
<1> DEFINE t == RequestedOf(u, g, shown)
<1>1. t \in Sessions
  BY DEF Sessions, RequestedOf
<1>2. /\ t.gen = g /\ t.inFlight /\ t.process = u.process /\ t.sent = u.sent
      /\ t.request = u.request /\ t.pending = u.pending
  BY DEF Sessions, RequestedOf
<1>3. /\ t.ignoring = u.ignoring /\ t.started = u.started /\ t.mode = u.mode
      /\ t.errors = u.errors /\ t.tracking = u.tracking
  BY DEF Sessions, RequestedOf
<1> QED BY <1>1, <1>2, <1>3

LEMMA WrittenFields ==
  ASSUME NEW u \in Sessions, NEW g \in Generations
  PROVE  LET t == WrittenOf(u, g)
         IN  /\ t \in Sessions /\ t.state = "Analyzing" /\ t.sent = g
             /\ t.gen = u.gen /\ t.inFlight = u.inFlight
             /\ t.process = u.process /\ t.request = u.request
             /\ t.pending = u.pending /\ t.ignoring = u.ignoring /\ t.started = u.started
             /\ t.mode = u.mode /\ t.errors = u.errors
<1> DEFINE t == WrittenOf(u, g)
<1>1. t \in Sessions
  BY DEF Sessions, WrittenOf, Timers
<1>2. /\ t.state = "Analyzing" /\ t.sent = g /\ t.gen = u.gen /\ t.inFlight = u.inFlight
      /\ t.process = u.process /\ t.request = u.request /\ t.pending = u.pending
  BY DEF Sessions, WrittenOf
<1>3. /\ t.ignoring = u.ignoring /\ t.started = u.started /\ t.mode = u.mode
      /\ t.errors = u.errors
  BY DEF Sessions, WrittenOf
<1> QED BY <1>1, <1>2, <1>3

LEMMA BegunFields ==
  ASSUME NEW u \in Sessions, NEW errors \in 0..4
  PROVE  LET t == BegunOf(u, errors)
         IN  /\ t \in Sessions /\ t.state = "Starting" /\ t.sent = None
             /\ t.gen = u.gen /\ t.inFlight = u.inFlight
             /\ t.process /\ t.request = u.gen
             /\ t.pending = u.pending /\ ~t.ignoring /\ ~t.started
             /\ t.mode = u.tracking /\ t.errors = errors
<1> DEFINE t == BegunOf(u, errors)
<1>1. t \in Sessions
  <2> DEFINE v == [u EXCEPT !.mode = u.tracking, !.errors = errors,
                            !.ignoring = FALSE, !.received = FALSE, !.started = FALSE]
             w == [v EXCEPT !.process = TRUE, !.killed = FALSE, !.request = u.gen, !.sent = None]
  <2>1. v \in Sessions
    BY Zenon DEF Sessions
  <2>2. t = [w EXCEPT !.state = "Starting", !.timers = @ \cup {"startup"}]
    BY DEF BegunOf
  <2> HIDE DEF t, v
  <2>3. w \in Sessions
    <3>1. u.gen \in Generations
      BY Zenon DEF Sessions
    <3> QED BY <2>1, <3>1, Zenon DEF Sessions
  <2> HIDE DEF w
  <2>4. [w EXCEPT !.state = "Starting", !.timers = @ \cup {"startup"}] \in Sessions
    BY <2>3, Zenon DEF Sessions, Timers
  <2> QED BY <2>2, <2>4, Zenon
<1>2. t.state = "Starting" /\ t.sent = None
  BY DEF Sessions, BegunOf
<1>3. t.gen = u.gen
  BY DEF Sessions, BegunOf
<1>4. t.inFlight = u.inFlight
  BY DEF Sessions, BegunOf
<1>5. t.pending = u.pending
  BY DEF Sessions, BegunOf
<1>6. t.process /\ t.request = u.gen
  BY DEF Sessions, BegunOf
<1>7. ~t.ignoring /\ ~t.started /\ t.mode = u.tracking /\ t.errors = errors
  BY DEF Sessions, BegunOf
<1> HIDE DEF t
<1> QED BY <1>1, <1>2, <1>3, <1>4, <1>5, <1>6, <1>7 DEF t

LEMMA WriteRequestIs ==
  ASSUME NEW s \in Sessions, NEW g \in Generations, s.process, s.started
  PROVE  LET t == writeRequest(s, g)
         IN  /\ t \in Sessions /\ t.state = "Analyzing" /\ t.sent = g /\ t.pending = None
             /\ t.gen = s.gen /\ t.inFlight = s.inFlight
             /\ t.process = s.process /\ t.request = s.request
             /\ t.ignoring = s.ignoring /\ t.started = s.started
             /\ t.mode = s.mode /\ t.errors = s.errors
<1> DEFINE u == clearSensitiveData(s)
           t == writeRequest(s, g)
<1>1. t = WrittenOf(u, g)
  BY DEF writeRequest, WrittenOf
<1>2. /\ u \in Sessions /\ u.pending = None /\ u.gen = s.gen /\ u.inFlight = s.inFlight
      /\ u.process = s.process /\ u.request = s.request
      /\ u.ignoring = s.ignoring /\ u.started = s.started
      /\ u.mode = s.mode /\ u.errors = s.errors
  BY ClearKeeps
<1> HIDE DEF t, u
<1>3. /\ t \in Sessions /\ t.state = "Analyzing" /\ t.sent = g
      /\ t.gen = u.gen /\ t.inFlight = u.inFlight
      /\ t.process = u.process /\ t.request = u.request
      /\ t.pending = u.pending /\ t.ignoring = u.ignoring /\ t.started = u.started
      /\ t.mode = u.mode /\ t.errors = u.errors
  BY <1>1, <1>2, WrittenFields
<1> QED BY <1>2, <1>3 DEF t

LEMMA AnalyzeDoes ==
  ASSUME NEW s, GoodSession(s), s.gen < MaxGen, NEW ok \in BOOLEAN
  PROVE  Does(s, analyzeCurrentFrame(s, ok))
<1> DEFINE c == clearSensitiveData(s)
           shown == IF s.mode THEN s.shown ELSE None
           u == RequestedOf(c, s.gen + 1, shown)
           errors == IF u.tracking THEN 0 ELSE u.errors
<1>1. s \in Sessions /\ CurrentIn(s) /\ CountedIn(s)
  BY DEF GoodSession
<1>2. Does(s, s)
  BY DEF Does, Quiet, GoodSession
<1>3. Does(s, stopAnalysis(s, TRUE)) /\ Does(s, fail(s))
  BY <1>1, StopDoes, FailDoes DEF CountedIn
<1>4. /\ c \in Sessions /\ c.pending = None /\ c.process = s.process /\ c.sent = s.sent
      /\ c.gen = s.gen /\ c.errors = s.errors /\ c.request = s.request /\ c.mode = s.mode
      /\ c.started = s.started /\ c.ignoring = s.ignoring /\ c.shown = s.shown
      /\ c.tracking = s.tracking
  BY <1>1, ClearKeeps
<1>5. s.gen + 1 \in Generations /\ shown \in Generations \cup {None}
  BY <1>1, NextGeneration DEF Sessions
<1>6. u = [c EXCEPT !.gen = @ + 1, !.shown = IF s.mode THEN @ ELSE None, !.inFlight = TRUE]
  BY <1>4 DEF RequestedOf
<1> HIDE DEF c, shown
<1>7. /\ u \in Sessions /\ u.gen = s.gen + 1 /\ u.inFlight
      /\ u.process = s.process /\ u.sent = s.sent /\ u.request = s.request
      /\ u.pending = None /\ u.ignoring = s.ignoring /\ u.started = s.started
      /\ u.mode = s.mode /\ u.errors = s.errors /\ u.tracking = s.tracking
  BY <1>4, <1>5, RequestedFields
<1> HIDE DEF u
<1>8. CountedIn(u)
  BY <1>1, <1>7 DEF CountedIn
<1>9. CASE ~s.process /\ analyzeCurrentFrame(s, ok) = BegunOf(u, errors)
  <2> DEFINE t == BegunOf(u, errors)
  <2>1. errors \in 0..4 /\ (u.tracking => errors <= 3)
    BY <1>7 DEF Sessions
  <2> HIDE DEF errors
  <2>2. /\ t \in Sessions /\ t.state = "Starting" /\ t.sent = None
        /\ t.gen = u.gen /\ t.inFlight = u.inFlight /\ t.process /\ t.request = u.gen
        /\ t.pending = u.pending /\ ~t.ignoring /\ ~t.started
        /\ t.mode = u.tracking /\ t.errors = errors
    BY <1>7, <2>1, BegunFields
  <2> HIDE DEF t
  <2>3. CurrentIn(t) /\ CountedIn(t)
    BY <1>5, <1>7, <2>1, <2>2 DEF CurrentIn, CountedIn, resultAvailable
  <2>4. Begins(s, t)
    BY <1>7, <1>9, <2>2 DEF Begins
  <2> QED BY <1>9, <2>2, <2>3, <2>4 DEF Does, GoodSession, t
<1>10. CASE /\ s.process /\ s.started /\ ~s.inFlight
            /\ analyzeCurrentFrame(s, ok) = writeRequest(u, u.gen)
  <2> DEFINE t == writeRequest(u, u.gen)
  <2>1. /\ t \in Sessions /\ t.state = "Analyzing" /\ t.sent = u.gen /\ t.pending = None
        /\ t.gen = u.gen /\ t.inFlight = u.inFlight
        /\ t.process = u.process /\ t.request = u.request
        /\ t.ignoring = u.ignoring /\ t.started = u.started
        /\ t.mode = u.mode /\ t.errors = u.errors
    <3>1. u \in Sessions /\ u.gen \in Generations /\ u.process /\ u.started
      BY <1>5, <1>7, <1>10
    <3> QED BY <3>1, WriteRequestIs, Zenon
  <2> HIDE DEF t
  <2>2. CurrentIn(t) /\ CountedIn(t)
    BY <1>8, <2>1 DEF CurrentIn, CountedIn, resultAvailable
  <2>3. Writes(s, t)
    BY <1>5, <1>7, <1>10, <2>1 DEF Writes
  <2> QED BY <1>10, <2>1, <2>2, <2>3 DEF Does, GoodSession, t
<1>11. CASE analyzeCurrentFrame(s, ok) \in {s, stopAnalysis(s, TRUE), fail(s)}
  BY <1>11, <1>2, <1>3
<1> QED
  <2> SUFFICES ASSUME analyzeCurrentFrame(s, ok) \notin {s, stopAnalysis(s, TRUE), fail(s)}
               PROVE  \/ ~s.process /\ analyzeCurrentFrame(s, ok) = BegunOf(u, errors)
                      \/ /\ s.process /\ s.started /\ ~s.inFlight
                         /\ analyzeCurrentFrame(s, ok) = writeRequest(u, u.gen)
    BY <1>9, <1>10, <1>11
  <2>1. /\ ~s.inFlight /\ ~(s.process /\ (~s.mode \/ ~s.started))
        /\ analyzeCurrentFrame(s, ok) = startWorker(u)
    BY <1>6 DEF analyzeCurrentFrame, c
  <2>2. CASE s.process
    BY <1>7, <2>1, <2>2 DEF startWorker
  <2>3. CASE ~s.process
    BY <1>7, <2>1, <2>3 DEF startWorker, BegunOf, errors
  <2> QED BY <2>2, <2>3

(* A session that differs in what the process does not see. *)
LEMMA SameProcess ==
  ASSUME NEW s, NEW t, NEW r, Does(t, r), t.process = s.process, t.sent = s.sent,
         t.ignoring = s.ignoring, t.started = s.started, t.inFlight = s.inFlight
  PROVE  Does(s, r)
  BY DEF Does, Quiet, Begins, Writes

LEMMA TrackingDoes ==
  ASSUME NEW s, GoodSession(s), s.gen < MaxGen, NEW enabled \in BOOLEAN, NEW ok \in BOOLEAN
  PROVE  Does(s, setContinuousTracking(s, enabled, ok))
<1> DEFINE ticking == IF s.tracking = enabled THEN s.ticking ELSE enabled
           t == [s EXCEPT !.tracking = enabled, !.ticking = ticking]
<1>1. s \in Sessions /\ CurrentIn(s) /\ CountedIn(s)
  BY DEF GoodSession
<1>2. ticking \in BOOLEAN
  BY <1>1 DEF Sessions
<1> HIDE DEF ticking
<1>3. t \in Sessions
  BY <1>1, <1>2 DEF Sessions
<1>4. /\ t.process = s.process /\ t.sent = s.sent /\ t.ignoring = s.ignoring
      /\ t.started = s.started /\ t.inFlight = s.inFlight
  BY <1>1 DEF Sessions
<1>5. /\ t.gen = s.gen /\ t.pending = s.pending /\ t.shown = s.shown /\ t.state = s.state
      /\ t.mode = s.mode /\ t.errors = s.errors /\ t.request = s.request
  BY <1>1 DEF Sessions
<1>6. setContinuousTracking(s, enabled, ok) \in {analyzeCurrentFrame(t, ok), stopAnalysis(t, FALSE), t}
  BY DEF setContinuousTracking, ticking
<1> HIDE DEF t
<1>7. CurrentIn(t) /\ CountedIn(t)
  BY <1>1, <1>4, <1>5 DEF CurrentIn, CountedIn, resultAvailable
<1>8. GoodSession(t)
  BY <1>3, <1>7 DEF GoodSession
<1>9. Does(t, t)
  BY <1>8 DEF Does, Quiet
<1>10. Does(t, analyzeCurrentFrame(t, ok)) /\ Does(t, stopAnalysis(t, FALSE))
  BY <1>3, <1>5, <1>7, <1>8, AnalyzeDoes, StopDoes DEF CountedIn
<1>11. Does(t, setContinuousTracking(s, enabled, ok))
  BY <1>6, <1>9, <1>10
<1> QED BY <1>4, <1>11, SameProcess

-----------------------------------------------------------------------------
(* The signals of the process.                                             *)

(* The assignments of readResponse and processFinished. *)
ShownOf(u, g, e) ==
    [u EXCEPT !.timers = @ \ {"inference"}, !.inFlight = FALSE, !.errors = e,
              !.state = "Complete", !.shown = g]

AwaitedOf(u, g) ==
    [u EXCEPT !.timers = (@ \ {"inference"}) \cup {"shutdown"}, !.inFlight = FALSE,
              !.received = TRUE, !.pending = g]

SkippedOf(u, e) ==
    [u EXCEPT !.timers = @ \ {"inference"}, !.inFlight = FALSE, !.received = TRUE,
              !.shown = None, !.errors = e, !.state = "Complete"]

LEMMA ShownFields ==
  ASSUME NEW u \in Sessions, NEW g \in Generations, NEW e \in 0..4
  PROVE  LET t == ShownOf(u, g, e)
         IN  /\ t \in Sessions /\ t.shown = g /\ ~t.inFlight /\ t.errors = e
             /\ t.gen = u.gen /\ t.pending = u.pending /\ t.process = u.process
             /\ t.request = u.request /\ t.ignoring = u.ignoring /\ t.started = u.started
<1> DEFINE t == ShownOf(u, g, e)
<1>1. t \in Sessions
  BY DEF Sessions, ShownOf
<1>2. /\ t.shown = g /\ ~t.inFlight /\ t.errors = e /\ t.gen = u.gen
      /\ t.pending = u.pending /\ t.process = u.process
  BY DEF Sessions, ShownOf
<1>3. t.request = u.request /\ t.ignoring = u.ignoring /\ t.started = u.started
  BY DEF Sessions, ShownOf
<1> QED BY <1>1, <1>2, <1>3

LEMMA AwaitedFields ==
  ASSUME NEW u \in Sessions, NEW g \in Generations
  PROVE  LET t == AwaitedOf(u, g)
         IN  /\ t \in Sessions /\ t.pending = g /\ ~t.inFlight /\ t.errors = u.errors
             /\ t.gen = u.gen /\ t.shown = u.shown /\ t.process = u.process
             /\ t.request = u.request /\ t.ignoring = u.ignoring /\ t.started = u.started
             /\ t.mode = u.mode /\ t.state = u.state
<1> DEFINE t == AwaitedOf(u, g)
<1>1. t \in Sessions
  BY DEF Sessions, AwaitedOf, Timers
<1>2. /\ t.pending = g /\ ~t.inFlight /\ t.errors = u.errors /\ t.gen = u.gen
      /\ t.shown = u.shown /\ t.process = u.process
  BY DEF Sessions, AwaitedOf
<1>3. /\ t.request = u.request /\ t.ignoring = u.ignoring /\ t.started = u.started
      /\ t.mode = u.mode /\ t.state = u.state
  BY DEF Sessions, AwaitedOf
<1> QED BY <1>1, <1>2, <1>3

LEMMA SkippedFields ==
  ASSUME NEW u \in Sessions, NEW e \in 0..3
  PROVE  LET t == SkippedOf(u, e)
         IN  /\ t \in Sessions /\ t.shown = None /\ ~t.inFlight /\ t.errors = e
             /\ t.gen = u.gen /\ t.pending = u.pending /\ t.process = u.process
             /\ t.request = u.request /\ t.ignoring = u.ignoring /\ t.started = u.started
<1> DEFINE t == SkippedOf(u, e)
<1>1. e \in 0..4
  OBVIOUS
<1>2. t \in Sessions
  BY <1>1 DEF Sessions, SkippedOf
<1>3. /\ t.shown = None /\ ~t.inFlight /\ t.errors = e /\ t.gen = u.gen
      /\ t.pending = u.pending /\ t.process = u.process
  BY DEF Sessions, SkippedOf
<1>4. t.request = u.request /\ t.ignoring = u.ignoring /\ t.started = u.started
  BY DEF Sessions, SkippedOf
<1> QED BY <1>2, <1>3, <1>4

(* What an answer may do: the request is no longer under way, or the       *)
(* process is killed.                                                      *)
Reads(s, t) ==
    /\ GoodSession(t) /\ t.process = s.process
    /\ \/ t.ignoring /\ ~t.started
       \/ t.ignoring = s.ignoring /\ t.started = s.started /\ ~t.inFlight

LEMMA ReadResponseReads ==
  ASSUME NEW s, GoodSession(s), NEW r \in Replies
  PROVE  Reads(s, readResponse(s, r))
<1> DEFINE c == clearSensitiveData(s)
           v == [s EXCEPT !.errors = @ + 1]
           t == readResponse(s, r)
<1>1. s \in Sessions /\ CurrentIn(s) /\ CountedIn(s)
  BY DEF GoodSession
<1>2. /\ c \in Sessions /\ c.pending = None /\ c.process = s.process /\ c.gen = s.gen
      /\ c.errors = s.errors /\ c.request = s.request
      /\ c.started = s.started /\ c.ignoring = s.ignoring
  BY <1>1, ClearKeeps
<1>3. r.gen \in Generations /\ 0 \in 0..4
  BY DEF Replies
<1>4. CASE t = fail(s)
  BY <1>1, <1>4, FailDoes DEF CountedIn, Reads, Does
<1>5. CASE s.mode /\ t = fail(v)
  <2>1. s.errors + 1 \in 0..4
    BY <1>1, <1>5 DEF Sessions, CountedIn
  <2>2. v \in Sessions
    BY <1>1, <2>1 DEF Sessions
  <2>3. v.process = s.process /\ v.request = s.request
    BY <1>1 DEF Sessions
  <2> HIDE DEF v
  <2> QED BY <1>1, <1>5, <2>2, <2>3, FailDoes DEF CountedIn, Reads, Does
<1>6. CASE r.gen = s.gen /\ t = ShownOf(c, r.gen, 0)
  <2>1. /\ t \in Sessions /\ t.shown = r.gen /\ ~t.inFlight /\ t.errors = 0
        /\ t.gen = c.gen /\ t.pending = c.pending /\ t.process = c.process
        /\ t.request = c.request /\ t.ignoring = c.ignoring /\ t.started = c.started
    <3> DEFINE e == 0
    <3>1. e \in 0..4 /\ e = 0 /\ t = ShownOf(c, r.gen, e)
      BY <1>3, <1>6
    <3> HIDE DEF e, c, t
    <3> QED BY <1>2, <1>3, <3>1, ShownFields
  <2> HIDE DEF t
  <2>2. CurrentIn(t) /\ CountedIn(t)
    BY <1>1, <1>2, <1>6, <2>1 DEF CurrentIn, CountedIn, resultAvailable
  <2> QED BY <1>2, <2>1, <2>2 DEF Reads, GoodSession, t
<1>7. CASE r.gen = s.gen /\ t = AwaitedOf(s, r.gen)
  <2>1. /\ t \in Sessions /\ t.pending = r.gen /\ ~t.inFlight /\ t.errors = s.errors
        /\ t.gen = s.gen /\ t.shown = s.shown /\ t.process = s.process
        /\ t.request = s.request /\ t.ignoring = s.ignoring /\ t.started = s.started
        /\ t.mode = s.mode /\ t.state = s.state
    BY <1>1, <1>3, <1>7, AwaitedFields
  <2> HIDE DEF t
  <2>2. CurrentIn(t) /\ CountedIn(t)
    BY <1>1, <1>7, <2>1 DEF CurrentIn, CountedIn, resultAvailable
  <2> QED BY <2>1, <2>2 DEF Reads, GoodSession, t
<1>8. CASE s.errors < 3 /\ t = SkippedOf(c, s.errors + 1)
  <2>1. s.errors + 1 \in 0..3
    BY <1>1, <1>8 DEF Sessions
  <2>2. /\ t \in Sessions /\ t.shown = None /\ ~t.inFlight /\ t.errors = s.errors + 1
        /\ t.gen = c.gen /\ t.pending = c.pending /\ t.process = c.process
        /\ t.request = c.request /\ t.ignoring = c.ignoring /\ t.started = c.started
    BY <1>2, <1>8, <2>1, SkippedFields
  <2> HIDE DEF t
  <2>3. CurrentIn(t) /\ CountedIn(t)
    BY <1>1, <1>2, <2>1, <2>2 DEF CurrentIn, CountedIn, resultAvailable
  <2> QED BY <1>2, <2>2, <2>3 DEF Reads, GoodSession, t
<1> QED
  <2> HIDE DEF t
  <2>1. \/ t = fail(s)
        \/ r.gen = s.gen /\ t = ShownOf(c, r.gen, 0)
        \/ r.gen = s.gen /\ t = AwaitedOf(s, r.gen)
        \/ s.errors < 3 /\ t = SkippedOf(c, c.errors + 1)
        \/ s.mode /\ t = fail(v)
    BY DEF readResponse, ShownOf, AwaitedOf, SkippedOf, t
  <2> QED BY <1>2, <1>4, <1>5, <1>6, <1>7, <1>8, <2>1 DEF t

LEMMA FinishedKeeps ==
  ASSUME NEW s, GoodSession(s), NEW clean \in BOOLEAN
  PROVE  LET r == processFinished(s, clean)
         IN  GoodSession(r) /\ ~r.process
<1> DEFINE t == [s EXCEPT !.process = FALSE, !.started = FALSE, !.timers = {}]
           c == clearSensitiveData(t)
           r == processFinished(s, clean)
<1>1. s \in Sessions /\ CurrentIn(s) /\ CountedIn(s)
  BY DEF GoodSession
<1>2. t \in Sessions
  BY <1>1 DEF Sessions
<1>3. /\ ~t.process /\ ~t.started /\ t.ignoring = s.ignoring /\ t.pending = s.pending
      /\ t.shown = s.shown /\ t.gen = s.gen /\ t.state = s.state /\ t.mode = s.mode
      /\ t.errors = s.errors
  BY <1>1 DEF Sessions
<1>4. /\ c \in Sessions /\ c.pending = None /\ c.process = t.process /\ c.gen = t.gen
      /\ c.errors = t.errors /\ c.mode = t.mode
      /\ c.started = t.started /\ c.ignoring = t.ignoring
  BY <1>2, ClearKeeps
<1>5. \/ \E posted \in SUBSET {"analyze", "again"} :
            r = [t EXCEPT !.ignoring = FALSE, !.replace = FALSE, !.posted = posted]
      \/ r = fail(t)
      \/ /\ t.pending # None
         /\ \E posted \in SUBSET {"analyze", "again"} :
               r = [c EXCEPT !.inFlight = FALSE, !.state = "Complete", !.shown = t.pending,
                             !.posted = posted]
  <2>1. /\ t.posted \in SUBSET {"analyze", "again"}
        /\ t.posted \cup {"analyze"} \in SUBSET {"analyze", "again"}
        /\ c.posted \in SUBSET {"analyze", "again"}
        /\ c.posted \cup {"again"} \in SUBSET {"analyze", "again"}
    BY <1>2, <1>4 DEF Sessions
  <2> HIDE DEF t, c
  <2>2. CASE t.ignoring
    BY <2>1, <2>2 DEF processFinished, t
  <2>3. CASE ~t.ignoring
    BY <2>1, <2>3 DEF processFinished, t, c
  <2> QED BY <2>2, <2>3
<1> HIDE DEF t, c, r
<1>6. CASE \E posted \in SUBSET {"analyze", "again"} :
              r = [t EXCEPT !.ignoring = FALSE, !.replace = FALSE, !.posted = posted]
  <2>1. PICK posted \in SUBSET {"analyze", "again"} :
              r = [t EXCEPT !.ignoring = FALSE, !.replace = FALSE, !.posted = posted]
    BY <1>6
  <2>2. r \in Sessions
    BY <1>2, <2>1 DEF Sessions
  <2>3. /\ ~r.process /\ ~r.ignoring /\ r.pending = t.pending /\ r.shown = t.shown
        /\ r.gen = t.gen /\ r.state = t.state /\ r.mode = t.mode /\ r.errors = t.errors
    BY <1>2, <1>3, <2>1 DEF Sessions
  <2>4. CurrentIn(r) /\ CountedIn(r)
    BY <1>1, <1>3, <2>3 DEF CurrentIn, CountedIn, resultAvailable
  <2> QED BY <2>2, <2>3, <2>4 DEF GoodSession, r
<1>7. CASE r = fail(t)
  BY <1>2, <1>3, <1>7, FailDoes DEF Does, r
<1>8. CASE /\ t.pending # None
           /\ \E posted \in SUBSET {"analyze", "again"} :
                 r = [c EXCEPT !.inFlight = FALSE, !.state = "Complete", !.shown = t.pending,
                               !.posted = posted]
  <2>1. PICK posted \in SUBSET {"analyze", "again"} :
              r = [c EXCEPT !.inFlight = FALSE, !.state = "Complete", !.shown = t.pending,
                            !.posted = posted]
    BY <1>8
  <2>2. t.pending \in Generations \cup {None}
    BY <1>2 DEF Sessions
  <2>3. r \in Sessions
    <3> DEFINE p == t.pending
    <3>1. c \in Sessions /\ p \in Generations \cup {None} /\ posted \in SUBSET {"analyze", "again"}
          /\ r = [c EXCEPT !.inFlight = FALSE, !.state = "Complete", !.shown = p, !.posted = posted]
      BY <1>4, <2>1, <2>2, Zenon
    <3> HIDE DEF p, r
    <3> QED BY <3>1 DEF Sessions
  <2>4. /\ ~r.process /\ ~r.started /\ r.pending = None /\ r.shown = t.pending
        /\ r.gen = c.gen /\ r.mode = c.mode /\ r.errors = c.errors
    BY <1>3, <1>4, <2>1 DEF Sessions
  <2>5. CurrentIn(r) /\ CountedIn(r)
    BY <1>1, <1>3, <1>4, <1>8, <2>4 DEF CurrentIn, CountedIn, resultAvailable
  <2> QED BY <2>3, <2>4, <2>5 DEF GoodSession, r
<1> QED BY <1>5, <1>6, <1>7, <1>8

-----------------------------------------------------------------------------
(* The invariant.                                                          *)

LEMMA NoWorkerIs ==
  /\ NoWorker \in Processes /\ Resting(NoWorker)
  /\ NoWorker.stage = "none" /\ ~NoWorker.signal
<1>1. 0 \in Generations /\ << >> \in Seq(Generations) /\ << >> \in Seq(Replies)
  BY GuidanceAssumption DEF Generations
<1>2. NoWorker \in Processes
  BY <1>1 DEF NoWorker, Processes, Replies
<1>3. Resting(NoWorker) /\ NoWorker.stage = "none" /\ ~NoWorker.signal
  BY DEF NoWorker, Resting
<1> QED BY <1>2, <1>3

LEMMA InitGuidance == Init => GuidanceInv
<1> SUFFICES ASSUME Init
             PROVE  GuidanceInv
  OBVIOUS
<1>1. 0 \in Generations /\ 0 \in 0..4 /\ faults \in 0..MaxFaults
  BY GuidanceAssumption DEF Generations, Init
<1>2. session \in Sessions
  BY <1>1 DEF Init, Sessions
<1>3. CurrentIn(session) /\ CountedIn(session) /\ ~session.process
  BY <1>1 DEF Init, CurrentIn, CountedIn, resultAvailable
<1>4. worker = NoWorker /\ streaming \in BOOLEAN
  BY DEF Init
<1> QED BY <1>1, <1>2, <1>3, <1>4, NoWorkerIs
     DEF GuidanceInv, Typed, OneRequest, IdleIn

LEMMA HandledKeeps ==
  ASSUME GuidanceInv, NEW t, Does(session, t), Handled(t),
         streaming' \in BOOLEAN, faults' \in 0..MaxFaults
  PROVE  GuidanceInv'
<1> USE DEF GuidanceInv
<1>1. session' = t /\ GoodSession(t) /\ worker \in Processes
  BY DEF Does, Handled, Typed
<1>2. session' \in Sessions /\ CurrentIn(session)' /\ CountedIn(session)'
  BY <1>1 DEF GoodSession, CurrentIn, CountedIn, resultAvailable
<1>3. CASE Quiet(session, t)
  <2>1. worker' = worker
    BY <1>1, <1>3 DEF Handled, Quiet
  <2>2. IdleIn(session, worker)'
    BY <1>1, <1>3, <2>1 DEF Quiet, IdleIn, Resting, Typed, Sessions, GoodSession
  <2> QED BY <1>1, <1>2, <2>1, <2>2 DEF Typed, OneRequest, Resting
<1>4. CASE Begins(session, t)
  <2>1. worker' = [NoWorker EXCEPT !.stage = "starting", !.session = t.mode]
    BY <1>4 DEF Handled, Begins
  <2>2. t.mode \in BOOLEAN
    BY <1>1 DEF GoodSession, Sessions
  <2>3. worker' \in Processes
    BY <2>1, <2>2, NoWorkerIs DEF Processes
  <2>4. Resting(worker') /\ worker'.stage = "starting" /\ ~worker'.signal
    BY <2>1, NoWorkerIs DEF Processes, Resting
  <2>5. IdleIn(session, worker)'
    BY <1>1, <1>4, <2>4 DEF Begins, IdleIn, Resting
  <2> QED BY <1>1, <1>2, <2>3, <2>4, <2>5 DEF Typed, OneRequest, Resting
<1>5. CASE Writes(session, t)
  <2>1. Resting(worker) /\ worker.stage # "starting" /\ ~worker.signal
    BY <1>5 DEF Writes, IdleIn, CountedIn
  <2>2. IdleIn(session, worker)' /\ OneRequest(worker)' /\ worker' \in Processes
    <3>1. CASE worker' = worker
      BY <1>1, <1>5, <2>1, <3>1 DEF Writes, IdleIn, OneRequest, Resting
    <3>2. CASE worker' = [worker EXCEPT !.requests = Append(@, t.sent), !.closed = ~t.mode]
      <4>1. (~t.mode) \in BOOLEAN
        OBVIOUS
      <4>2. /\ Append(worker.requests, t.sent) \in Seq(Generations)
            /\ Len(Append(worker.requests, t.sent)) = 1
        BY <1>1, <1>5, <2>1 DEF Writes, Resting, Processes
      <4> DEFINE q == Append(worker.requests, t.sent)
                 b == ~t.mode
      <4> HIDE DEF q, b
      <4>3. worker' = [worker EXCEPT !.requests = q, !.closed = b]
        BY <3>2 DEF q, b
      <4>4. worker' \in Processes
        BY <1>1, <4>1, <4>2, <4>3 DEF Processes, q, b
      <4>5. /\ worker'.requests = q /\ worker'.out = worker.out
            /\ worker'.stage = worker.stage /\ worker'.signal = worker.signal
        BY <1>1, <4>3 DEF Processes
      <4> QED BY <1>1, <1>5, <2>1, <4>2, <4>4, <4>5
           DEF Writes, IdleIn, OneRequest, Resting, q
    <3> QED BY <1>5, <3>1, <3>2 DEF Handled, Writes
  <2> QED BY <1>1, <1>2, <2>2 DEF Typed
<1> QED BY <1>3, <1>4, <1>5 DEF Does

LEMMA GoodNow ==
  ASSUME GuidanceInv
  PROVE  /\ GoodSession(session) /\ session \in Sessions /\ worker \in Processes
         /\ (session.process => session.request \in Generations)
         /\ streaming \in BOOLEAN /\ faults \in 0..MaxFaults
  BY DEF GuidanceInv, GoodSession, Typed, CountedIn

LEMMA CountedFaults ==
  ASSUME GuidanceInv, NEW ok \in BOOLEAN, Usable(ok), Counted(ok)
  PROVE  faults' \in 0..MaxFaults
  BY GoodNow, GuidanceAssumption DEF Usable, Counted

LEMMA AnalyzeClickedKeeps ==
  ASSUME GuidanceInv, AnalyzeClicked
  PROVE  GuidanceInv'
<1>1. PICK ok \in BOOLEAN :
         Usable(ok) /\ Counted(ok) /\ Handled(analyzeCurrentFrame(session, ok))
  BY DEF AnalyzeClicked
<1>2. Does(session, analyzeCurrentFrame(session, ok))
  BY GoodNow, AnalyzeDoes DEF AnalyzeClicked
<1> QED BY <1>1, <1>2, GoodNow, CountedFaults, HandledKeeps DEF AnalyzeClicked

LEMMA SetTrackingKeeps ==
  ASSUME GuidanceInv, SetTracking
  PROVE  GuidanceInv'
<1>1. PICK enabled \in BOOLEAN, ok \in BOOLEAN :
         Usable(ok) /\ Counted(ok) /\ Handled(setContinuousTracking(session, enabled, ok))
  BY DEF SetTracking
<1>2. Does(session, setContinuousTracking(session, enabled, ok))
  BY GoodNow, TrackingDoes DEF SetTracking
<1> QED BY <1>1, <1>2, GoodNow, CountedFaults, HandledKeeps DEF SetTracking

(* A step that leaves the session and the worker alone. *)
LEMMA SameKeeps ==
  ASSUME GuidanceInv, session' = session, worker' = worker,
         streaming' \in BOOLEAN, faults' \in 0..MaxFaults
  PROVE  GuidanceInv'
  BY DEF GuidanceInv, Typed, CurrentIn, CountedIn, OneRequest, IdleIn, Resting, resultAvailable

LEMMA CameraChangesKeeps ==
  ASSUME GuidanceInv, CameraChanges
  PROVE  GuidanceInv'
<1>1. streaming' \in BOOLEAN /\ faults' \in 0..MaxFaults /\ session.gen < MaxGen
  BY GoodNow DEF CameraChanges
<1>2. CASE streaming
  <2>1. Does(session, setContinuousTracking(session, FALSE, TRUE))
    BY <1>1, GoodNow, TrackingDoes
  <2> QED BY <1>1, <1>2, <2>1, HandledKeeps DEF CameraChanges
<1>3. CASE ~streaming
  BY <1>1, <1>3, SameKeeps DEF CameraChanges
<1> QED BY <1>2, <1>3

LEMMA TickKeeps ==
  ASSUME GuidanceInv, Tick
  PROVE  GuidanceInv'
<1>1. Does(session, analyzeCurrentFrame(session, TRUE))
  BY GoodNow, AnalyzeDoes DEF Tick
<1> QED BY <1>1, GoodNow, HandledKeeps DEF Tick

LEMMA TimerFiresKeeps ==
  ASSUME GuidanceInv, TimerFires
  PROVE  GuidanceInv'
<1>1. Does(session, fail(session))
  BY GoodNow, FailDoes
<1> QED BY <1>1, GoodNow, HandledKeeps DEF TimerFires

(* A callback that was posted is taken from the event loop first. *)
PostedOf(s, left) == [s EXCEPT !.posted = left]

LEMMA PostedFields ==
  ASSUME NEW s, GoodSession(s), NEW left \in SUBSET {"analyze", "again"}
  PROVE  LET t == PostedOf(s, left)
         IN  /\ GoodSession(t) /\ t.gen = s.gen
             /\ t.process = s.process /\ t.sent = s.sent /\ t.ignoring = s.ignoring
             /\ t.started = s.started /\ t.inFlight = s.inFlight
<1> DEFINE t == PostedOf(s, left)
<1>1. s \in Sessions /\ CurrentIn(s) /\ CountedIn(s)
  BY DEF GoodSession
<1>2. t \in Sessions
  BY <1>1 DEF Sessions, PostedOf
<1>3. /\ t.process = s.process /\ t.sent = s.sent /\ t.ignoring = s.ignoring
      /\ t.started = s.started /\ t.inFlight = s.inFlight
  BY <1>1 DEF Sessions, PostedOf
<1>4. /\ t.gen = s.gen /\ t.pending = s.pending /\ t.shown = s.shown /\ t.state = s.state
      /\ t.mode = s.mode /\ t.errors = s.errors /\ t.request = s.request
  BY <1>1 DEF Sessions, PostedOf
<1> HIDE DEF t
<1>5. CurrentIn(t) /\ CountedIn(t)
  BY <1>1, <1>3, <1>4 DEF CurrentIn, CountedIn, resultAvailable
<1> QED BY <1>2, <1>3, <1>4, <1>5 DEF GoodSession, t

LEMMA IdleStateFields ==
  ASSUME NEW s, GoodSession(s)
  PROVE  LET t == [s EXCEPT !.state = "Idle"]
         IN  /\ GoodSession(t) /\ t.gen = s.gen
             /\ t.process = s.process /\ t.sent = s.sent /\ t.ignoring = s.ignoring
             /\ t.started = s.started /\ t.inFlight = s.inFlight
<1> DEFINE t == [s EXCEPT !.state = "Idle"]
<1>1. s \in Sessions /\ CurrentIn(s) /\ CountedIn(s)
  BY DEF GoodSession
<1>2. t \in Sessions
  BY <1>1 DEF Sessions
<1>3. /\ t.process = s.process /\ t.sent = s.sent /\ t.ignoring = s.ignoring
      /\ t.started = s.started /\ t.inFlight = s.inFlight
  BY <1>1 DEF Sessions
<1>4. /\ t.gen = s.gen /\ t.pending = s.pending /\ t.state = "Idle"
      /\ t.mode = s.mode /\ t.errors = s.errors /\ t.request = s.request
  BY <1>1 DEF Sessions
<1> HIDE DEF t
<1>5. CurrentIn(t) /\ CountedIn(t)
  BY <1>1, <1>3, <1>4 DEF CurrentIn, CountedIn, resultAvailable
<1> QED BY <1>2, <1>3, <1>4, <1>5 DEF GoodSession, t

LEMMA PostedKeeps ==
  ASSUME GuidanceInv, Posted
  PROVE  GuidanceInv'
<1>1. PICK c \in session.posted :
         LET s == [session EXCEPT !.posted = @ \ {c}]
         IN  IF c = "analyze" THEN Handled(analyzeCurrentFrame(s, TRUE))
             ELSE IF s.tracking /\ streaming /\ s.state = "Complete"
             THEN Handled(analyzeCurrentFrame([s EXCEPT !.state = "Idle"], TRUE))
             ELSE Handled(s)
  BY DEF Posted
<1> DEFINE left == session.posted \ {c}
           s == PostedOf(session, left)
           i == [s EXCEPT !.state = "Idle"]
<1>2. left \in SUBSET {"analyze", "again"} /\ session.gen < MaxGen
  BY GoodNow DEF Sessions, Posted
<1>3. \/ Handled(analyzeCurrentFrame(s, TRUE)) \/ Handled(analyzeCurrentFrame(i, TRUE))
      \/ Handled(s)
  BY <1>1 DEF PostedOf
<1> HIDE DEF left
<1>4. /\ GoodSession(s) /\ s.gen = session.gen
      /\ s.process = session.process /\ s.sent = session.sent
      /\ s.ignoring = session.ignoring /\ s.started = session.started
      /\ s.inFlight = session.inFlight
  BY <1>2, GoodNow, PostedFields
<1> HIDE DEF s
<1>5. /\ GoodSession(i) /\ i.gen = s.gen
      /\ i.process = s.process /\ i.sent = s.sent /\ i.ignoring = s.ignoring
      /\ i.started = s.started /\ i.inFlight = s.inFlight
  BY <1>4, IdleStateFields
<1> HIDE DEF i
<1>6. Does(s, analyzeCurrentFrame(s, TRUE)) /\ Does(i, analyzeCurrentFrame(i, TRUE))
  BY <1>2, <1>4, <1>5, AnalyzeDoes
<1>7. Does(s, s)
  BY <1>4 DEF Does, Quiet
<1>8. /\ Does(session, analyzeCurrentFrame(s, TRUE)) /\ Does(session, s)
  BY <1>4, <1>6, <1>7, SameProcess
<1>9. Does(session, analyzeCurrentFrame(i, TRUE))
  BY <1>4, <1>5, <1>6, SameProcess
<1> QED BY <1>3, <1>8, <1>9, GoodNow, HandledKeeps DEF Posted

LEMMA StartedKeeps ==
  ASSUME GuidanceInv, Started
  PROVE  GuidanceInv'
<1> DEFINE u == [session EXCEPT !.timers = @ \ {"startup"}, !.started = TRUE]
           t == writeRequest(u, session.request)
<1>1. /\ session.process /\ worker.signal /\ session \in Sessions /\ worker \in Processes
      /\ CurrentIn(session) /\ CountedIn(session)
      /\ streaming' = streaming /\ faults' = faults
  BY GoodNow DEF Started, GoodSession
<1>2. worker.stage # "starting"
  BY <1>1 DEF GuidanceInv, IdleIn
<1>3. CASE session.ignoring
  <2>1. session' = session /\ worker' = [worker EXCEPT !.signal = FALSE]
    BY <1>3 DEF Started
  <2>2. worker' \in Processes
    BY <1>1, <2>1 DEF Processes
  <2>3. /\ worker'.stage = worker.stage /\ worker'.requests = worker.requests
        /\ worker'.out = worker.out
    BY <1>1, <2>1 DEF Processes
  <2>4. IdleIn(session, worker)' /\ OneRequest(worker)'
    BY <1>2, <1>3, <2>1, <2>3 DEF GuidanceInv, IdleIn, OneRequest, Resting
  <2> QED BY <1>1, <2>1, <2>2, <2>4
       DEF GuidanceInv, Typed, CurrentIn, CountedIn, resultAvailable
<1>4. CASE ~session.ignoring
  <2>1. ~session.started /\ session.inFlight /\ Resting(worker)
    BY <1>1, <1>4 DEF GuidanceInv, IdleIn
  <2>2. u \in Sessions
    BY <1>1 DEF Sessions
  <2>3. /\ u.process /\ u.started /\ u.gen = session.gen /\ u.inFlight = session.inFlight
        /\ u.request = session.request /\ u.ignoring = session.ignoring
        /\ u.mode = session.mode /\ u.errors = session.errors
    BY <1>1 DEF Sessions
  <2> HIDE DEF u
  <2>4. session.request \in Generations
    BY <1>1 DEF CountedIn
  <2>5. /\ t \in Sessions /\ t.state = "Analyzing" /\ t.sent = session.request
        /\ t.pending = None /\ t.gen = u.gen /\ t.inFlight = u.inFlight
        /\ t.process = u.process /\ t.request = u.request
        /\ t.ignoring = u.ignoring /\ t.started = u.started
        /\ t.mode = u.mode /\ t.errors = u.errors
    BY <2>2, <2>3, <2>4, WriteRequestIs
  <2>6. /\ session' = t
        /\ worker' = [[worker EXCEPT !.signal = FALSE] EXCEPT
                         !.requests = Append(@, t.sent), !.closed = ~t.mode]
    BY <1>4 DEF Started, u
  <2> HIDE DEF t
  <2>7. CurrentIn(t) /\ CountedIn(t)
    BY <1>1, <1>4, <2>3, <2>5 DEF CurrentIn, CountedIn, resultAvailable
  <2> DEFINE q == Append(worker.requests, t.sent)
             b == ~t.mode
  <2>8. q \in Seq(Generations) /\ Len(q) = 1 /\ b \in BOOLEAN
    BY <1>1, <2>1, <2>4, <2>5 DEF Resting, Processes
  <2>9. worker' = [worker EXCEPT !.signal = FALSE, !.requests = q, !.closed = b]
    BY <1>1, <2>6 DEF Processes
  <2> HIDE DEF q, b
  <2>10. worker' \in Processes
    BY <1>1, <2>8, <2>9 DEF Processes
  <2>11. /\ worker'.requests = q /\ worker'.out = worker.out
         /\ worker'.stage = worker.stage /\ ~worker'.signal
    BY <1>1, <2>9 DEF Processes
  <2>12. OneRequest(worker)'
    BY <2>1, <2>8, <2>11 DEF OneRequest, Resting
  <2>13. IdleIn(session, worker)'
    BY <1>2, <2>1, <2>3, <2>5, <2>6, <2>11 DEF IdleIn
  <2> QED BY <1>1, <2>5, <2>6, <2>7, <2>10, <2>12, <2>13, GoodNow
       DEF GuidanceInv, Typed, CurrentIn, CountedIn, resultAvailable
<1> QED BY <1>3, <1>4

(* The process is gone, or no signal of it is heard any more. *)
LEMMA WithoutWorkerKeeps ==
  ASSUME GuidanceInv, GoodSession(session'), worker' = NoWorker,
         ~session'.process \/ session'.ignoring,
         streaming' = streaming, faults' \in 0..MaxFaults
  PROVE  GuidanceInv'
<1>1. streaming' \in BOOLEAN
  BY GoodNow
<1>2. session' \in Sessions /\ CurrentIn(session)' /\ CountedIn(session)'
  BY DEF GoodSession, CurrentIn, CountedIn, resultAvailable
<1> QED BY <1>1, <1>2, NoWorkerIs DEF GuidanceInv, Typed, OneRequest, IdleIn, Resting

LEMMA WithoutProcess ==
  ASSUME NEW s \in Sessions
  PROVE  [s EXCEPT !.process = FALSE] \in Sessions /\ ~[s EXCEPT !.process = FALSE].process
<1>1. [s EXCEPT !.process = FALSE] \in Sessions
  BY Zenon DEF Sessions
<1>2. ~[s EXCEPT !.process = FALSE].process
  BY DEF Sessions
<1> QED BY <1>1, <1>2, Zenon

LEMMA FailedToStartKeeps ==
  ASSUME GuidanceInv, FailedToStart
  PROVE  GuidanceInv'
<1>1. worker' = NoWorker /\ streaming' = streaming /\ faults' \in 0..MaxFaults
  BY GoodNow, GuidanceAssumption DEF FailedToStart
<1>2. CASE session.ignoring
  BY <1>1, <1>2, GoodNow, WithoutWorkerKeeps DEF FailedToStart
<1>3. CASE ~session.ignoring
  <2> DEFINE u == [session EXCEPT !.process = FALSE]
  <2>1. u \in Sessions /\ ~u.process
    <3>1. session \in Sessions
      BY GoodNow
    <3> QED BY <3>1, WithoutProcess, Zenon
  <2>2. session' = fail(u)
    BY <1>3 DEF FailedToStart
  <2> HIDE DEF u
  <2>3. GoodSession(session') /\ session'.ignoring
    BY <2>1, <2>2, FailDoes DEF Does
  <2> QED BY <1>1, <2>3, WithoutWorkerKeeps
<1> QED BY <1>2, <1>3

LEMMA ReadyReadKeeps ==
  ASSUME GuidanceInv, ReadyRead
  PROVE  GuidanceInv'
<1> DEFINE q == Tail(worker.out)
           t == readResponse(session, Head(worker.out))
<1>1. /\ session.process /\ worker.out # << >> /\ session' = t
      /\ worker' = [worker EXCEPT !.out = q]
      /\ streaming' = streaming /\ faults' = faults
  BY DEF ReadyRead
<1>2. worker \in Processes /\ worker.out \in Seq(Replies)
  BY GoodNow DEF Processes
<1>3. q \in Seq(Replies) /\ Head(worker.out) \in Replies
  BY <1>1, <1>2
<1>4. /\ worker.requests = << >> /\ Len(worker.out) = 1
      /\ worker.stage \notin {"eof", "factory", "process", "write"}
  BY <1>1, <1>2 DEF GuidanceInv, OneRequest, Resting
<1>5. q = << >>
  <2>1. Len(q) = 0
    BY <1>1, <1>2, <1>4
  <2> HIDE DEF q
  <2> QED BY <1>3, <2>1
<1>6. Reads(session, t)
  BY <1>3, GoodNow, ReadResponseReads
<1> HIDE DEF q, t
<1>7. worker' \in Processes
  BY <1>1, <1>2, <1>3 DEF Processes
<1>8. /\ worker'.out = q /\ worker'.requests = worker.requests
      /\ worker'.stage = worker.stage /\ worker'.signal = worker.signal
  BY <1>1, <1>2 DEF Processes
<1>9. Resting(worker')
  BY <1>4, <1>5, <1>8 DEF Resting
<1>10. session.ignoring \/ session.started
  BY <1>1 DEF GuidanceInv, IdleIn, Resting
<1>11. IdleIn(session, worker)'
  BY <1>1, <1>6, <1>8, <1>9, <1>10, GoodNow
     DEF GuidanceInv, IdleIn, Reads, GoodSession, Sessions, Resting
<1>12. session' \in Sessions /\ CurrentIn(session)' /\ CountedIn(session)'
  BY <1>1, <1>6 DEF Reads, GoodSession, CurrentIn, CountedIn, resultAvailable
<1> QED BY <1>1, <1>7, <1>9, <1>11, <1>12, GoodNow DEF GuidanceInv, Typed, OneRequest, Resting

LEMMA FinishedGuidance ==
  ASSUME GuidanceInv, Finished
  PROVE  GuidanceInv'
<1>1. /\ session' = processFinished(session, worker.stage = "exited")
      /\ worker' = NoWorker /\ streaming' = streaming /\ faults' = faults
  BY DEF Finished
<1>2. (worker.stage = "exited") \in BOOLEAN
  OBVIOUS
<1>3. GoodSession(session') /\ ~session'.process
  BY <1>1, <1>2, GoodNow, FinishedKeeps
<1> QED BY <1>1, <1>3, GoodNow, WithoutWorkerKeeps

(* A step of the process: the session stands still, the process has as     *)
(* much to do as before, or less when it dies, and signals its start.      *)
LEMMA WorkerKeeps ==
  ASSUME GuidanceInv, session' = session, streaming' = streaming, faults' \in 0..MaxFaults,
         worker' \in Processes, OneRequest(worker'), Resting(worker) => Resting(worker'),
         worker'.stage # "starting",
         worker'.signal => worker.signal \/ worker.stage = "starting"
  PROVE  GuidanceInv'
<1>1. IdleIn(session, worker)'
  BY DEF GuidanceInv, IdleIn, Resting
<1>2. CurrentIn(session)' /\ CountedIn(session)' /\ OneRequest(worker)'
  BY DEF GuidanceInv, CurrentIn, CountedIn, resultAvailable, OneRequest, Resting
<1> QED BY <1>1, <1>2, GoodNow DEF GuidanceInv, Typed

LEMMA WorkerStartsKeeps ==
  ASSUME GuidanceInv, WorkerStarts
  PROVE  GuidanceInv'
<1>1. /\ worker.stage = "starting"
      /\ worker' = [worker EXCEPT !.stage = "read", !.signal = TRUE]
      /\ session' = session /\ streaming' = streaming /\ faults' = faults
  BY DEF WorkerStarts, Worker
<1>2. worker' \in Processes
  BY <1>1, GoodNow DEF Processes
<1>3. /\ worker'.stage = "read" /\ worker'.requests = worker.requests
      /\ worker'.out = worker.out
  BY <1>1, GoodNow DEF Processes
<1>4. OneRequest(worker') /\ (Resting(worker) => Resting(worker'))
  BY <1>1, <1>3 DEF GuidanceInv, OneRequest, Resting
<1> QED BY <1>1, <1>2, <1>3, <1>4, GoodNow, WorkerKeeps

LEMMA ReadRequestKeeps ==
  ASSUME GuidanceInv, ReadRequest
  PROVE  GuidanceInv'
<1> DEFINE q == Tail(worker.requests)
           g == Head(worker.requests)
           point == IF ~worker.session THEN "eof"
                    ELSE IF worker.provider THEN "process" ELSE "factory"
<1>1. /\ worker.stage = "read" /\ worker.requests # << >>
      /\ worker' = [worker EXCEPT !.requests = q, !.reply.gen = g, !.stage = point]
      /\ session' = session /\ streaming' = streaming /\ faults' = faults
  BY DEF ReadRequest, Worker
<1>2. worker \in Processes /\ worker.requests \in Seq(Generations) /\ worker.reply \in Replies
  BY GoodNow DEF Processes
<1>3. q \in Seq(Generations) /\ g \in Generations /\ point \in {"eof", "process", "factory"}
  BY <1>1, <1>2
<1>4. Len(worker.requests) = 1 /\ worker.out = << >>
  BY <1>1, <1>2 DEF GuidanceInv, OneRequest, Resting
<1>5. q = << >>
  <2>1. Len(q) = 0
    BY <1>1, <1>2, <1>4
  <2> HIDE DEF q
  <2> QED BY <1>3, <2>1
<1> HIDE DEF q, g, point
<1>6. [worker.reply EXCEPT !.gen = g] \in Replies
  BY <1>2, <1>3 DEF Replies
<1> DEFINE answer == [worker.reply EXCEPT !.gen = g]
<1>7. worker' = [worker EXCEPT !.requests = q, !.reply = answer, !.stage = point]
  BY <1>1, <1>2 DEF Processes
<1> HIDE DEF answer
<1>8. worker' \in Processes
  BY <1>2, <1>3, <1>6, <1>7 DEF Processes, answer
<1>9. /\ worker'.stage = point /\ worker'.requests = q /\ worker'.out = worker.out
      /\ worker'.signal = worker.signal
  BY <1>2, <1>7 DEF Processes
<1>10. OneRequest(worker') /\ ~Resting(worker)
  BY <1>1, <1>3, <1>4, <1>5, <1>9 DEF OneRequest, Resting
<1> QED BY <1>1, <1>3, <1>8, <1>9, <1>10, GoodNow, WorkerKeeps

(* Between its request and its answer the process works on it. *)
LEMMA WorkingKeeps ==
  ASSUME GuidanceInv, NEW point \in {"factory", "process", "write"},
         worker.stage \in {"eof", "factory", "process"},
         worker' \in Processes, worker'.stage = point, worker'.requests = worker.requests,
         worker'.out = worker.out, worker'.signal = worker.signal,
         session' = session, streaming' = streaming, faults' = faults
  PROVE  GuidanceInv'
<1>1. OneRequest(worker') /\ ~Resting(worker)
  BY DEF GuidanceInv, OneRequest, Resting
<1> QED BY <1>1, GoodNow, WorkerKeeps

LEMMA AnswerKind ==
  ASSUME NEW w \in Processes, NEW kind \in {"analysis", "recoverable", "fatal"}
  PROVE  LET v == [w EXCEPT !.stage = "write", !.reply.kind = kind]
         IN  /\ v \in Processes /\ v.stage = "write" /\ v.requests = w.requests
             /\ v.out = w.out /\ v.signal = w.signal
<1> DEFINE v == [w EXCEPT !.stage = "write", !.reply.kind = kind]
           answer == [w.reply EXCEPT !.kind = kind]
<1>1. answer \in Replies
  BY DEF Processes, Replies
<1>2. v = [w EXCEPT !.stage = "write", !.reply = answer]
  BY DEF Processes
<1> HIDE DEF answer
<1>3. v \in Processes
  BY <1>1, <1>2 DEF Processes
<1>4. v.stage = "write" /\ v.requests = w.requests /\ v.out = w.out /\ v.signal = w.signal
  BY <1>2 DEF Processes
<1> QED BY <1>3, <1>4

LEMMA WorksKeeps ==
  ASSUME GuidanceInv, require_eof \/ initialize_provider \/ process_request
  PROVE  GuidanceInv'
<1>1. worker \in Processes
  BY GoodNow
<1>2. CASE require_eof
  <2>1. /\ worker.stage = "eof" /\ worker' = [worker EXCEPT !.stage = "factory"]
        /\ session' = session /\ streaming' = streaming /\ faults' = faults
    BY <1>2 DEF require_eof, Worker
  <2>2. worker' \in Processes
    BY <1>1, <2>1 DEF Processes
  <2>3. /\ worker'.stage = "factory" /\ worker'.requests = worker.requests
        /\ worker'.out = worker.out /\ worker'.signal = worker.signal
    BY <1>1, <2>1 DEF Processes
  <2> QED BY <2>1, <2>2, <2>3, WorkingKeeps
<1>3. CASE Worker("factory", [worker EXCEPT !.stage = "process", !.provider = TRUE])
  <2>1. /\ worker.stage = "factory"
        /\ worker' = [worker EXCEPT !.stage = "process", !.provider = TRUE]
        /\ session' = session /\ streaming' = streaming /\ faults' = faults
    BY <1>3 DEF Worker
  <2>2. worker' \in Processes
    BY <1>1, <2>1 DEF Processes
  <2>3. /\ worker'.stage = "process" /\ worker'.requests = worker.requests
        /\ worker'.out = worker.out /\ worker'.signal = worker.signal
    BY <1>1, <2>1 DEF Processes
  <2> QED BY <2>1, <2>2, <2>3, WorkingKeeps
<1>4. CASE \E stage \in {"factory", "process"}, kind \in {"analysis", "recoverable", "fatal"} :
              Worker(stage, [worker EXCEPT !.stage = "write", !.reply.kind = kind])
  <2>1. PICK stage \in {"factory", "process"}, kind \in {"analysis", "recoverable", "fatal"} :
              Worker(stage, [worker EXCEPT !.stage = "write", !.reply.kind = kind])
    BY <1>4
  <2>2. /\ worker.stage \in {"factory", "process"}
        /\ worker' = [worker EXCEPT !.stage = "write", !.reply.kind = kind]
        /\ session' = session /\ streaming' = streaming /\ faults' = faults
    BY <2>1 DEF Worker
  <2>3. /\ worker' \in Processes /\ worker'.stage = "write"
        /\ worker'.requests = worker.requests /\ worker'.out = worker.out
        /\ worker'.signal = worker.signal
    BY <1>1, <2>1, <2>2, AnswerKind
  <2> QED BY <2>2, <2>3, WorkingKeeps
<1> QED BY <1>2, <1>3, <1>4 DEF initialize_provider, process_request

LEMMA WriteReplyKeeps ==
  ASSUME GuidanceInv, WriteReply
  PROVE  GuidanceInv'
<1> DEFINE q == Append(worker.out, worker.reply)
           point == IF worker.session /\ worker.provider THEN "read" ELSE "exited"
<1>1. /\ worker.stage = "write" /\ worker' = [worker EXCEPT !.out = q, !.stage = point]
      /\ session' = session /\ streaming' = streaming /\ faults' = faults
  BY DEF WriteReply, Worker
<1>2. worker \in Processes /\ worker.out \in Seq(Replies) /\ worker.reply \in Replies
  BY GoodNow DEF Processes
<1>3. worker.requests = << >> /\ worker.out = << >> /\ ~Resting(worker)
  BY <1>1, <1>2 DEF GuidanceInv, OneRequest, Resting
<1>4. q \in Seq(Replies) /\ Len(q) = 1 /\ point \in {"read", "exited"}
  BY <1>2, <1>3
<1> HIDE DEF q, point
<1>5. worker' \in Processes
  <2>1. [worker EXCEPT !.out = q] \in Processes
    BY <1>2, <1>4 DEF Processes
  <2>2. worker' = [[worker EXCEPT !.out = q] EXCEPT !.stage = point]
    BY <1>1, <1>2 DEF Processes
  <2> DEFINE v == [worker EXCEPT !.out = q]
  <2> HIDE DEF v
  <2>3. v \in Processes /\ worker' = [v EXCEPT !.stage = point]
    BY <2>1, <2>2 DEF v
  <2> QED BY <1>4, <2>3 DEF Processes
<1>6. /\ worker'.stage = point /\ worker'.requests = worker.requests /\ worker'.out = q
      /\ worker'.signal = worker.signal
  BY <1>1, <1>2 DEF Processes
<1>7. OneRequest(worker')
  BY <1>3, <1>4, <1>6 DEF OneRequest
<1> QED BY <1>1, <1>3, <1>4, <1>5, <1>6, <1>7, GoodNow, WorkerKeeps

LEMMA DiesKeeps ==
  ASSUME GuidanceInv, Dies
  PROVE  GuidanceInv'
<1>1. /\ worker' = [worker EXCEPT !.stage = "dead"]
      /\ session' = session /\ streaming' = streaming /\ faults' \in 0..MaxFaults
  BY GoodNow, GuidanceAssumption DEF Dies
<1>2. worker' \in Processes
  BY <1>1, GoodNow DEF Processes
<1>3. /\ worker'.stage = "dead" /\ worker'.requests = worker.requests
      /\ worker'.out = worker.out /\ worker'.signal = worker.signal
  BY <1>1, GoodNow DEF Processes
<1>4. OneRequest(worker') /\ (Resting(worker) => Resting(worker'))
  BY <1>3 DEF GuidanceInv, OneRequest, Resting
<1> QED BY <1>1, <1>2, <1>3, <1>4, WorkerKeeps

LEMMA NextGuidance ==
  ASSUME GuidanceInv, [Next]_vars
  PROVE  GuidanceInv'
<1>1. CASE UNCHANGED vars
  BY <1>1, GoodNow, SameKeeps DEF vars
<1>2. CASE Next
  <2>1. CASE Signals
    BY <2>1, StartedKeeps, ReadyReadKeeps, FinishedGuidance, PostedKeeps DEF Signals
  <2>2. CASE WorkerRuns
    BY <2>2, WorkerStartsKeeps, ReadRequestKeeps, WorksKeeps, WriteReplyKeeps DEF WorkerRuns
  <2> QED BY <1>2, <2>1, <2>2, AnalyzeClickedKeeps, SetTrackingKeeps, CameraChangesKeeps,
             TickKeeps, TimerFiresKeeps, FailedToStartKeeps, DiesKeeps DEF Next
<1> QED BY <1>1, <1>2

LEMMA GuidanceInvSuffices == GuidanceInv => TypeOK /\ ShownIsCurrent
<1> SUFFICES ASSUME GuidanceInv
             PROVE  TypeOK /\ ShownIsCurrent
  OBVIOUS
<1>1. TypeOK
  BY GoodNow DEF TypeOK, Sessions, Processes
<1>2. ResultIsCurrent
  BY DEF GuidanceInv, CurrentIn, ResultIsCurrent
<1>3. OneRequestActive
  <2>1. worker.requests \in Seq(Generations) /\ worker.out \in Seq(Replies)
    BY GoodNow DEF Processes
  <2> DEFINE active == worker.stage \in {"eof", "factory", "process", "write"}
             a == Len(worker.requests)
             b == Len(worker.out)
  <2>2. (a = 0 /\ b = 0) \/ (a = 1 /\ b = 0 /\ ~active) \/ (a = 0 /\ b = 1 /\ ~active)
    BY <2>1 DEF GuidanceInv, OneRequest, Resting
  <2> HIDE DEF a, b
  <2>3. a + b + (IF active THEN 1 ELSE 0) <= 1
    BY <2>2
  <2> QED BY <2>3, Zenon DEF OneRequestActive, a, b
<1> QED BY <1>1, <1>2, <1>3 DEF ShownIsCurrent

(* For any number of requests, faults and cancellations: what is shown as  *)
(* available answers the last request, the process never has two requests  *)
(* (VisionAnalysisSession: analyzeCurrentFrame, writeRequest, readResponse,*)
(* processFinished), and every member keeps its type.                      *)
THEOREM GuidanceCurrent == Spec => [](TypeOK /\ ShownIsCurrent)
<1>1. Init => GuidanceInv
  BY InitGuidance
<1>2. GuidanceInv /\ [Next]_vars => GuidanceInv'
  BY NextGuidance
<1>3. GuidanceInv => TypeOK /\ ShownIsCurrent
  BY GuidanceInvSuffices
<1> QED BY <1>1, <1>2, <1>3, PTL DEF Spec
====
