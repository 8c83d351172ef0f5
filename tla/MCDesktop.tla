------------------------------ MODULE MCDesktop -------------------------------
(***************************************************************************)
(* What the settings module does on the desktop, for TLC: a frame on its   *)
(* way through the vision worker, the camera preview, and enrolment with   *)
(* verification.                                                           *)
(*                                                                         *)
(* The specifications share no variable, so what one of them does is the   *)
(* same whatever the others do.  A behaviour moves the one that part names *)
(* and leaves the others in an initial state.                              *)
(***************************************************************************)
EXTENDS VisionFrame

CONSTANTS None, c1, c2

VARIABLES
    part,
    view, plugged, chosen, asked, inputs, frames,
    enrolment, eInputs, applied

-----------------------------------------------------------------------------
(* Requests: any header, any geometry.  Strides and heights go up to an    *)
(* overflow, lengths lie on both sides of the product.                     *)
Good ==
    [header |-> "full", version |-> 2, op |-> 1, format |-> 3, generation |-> 1,
     timeout |-> 1, width |-> 1, height |-> 1, stride |-> 1, length |-> 1]

AnyHeader ==
    {[Good EXCEPT !.header = h, !.version = v, !.op = o, !.format = f, !.generation = g,
                  !.timeout = t] :
        h \in {"none", "part", "full"}, v \in 1..2, o \in 1..2, f \in {0, 3, 4}, g \in 0..2,
        t \in 0..3}

AnyGeometry ==
    {[Good EXCEPT !.format = f, !.width = w, !.height = h, !.stride = s, !.length = n] :
        f \in 1..3, w \in 0..(MAX_WIDTH + 1), h \in 0..(MAX_HEIGHT + 1), s \in 0..(Word - 1),
        n \in 0..MAX_FRAME_BYTES}

HeadersAndGeometries == AnyHeader \cup AnyGeometry

(* Rows of the detector, for the instance above: a face, one below the     *)
(* threshold.                                                              *)
Row == [finite |-> TRUE, score |-> "accepted", x |-> 0, y |-> 0, w |-> 2, h |-> 2,
        lx |-> 0, ly |-> 0]

FewRows == {Row, [Row EXCEPT !.score = "low"]}

(* Any row, on gray frames.  One axis at a time: they are treated alike    *)
(* and apart.                                                              *)
AnyRow ==
    {[Row EXCEPT !.x = a, !.w = b, !.lx = c] : a \in -2..5, b \in -1..5, c \in -1..5}
        \cup {[Row EXCEPT !.y = a, !.h = b, !.ly = c] : a \in -2..5, b \in -1..5, c \in -1..5}
        \cup {[Row EXCEPT !.finite = FALSE], [Row EXCEPT !.score = "low"]}

GrayFrames ==
    {[Good EXCEPT !.width = w, !.height = 2, !.stride = w, !.length = 2 * w] : w \in 1..2}

Rows == INSTANCE VisionFrame WITH
    Requests <- GrayFrames, Byte <- {60}, Detections <- AnyRow,
    MAX_FACES <- 1, YUNET_TOP_K <- 1

-----------------------------------------------------------------------------
(* One camera with a frame, and two cameras without.                       *)
Preview == INSTANCE CameraPreview WITH
    Cameras <- {c1}, PipeSize <- 2, MaxInputs <- 5, MaxFrames <- 1, s <- view

Cameras == INSTANCE CameraPreview WITH
    Cameras <- {c1, c2}, PipeSize <- 2, MaxInputs <- 5, MaxFrames <- 0, s <- view

Enrol == INSTANCE Enrollment WITH
    MINIMUM_SAMPLES <- 1, MAXIMUM_SAMPLES <- 2, MaxInputs <- 5,
    Profiles <- {[vault |-> None, entry |-> None, sys |-> FALSE],
                 [vault |-> 0, entry |-> 0, sys |-> FALSE],
                 [vault |-> 0, entry |-> 0, sys |-> TRUE]},
    s <- enrolment, inputs <- eInputs

-----------------------------------------------------------------------------
previewVars == <<view, plugged, chosen, asked, inputs, frames>>
enrolVars == <<enrolment, eInputs, applied>>

Start ==
    /\ part \in {"pixels", "rows", "preview", "cameras", "enrolment"}
    /\ Init /\ (part = "rows" => request \in GrayFrames)
    /\ part \notin {"pixels", "rows"} => request = Good
    /\ IF part = "cameras" THEN Cameras!Init ELSE Preview!Init
    /\ Enrol!Init /\ (part # "enrolment" => enrolment.vault = None)

Move ==
    \/ part = "pixels" /\ Next /\ UNCHANGED <<part, previewVars, enrolVars>>
    \/ part = "rows" /\ Rows!Next /\ UNCHANGED <<part, previewVars, enrolVars>>
    \/ part = "preview" /\ Preview!Next /\ UNCHANGED <<part, vars, enrolVars>>
    \/ part = "cameras" /\ Cameras!Next /\ UNCHANGED <<part, vars, enrolVars>>
    \/ part = "enrolment" /\ Enrol!Next /\ UNCHANGED <<part, vars, previewVars>>

Desktop == Start /\ [][Move]_<<part, vars, previewVars, enrolVars>>

-----------------------------------------------------------------------------
(* The properties.  A conjunct is a statement of the component's module,   *)
(* where its comment explains it.                                          *)

(* What the vision worker answers is right: the detector gets the picture  *)
(* and nothing else, the quality is that of its pixels, a frame that is    *)
(* late is not analysed, an error names its request, rows once validated   *)
(* never fail later, and the parent's stricter parser accepts every        *)
(* analysis (VisionFrame).                                                 *)
AnswersRight ==
    /\ Converted /\ QualityOfPixels /\ LateIsNotAnalysed
    /\ ErrorsNameRequest /\ ValidatedIsValid /\ AnswersAccepted

(* What CameraPreviewSession shows is what PreviewWorker does: with        *)
(* nothing under way they agree on the preview and its budget, the camera  *)
(* that runs is the one that was selected at the start although rows move  *)
(* and cameras are exchanged, and no frame outlives the preview.           *)
PreviewAgrees == Preview!Agreement /\ Preview!StartedIsSelected /\ Preview!FrameCleared

(* One operation at a time: EnrollmentSession::handleResponse ends no      *)
(* operation with the late answer of a worker that was cancelled, replaced *)
(* or timed out, and the flag that keeps privileged operations apart is up *)
(* exactly while one is under way.                                         *)
OneOperation == Enrol!AnswerIsAwaited /\ Enrol!BusyIsOperation

(* A worker changes the local profile only after revokeSystemProfileThen,  *)
(* with its key in the wallet (finishAndSave), and only for what was asked *)
(* for since the last cancel, however late the revocation ends.            *)
ChangesOrdered ==
    [][Enrol!RevokedFirst' /\ Enrol!KeyStoredFirst' /\ Enrol!StartedAsAsked]_enrolVars

(* The key that cancel and fail take back is "still unused": a committed   *)
(* profile keeps the key that opens it (Enrollment).                       *)
CommittedReadable == Enrol!CommittedReadable
====
