------------------------------ MODULE VisionFrame ------------------------------
(***************************************************************************)
(* One frame on its way through the vision worker: parse_request and       *)
(* ImageView::new, the two passes over the pixels (calculate_quality and   *)
(* convert_to_bgr), the detector's raw output and its validation, the      *)
(* answer, and the parent's parseResponse on the other side.               *)
(*                                                                         *)
(* The detector itself is external: any output it may return is a choice.  *)
(* Its coordinates are floats, here whole numbers of halves of a pixel.    *)
(* Nothing of a request outlives its answer, so one request is one         *)
(* behaviour.                                                              *)
(***************************************************************************)
EXTENDS Integers, Sequences, FiniteSetsExt

CONSTANTS
    MAX_WIDTH, MAX_HEIGHT, MAX_FRAME_BYTES, MAX_FACES, MAX_TIMEOUT_MS,
    YUNET_MINIMUM_RUNTIME_DIMENSION, YUNET_TOP_K,
    Word,          \* u32 values are 0..Word-1
    Requests,      \* the payloads that arrive
    Byte,          \* the values of the bytes of a frame
    Detections     \* what the detector may return

ASSUME BoundsAreNatural ==
    /\ {MAX_WIDTH, MAX_HEIGHT, MAX_FRAME_BYTES, MAX_FACES, MAX_TIMEOUT_MS, YUNET_TOP_K,
        Word} \subseteq Nat
    /\ YUNET_MINIMUM_RUNTIME_DIMENSION \in Nat

(* A payload: how much of the header there is ("none" without the          *)
(* generation, "part", "full"), its fields and the length of the rest.     *)
ASSUME RequestsAreTyped ==
    Requests \subseteq [header : {"none", "part", "full"}, version : Nat, op : Nat,
        format : Nat, generation : Nat, timeout : Nat, width : Nat, height : Nat,
        stride : Nat, length : Nat]

ASSUME BytesAreBytes == Byte \subseteq 0..255

VARIABLES
    stage,      \* "parse", "quality", "convert", "detect", "validate", "answer", "done"
    request, bytes,
    x, y,       \* the pixel a pass has reached
    quality,    \* the sums of calculate_quality
    output,     \* the BGR buffer
    detected, faces,
    late,       \* the stage in which the deadline passed, or "no"
    reply

Stages == {"parse", "quality", "convert", "detect", "validate", "answer", "done"}

vars == <<stage, request, bytes, x, y, quality, output, detected, faces, late, reply>>

NoReply == [kind |-> "none", generation |-> 0, code |-> "none", faces |-> << >>, flags |-> {}]
NoSums == [sum |-> 0, minimum |-> 255, maximum |-> 0, difference |-> 0, count |-> 0,
           previous |-> 0]

bytes_per_pixel(format) == CASE format = 1 -> 3 [] format = 2 -> 4 [] OTHER -> 1

Larger(a, b) == IF a < b THEN b ELSE a

runtime_width(r) == Larger(r.width, YUNET_MINIMUM_RUNTIME_DIMENSION)

runtime_height(r) == Larger(r.height, YUNET_MINIMUM_RUNTIME_DIMENSION)

OutputSize(r) == runtime_width(r) * runtime_height(r) * 3

Init ==
    /\ stage = "parse" /\ request \in Requests /\ bytes = << >>
    /\ x = 0 /\ y = 0 /\ quality = NoSums /\ output = << >>
    /\ detected = 0 /\ faces = << >> /\ late = "no" /\ reply = NoReply

-----------------------------------------------------------------------------
(* ImageView::new, "ok" or an ImageError. *)
(* Mutant: the size of the frame is computed with wrapping arithmetic. *)
ImageView_wrapping(r) ==
    IF r.width = 0 \/ r.height = 0 \/ r.width > MAX_WIDTH \/ r.height > MAX_HEIGHT
    THEN "InvalidDimensions"
    ELSE IF r.stride < r.width * bytes_per_pixel(r.format) THEN "InvalidStride"
    ELSE IF (r.stride * r.height) % Word > MAX_FRAME_BYTES THEN "InvalidFrameSize"
    ELSE IF r.length # (r.stride * r.height) % Word THEN "InvalidFrameSize" ELSE "ok"

(* The errors as map_image_error reports them; a product that does not fit *)
(* a u32 is an overflow.                                                   *)
ImageView_new(r) ==
    IF r.width = 0 \/ r.height = 0 \/ r.width > MAX_WIDTH \/ r.height > MAX_HEIGHT
    THEN "InvalidDimensions"
    ELSE IF r.width * bytes_per_pixel(r.format) >= Word THEN "InvalidFrameSize"
    ELSE IF r.stride < r.width * bytes_per_pixel(r.format) THEN "InvalidStride"
    ELSE IF r.stride * r.height >= Word THEN "InvalidFrameSize"
    ELSE IF r.stride * r.height > MAX_FRAME_BYTES THEN "InvalidFrameSize"
    ELSE IF r.length # r.stride * r.height THEN "InvalidFrameSize" ELSE "ok"

RequestGeneration(r) == IF r.header = "none" THEN 0 ELSE r.generation

parse_request(r) ==
    CASE r.header # "full" -> "InvalidRequest"
      [] OTHER ->
         IF r.version # 2 THEN "UnsupportedVersion"
         ELSE IF r.generation = 0 THEN "InvalidRequest"
         ELSE IF r.op # 1 THEN "UnsupportedOperation"
         ELSE IF r.format \notin 1..3 THEN "UnsupportedPixelFormat"
         ELSE IF r.timeout \notin 1..MAX_TIMEOUT_MS THEN "InvalidTimeout"
         ELSE ImageView_new(r)

(* Mutant: an error is always the answer to request 0. *)
encode_error_unnamed(code) ==
    [NoReply EXCEPT !.kind = "error", !.code = code]

encode_error(code) ==
    [NoReply EXCEPT !.kind = "error", !.code = code,
                    !.generation = RequestGeneration(request)]

(* The stage fails: its error is the answer. *)
Fails(code) ==
    /\ stage' = "done" /\ reply' = encode_error(code)
    /\ UNCHANGED <<request, bytes, x, y, quality, output, detected, faces, late>>

(* The frame's bytes are any. *)
Parse ==
    /\ stage = "parse"
    /\ IF parse_request(request) # "ok" THEN Fails(parse_request(request))
       ELSE /\ stage' = "quality" /\ bytes' \in [0..(request.length - 1) -> Byte]
            /\ UNCHANGED <<request, x, y, quality, output, detected, faces, late, reply>>

DeadlinePasses ==
    /\ stage \in {"quality", "convert", "detect", "validate", "answer"} 
    /\ late = "no" /\ late' = stage
    /\ UNCHANGED <<stage, request, bytes, x, y, quality, output, detected, faces, reply>>

(* Mutant: the deadline is never looked at. *)
check_never == TRUE

(* ProcessingControl::check.  Nothing cancels the worker's token. *)
check == late = "no"

-----------------------------------------------------------------------------
(* The passes over the pixels: a check at the start of every row and one   *)
(* at the end of calculate_quality.                                        *)
Offset == y * request.stride + x * bytes_per_pixel(request.format)

Target == y * runtime_width(request) * 3 + x * 3

pixel_luma(format, at) ==
    IF format = 3 THEN bytes[at]
    ELSE (bytes[at] * 77 + bytes[at + 1] * 150 + bytes[at + 2] * 29) \div 256

NextPixel ==
    IF x + 1 < request.width THEN x' = x + 1 /\ y' = y ELSE x' = 0 /\ y' = y + 1

LastPixel == x + 1 = request.width /\ y + 1 = request.height

absdiff(a, b) == IF a < b THEN b - a ELSE a - b

(* Mutant: the first pixel of a row is compared with the last of the row   *)
(* above.                                                                  *)
with_luma_across(q, luma) ==
    [sum |-> q.sum + luma,
     minimum |-> IF luma < q.minimum THEN luma ELSE q.minimum,
     maximum |-> Larger(q.maximum, luma),
     difference |-> q.difference + absdiff(luma, q.previous), count |-> q.count + 1,
     previous |-> luma]

with_luma(q, luma) ==
    [sum |-> q.sum + luma,
     minimum |-> IF luma < q.minimum THEN luma ELSE q.minimum,
     maximum |-> Larger(q.maximum, luma),
     difference |-> q.difference + IF x = 0 THEN 0 ELSE absdiff(luma, q.previous),
     count |-> q.count + IF x = 0 THEN 0 ELSE 1,
     previous |-> luma]

calculate_quality ==
    /\ stage = "quality"
    /\ IF x = 0 /\ ~check THEN Fails("DeadlineExceeded")
       ELSE /\ quality' = with_luma(quality, pixel_luma(request.format, Offset))
            /\ IF LastPixel
               THEN /\ stage' = "convert" /\ x' = 0 /\ y' = 0
                    /\ output' = [i \in 0..(OutputSize(request) - 1) |-> 0]
               ELSE NextPixel /\ UNCHANGED <<stage, output>>
            /\ UNCHANGED <<request, bytes, detected, faces, late, reply>>

(* Mutant: red and blue stay where they are. *)
bgr_swapped(format, at, channel) == IF format = 3 THEN bytes[at] ELSE bytes[at + channel]

bgr(format, at, channel) == IF format = 3 THEN bytes[at] ELSE bytes[at + 2 - channel]

convert_to_bgr ==
    /\ stage = "convert"
    /\ IF x = 0 /\ ~check THEN Fails("DeadlineExceeded")
       ELSE /\ output' = [i \in DOMAIN output |->
                  IF i \in Target..(Target + 2)
                  THEN bgr(request.format, Offset, i - Target) ELSE output[i]]
            /\ IF LastPixel THEN stage' = "detect" /\ UNCHANGED <<x, y>>
               ELSE NextPixel /\ UNCHANGED stage
            /\ UNCHANGED <<request, bytes, quality, detected, faces, late, reply>>

-----------------------------------------------------------------------------
(* The detector returns its rows or fails (map_bridge_error). *)
detect_raw ==
    /\ stage = "detect"
    /\ \/ ~check /\ Fails("DeadlineExceeded")
       \/ check /\ \E code \in {"InvalidRuntimeOutput", "RuntimeFailure"} : Fails(code)
       \/ /\ check /\ stage' = "validate"
          /\ UNCHANGED <<request, bytes, x, y, quality, output, detected, faces, late, reply>>

(* Halves of a pixel, rounded to whole pixels. *)
floor(v) == v \div 2

ceil(v) == (v + 1) \div 2

round(v) == (v + 1) \div 2

clamp(v, low, high) == IF v < low THEN low ELSE IF v > high THEN high ELSE v

(* Mutant: landmarks are kept in the picture, not in their rectangle. *)
landmark_in_picture(v, low, high) == clamp(round(v), 0, request.width - 1)

(* Mutant: landmarks are rounded, not clamped. *)
landmark_rounded(v, low, high) == round(v)

landmark(v, low, high) == clamp(round(v), low, Larger(high - 1, low))

(* validate_detections, for one row: an error or a face. *)
DetectionError(d) ==
    LET w == 2 * request.width
        h == 2 * request.height
    IN  IF ~d.finite \/ d.score # "accepted" \/ d.w <= 0 \/ d.h <= 0
        THEN "InvalidRuntimeOutput"
        ELSE IF d.x < 0 \/ d.y < 0 \/ d.x + d.w > w \/ d.y + d.h > h
        THEN IF /\ d.x + d.w > 0 /\ d.y + d.h > 0 /\ d.x < w /\ d.y < h
                /\ d.w <= w /\ d.h <= h
             THEN "FaceAtEdge" ELSE "InvalidRuntimeOutput"
        ELSE IF \/ d.lx < 0 \/ d.lx >= w \/ d.ly < 0 \/ d.ly >= h
                \/ d.lx < 2 * floor(d.x) \/ d.lx >= 2 * ceil(d.x + d.w)
                \/ d.ly < 2 * floor(d.y) \/ d.ly >= 2 * ceil(d.y + d.h)
        THEN "InvalidRuntimeOutput"
        ELSE "ok"

FaceObservation(d) ==
    LET left == floor(d.x)
        top == floor(d.y)
        right == ceil(d.x + d.w)
        bottom == ceil(d.y + d.h)
    IN  [x |-> left, y |-> top, width |-> right - left, height |-> bottom - top,
         lx |-> landmark(d.lx, left, right), ly |-> landmark(d.ly, top, bottom)]

(* All rows are validated, the first MAX_FACES are kept. *)
validate_detections ==
    /\ stage = "validate"
    /\ \/ \E d \in Detections :
             IF detected = YUNET_TOP_K \/ DetectionError(d) # "ok"
             THEN Fails(IF detected = YUNET_TOP_K THEN "InvalidRuntimeOutput"
                        ELSE DetectionError(d))
             ELSE /\ detected' = detected + 1
                  /\ faces' = IF Len(faces) < MAX_FACES
                              THEN Append(faces, FaceObservation(d)) ELSE faces
                  /\ UNCHANGED <<stage, request, bytes, x, y, quality, output, late, reply>>
       \/ ~check /\ Fails("DeadlineExceeded")
       \/ /\ check /\ stage' = "answer"
          /\ UNCHANGED <<request, bytes, x, y, quality, output, detected, faces, late, reply>>

brightness == quality.sum \div (request.width * request.height)

contrast == quality.maximum - quality.minimum

sharpness == IF quality.count = 0 THEN 0 ELSE quality.difference \div quality.count

flags ==
    {f \in {"dark", "bright", "contrast", "sharpness"} :
        \/ f = "dark" /\ brightness < 20
        \/ f = "bright" /\ brightness > 220
        \/ f = "contrast" /\ contrast < 16
        \/ f = "sharpness" /\ sharpness < 1}

valid_analysis ==
    /\ Len(faces) <= MAX_FACES /\ ~({"dark", "bright"} \subseteq flags)
    /\ \A i \in 1..Len(faces) :
          LET f == faces[i]
          IN  /\ f.width > 0 /\ f.height > 0
              /\ f.x + f.width <= request.width /\ f.y + f.height <= request.height
              /\ f.lx < request.width /\ f.ly < request.height

encode_analysis ==
    [kind |-> "analysis", generation |-> request.generation, code |-> "none",
     faces |-> faces, flags |-> flags]

process_request ==
    /\ stage = "answer"
    /\ IF ~valid_analysis THEN Fails("InvalidRuntimeOutput")
       ELSE /\ stage' = "done" /\ reply' = encode_analysis
            /\ UNCHANGED <<request, bytes, x, y, quality, output, detected, faces, late>>

(* VisionAnalysisSession::parseResponse, for the request it sent. *)
parseResponse(r) ==
    /\ r.generation = request.generation /\ r.kind = "analysis"
    /\ Len(r.faces) <= MAX_FACES /\ ~({"dark", "bright"} \subseteq r.flags)
    /\ \A i \in 1..Len(r.faces) :
          LET f == r.faces[i]
          IN  /\ f.width # 0 /\ f.height # 0
              /\ f.x + f.width <= request.width /\ f.y + f.height <= request.height
              /\ f.lx < request.width /\ f.ly < request.height
              /\ f.lx >= f.x /\ f.ly >= f.y
              /\ f.lx < f.x + f.width /\ f.ly < f.y + f.height

Next ==
    \/ Parse \/ DeadlinePasses \/ calculate_quality \/ convert_to_bgr
    \/ detect_raw \/ validate_detections \/ process_request

Spec == Init /\ [][Next]_vars

-----------------------------------------------------------------------------
Pixels == (0..(request.width - 1)) \X (0..(request.height - 1))

At(p) == p[2] * request.stride + p[1] * bytes_per_pixel(request.format)

TypeOK ==
    /\ stage \in Stages /\ x \in Nat /\ y \in Nat /\ late \in Stages \cup {"no"}
    /\ detected \in 0..YUNET_TOP_K
    /\ quality.sum \in Nat /\ quality.count \in Nat

(* "checked geometry and exact length": both passes read three bytes (one  *)
(* for gray) at the offset of the pixel they have reached and write three  *)
(* at its place in the buffer, and never beyond either end, where the code *)
(* would panic.                                                            *)
PixelsInside ==
    /\ stage \in {"quality", "convert"} =>
          Offset + (IF request.format = 3 THEN 0 ELSE 2) < request.length
    /\ stage = "convert" => Target + 2 < OutputSize(request)

(* The buffer the detector gets is the picture: every pixel at its place,  *)
(* blue first, whatever the stride, and black around a picture that is     *)
(* smaller than the detector's minimum.                                    *)
Converted ==
    stage = "detect" =>
        \A py \in 0..(runtime_height(request) - 1), px \in 0..(runtime_width(request) - 1),
           c \in 0..2 :
            output[(py * runtime_width(request) + px) * 3 + c] =
                IF <<px, py>> \in Pixels
                THEN bytes[At(<<px, py>>) + (IF request.format = 3 THEN 0 ELSE 2 - c)]
                ELSE 0

(* The quality of a frame is that of its pixels, never of the bytes that   *)
(* pad its rows: the sums are those of the definition over the picture.    *)
QualityOfPixels ==
    stage = "convert" =>
        LET luma(p) == pixel_luma(request.format, At(p))
            inner == {p \in Pixels : p[1] > 0}
        IN  /\ quality.sum = MapThenSumSet(luma, Pixels)
            /\ quality.maximum = Max({luma(p) : p \in Pixels})
            /\ quality.minimum = Min({luma(p) : p \in Pixels})
            /\ quality.count = Cardinality(inner)
            /\ quality.difference =
                 MapThenSumSet(LAMBDA p : absdiff(luma(p), luma(<<p[1] - 1, p[2]>>)), inner)

(* Whatever rows the detector returns, what the worker answers as an       *)
(* analysis is one that the parent's stricter parser accepts: rounding     *)
(* keeps rectangles in the picture and landmarks in their rectangle.       *)
AnswersAccepted == reply.kind = "analysis" => parseResponse(reply)

(* Rows that passed validate_detections never fail the check of the answer *)
(* that follows: a face is not first accepted and then reported as invalid *)
(* runtime output.                                                         *)
ValidatedIsValid == stage = "answer" => valid_analysis

(* An error is the answer to the request that caused it, so that the       *)
(* parent does not take it for a stale one, except when the payload ended  *)
(* before its generation.                                                  *)
ErrorsNameRequest ==
    reply.kind = "error" /\ request.header # "none" => reply.generation = request.generation

(* A frame whose deadline passed before its last row was validated is      *)
(* never answered with an analysis, wherever in the passes, the detection  *)
(* or the validation it passed.                                            *)
LateIsNotAnalysed == reply.kind = "analysis" => late \in {"no", "answer"}
====
