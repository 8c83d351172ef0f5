----------------------------- MODULE FrameStream ------------------------------
(***************************************************************************)
(* Length-prefixed frames over a byte stream (engine/protocol): the        *)
(* workers' stdin and stdout and the daemon's socket.  A write may put any *)
(* part of a frame into the pipe, a read may take any part of what is      *)
(* there, and the sender may end between any two bytes.                    *)
(*                                                                         *)
(* The header is four digits of base Base, most significant first; Base is *)
(* 256 in the code.                                                        *)
(***************************************************************************)
EXTENDS Naturals, Sequences

CONSTANTS
    Base,
    Maximum,     \* the largest payload the reader accepts
    Sends,       \* what write_frame is called with
    Capacity,    \* of the pipe
    MaxFrames    \* bound of the model: calls of write_frame

HeaderBytes == 4
Lengths == 0..(Base * Base * Base * Base - 1)   \* u32
Bytes == 0..(Base - 1)

FrameAssumption ==
    /\ Base \in Nat \ {0, 1} /\ Maximum \in Lengths /\ Capacity \in Nat \ {0}
    /\ Sends \subseteq Seq(Bytes) /\ MaxFrames \in Nat

VARIABLES
    once,        \* one request and EOF (serve_once), or a session
    pipe,        \* bytes written and not yet read
    closed,      \* the sender is gone
    rest,        \* the bytes of the sender's frame that are not written yet
    frame,       \* that frame, or << >> for one no reader here accepts
    begun,       \* some of its bytes are written
    calls,       \* calls of write_frame so far
    stage,       \* where the reader is
    header, body,
    result,      \* what the reader returned
    sent, got,   \* history: frames begun and frames returned
    broken       \* history: the sender ended within a frame or wrote no frame

writerVars == <<closed, rest, frame, begun, calls>>
readerVars == <<once, stage, header, body, result, got>>
streamVars == <<pipe, writerVars, readerVars, sent, broken>>

StreamTypeOK ==
    /\ pipe \in Seq(Bytes) /\ Len(pipe) <= Capacity
    /\ rest \in Seq(Bytes) /\ closed \in BOOLEAN /\ begun \in BOOLEAN /\ calls \in 0..MaxFrames
    /\ once \in BOOLEAN /\ stage \in {"header", "length", "body", "eof", "done"}
    /\ header \in Seq(Bytes) /\ Len(header) <= HeaderBytes
    /\ body \in Seq(Bytes) /\ Len(body) <= Maximum
    /\ result \in {"none", "end", "Io", "EmptyFrame", "FrameTooLarge", "TrailingData"}

StreamInit ==
    /\ pipe = << >> /\ closed = FALSE /\ rest = << >> /\ frame = << >> /\ begun = FALSE /\ calls = 0
    /\ once \in BOOLEAN /\ stage = "header" /\ header = << >> /\ body = << >> /\ result = "none"
    /\ sent = << >> /\ got = << >> /\ broken = FALSE

-----------------------------------------------------------------------------
(* u32::to_be_bytes and from_be_bytes *)
to_be_bytes(n) ==
    LET a == n \div Base
        b == a \div Base
        c == b \div Base
    IN  <<c % Base, b % Base, a % Base, n % Base>>

from_be_bytes(h) == ((h[1] * Base + h[2]) * Base + h[3]) * Base + h[4]

Sendable(p) == p # << >> /\ Len(p) <= Maximum

(* write_frame refuses a payload that is empty or too large, and writes    *)
(* nothing of it.                                                          *)
write_frame ==
    /\ ~closed /\ rest = << >> /\ calls < MaxFrames /\ ~broken
    /\ calls' = calls + 1 /\ begun' = FALSE
    /\ \E p \in Sends :
          IF Sendable(p) THEN frame' = p /\ rest' = to_be_bytes(Len(p)) \o p
          ELSE UNCHANGED <<frame, rest>>
    /\ UNCHANGED <<pipe, closed, readerVars, sent, broken>>

(* A sender with limits of its own: a payload no frame here has. *)
ForeignHeader ==
    /\ ~closed /\ rest = << >> /\ calls < MaxFrames /\ ~broken
    /\ calls' = calls + 1 /\ begun' = FALSE /\ frame' = << >>
    /\ \E n \in Lengths \ 1..Maximum :
          rest' = to_be_bytes(n) \o [i \in 1..n |-> 0]
    /\ UNCHANGED <<pipe, closed, readerVars, sent, broken>>

(* write_all: any part of what is left. *)
Write ==
    /\ \E n \in 1..Len(rest) :
          /\ Len(pipe) + n <= Capacity
          /\ pipe' = pipe \o SubSeq(rest, 1, n) /\ rest' = SubSeq(rest, n + 1, Len(rest))
    /\ begun' = TRUE
    /\ sent' = IF begun \/ frame = << >> THEN sent ELSE Append(sent, frame)
    /\ broken' = (broken \/ frame = << >>)
    /\ UNCHANGED <<closed, frame, calls, readerVars>>

(* The sender closes its end or dies. *)
Close ==
    /\ ~closed /\ closed' = TRUE /\ rest' = << >>
    /\ broken' = (broken \/ (rest # << >> /\ begun))
    /\ UNCHANGED <<pipe, frame, begun, calls, readerVars, sent>>

-----------------------------------------------------------------------------
Returns(r) == stage' = "done" /\ result' = r

Eof == closed /\ pipe = << >>

(* A read of at most n bytes into buf takes some of what is there. *)
Taken(n, buf, buf2) ==
    \E k \in 1..n :
        /\ k <= Len(pipe)
        /\ buf2 = buf \o SubSeq(pipe, 1, k) /\ pipe' = SubSeq(pipe, k + 1, Len(pipe))

(* Mutant: end of file in the middle of a header is taken for the end. *)
ReadHeaderLoosely ==
    /\ stage = "header"
    /\ \/ /\ Eof /\ Returns(IF once THEN "Io" ELSE "end") /\ UNCHANGED <<pipe, header>>
       \/ /\ Taken(HeaderBytes - Len(header), header, header')
          /\ stage' = (IF Len(header') = HeaderBytes THEN "length" ELSE "header")
          /\ UNCHANGED result
    /\ UNCHANGED <<writerVars, once, body, got, sent, broken>>

(* read_frame_or_eof, and read_frame in the one-request mode. *)
ReadHeader ==
    /\ stage = "header"
    /\ \/ /\ Eof /\ Returns(IF header # << >> \/ once THEN "Io" ELSE "end")
          /\ UNCHANGED <<pipe, header>>
       \/ /\ Taken(HeaderBytes - Len(header), header, header')
          /\ stage' = (IF Len(header') = HeaderBytes THEN "length" ELSE "header")
          /\ UNCHANGED result
    /\ UNCHANGED <<writerVars, once, body, got, sent, broken>>

CheckLength ==
    /\ stage = "length"
    /\ LET length == from_be_bytes(header)
       IN  IF length = 0 THEN Returns("EmptyFrame")
           ELSE IF length > Maximum THEN Returns("FrameTooLarge")
           ELSE stage' = "body" /\ UNCHANGED result
    /\ UNCHANGED <<pipe, writerVars, once, header, body, got, sent, broken>>

(* Mutant: a short read is tried again for ever. *)
ReadBodyAgain ==
    /\ stage = "body" /\ Len(body) < from_be_bytes(header)
    /\ Taken(from_be_bytes(header) - Len(body), body, body')
    /\ UNCHANGED <<stage, result, writerVars, once, header, got, sent, broken>>

(* read_exact *)
ReadBody ==
    /\ stage = "body" /\ Len(body) < from_be_bytes(header)
    /\ \/ Eof /\ Returns("Io") /\ UNCHANGED <<pipe, body>>
       \/ Taken(from_be_bytes(header) - Len(body), body, body') /\ UNCHANGED <<stage, result>>
    /\ UNCHANGED <<writerVars, once, header, got, sent, broken>>

(* Mutant: nobody reads after the first frame. *)
ReturnAndStop ==
    /\ stage = "body" /\ Len(body) = from_be_bytes(header)
    /\ got' = Append(got, body) /\ header' = << >> /\ body' = << >> /\ stage' = "done"
    /\ UNCHANGED <<pipe, writerVars, once, result, sent, broken>>

(* The payload is returned; the caller asks for EOF or the next frame. *)
ReturnFrame ==
    /\ stage = "body" /\ Len(body) = from_be_bytes(header)
    /\ got' = Append(got, body) /\ header' = << >> /\ body' = << >>
    /\ stage' = (IF once THEN "eof" ELSE "header")
    /\ UNCHANGED <<pipe, writerVars, once, result, sent, broken>>

require_eof ==
    /\ stage = "eof"
    /\ \/ Eof /\ Returns("end") /\ UNCHANGED pipe
       \/ pipe # << >> /\ Returns("TrailingData") /\ pipe' = Tail(pipe)
    /\ UNCHANGED <<writerVars, once, header, body, got, sent, broken>>

Reader == ReadHeader \/ CheckLength \/ ReadBody \/ ReturnFrame \/ require_eof

StreamNext == write_frame \/ ForeignHeader \/ Write \/ Close \/ Reader

StreamSpec == StreamInit /\ [][StreamNext]_streamVars

(* The reader runs on; a sender with bytes to write writes them or ends. *)
FairStreamSpec == StreamSpec /\ WF_streamVars(Reader) /\ WF_streamVars(Write)

-----------------------------------------------------------------------------
Channel == INSTANCE FrameChannel WITH
    Frames <- {p \in Sends : Sendable(p)},
    once <- once,
    sent <- sent,
    got <- got,
    hung <- closed,
    broken <- broken,
    outcome <- IF result \in {"none", "end"} THEN result ELSE "error"

(* However the bytes that write_frame wrote are split over reads and       *)
(* wherever the sender ends, read_frame and read_frame_or_eof return whole *)
(* frames in order, a clean end only when the sender ended after a whole   *)
(* frame, an error only for a reason, and with require_eof a worker for    *)
(* one request accepts one frame and no byte more.                         *)
ImplementsChannel == Channel!ChannelSpec

(* A sender that is gone is noticed: reading ends, also within a header or *)
(* a payload.                                                              *)
ReaderEnds == closed ~> result # "none"

(* Every frame that was begun arrives, unless the sender ends or the       *)
(* reader has returned an error.                                           *)
FramesArrive ==
    \A n \in 1..MaxFrames : Len(sent) >= n ~> Len(got) >= n \/ closed \/ result # "none"
====
