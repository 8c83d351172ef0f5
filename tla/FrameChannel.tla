---------------------------- MODULE FrameChannel -----------------------------
(***************************************************************************)
(* What the framing promises: whole frames arrive in the order they were   *)
(* sent, and the receiver ends well exactly when the sender hung up after  *)
(* a whole frame and all of its frames have arrived.                       *)
(***************************************************************************)
EXTENDS Naturals, Sequences

CONSTANT Frames    \* what may be sent

VARIABLES
    once,    \* whether one frame is expected
    sent, got, hung, broken, outcome

channelVars == <<once, sent, got, hung, broken, outcome>>

ChannelInit ==
    /\ once \in BOOLEAN
    /\ sent = << >> /\ got = << >> /\ hung = FALSE /\ broken = FALSE /\ outcome = "none"

Send ==
    /\ ~hung /\ ~broken /\ \E f \in Frames : sent' = Append(sent, f)
    /\ UNCHANGED <<once, got, hung, broken, outcome>>

(* The sender hangs up, within a frame or between frames, or sends what is *)
(* no frame.                                                               *)
HangUp == ~hung /\ hung' = TRUE /\ broken' \in {broken, TRUE} /\ UNCHANGED <<once, sent, got, outcome>>

Spoil == ~hung /\ broken' = TRUE /\ UNCHANGED <<once, sent, got, hung, outcome>>

Deliver ==
    /\ outcome = "none" /\ Len(got) < Len(sent)
    /\ got' = Append(got, sent[Len(got) + 1])
    /\ UNCHANGED <<once, sent, hung, broken, outcome>>

Wrong == broken \/ (once /\ ((sent = << >> /\ hung) \/ Len(sent) > 1))

End ==
    /\ outcome = "none"
    /\ \/ outcome' = "end" /\ hung /\ got = sent /\ ~Wrong
       \/ outcome' = "error" /\ Wrong
    /\ UNCHANGED <<once, sent, got, hung, broken>>

ChannelNext == Send \/ HangUp \/ Spoil \/ Deliver \/ End

ChannelSpec == ChannelInit /\ [][ChannelNext]_channelVars
====
