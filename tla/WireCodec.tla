------------------------------ MODULE WireCodec -------------------------------
(***************************************************************************)
(* Payloads of the engine protocol (engine/protocol): the requests, the    *)
(* responses and their bytes, and a channel that replaces, drops and adds  *)
(* bytes.                                                                  *)
(***************************************************************************)
EXTENDS Naturals, Sequences

CONSTANTS
    EditBytes,    \* values a byte may be replaced by
    MaxEdits      \* bound of the model

CodecAssumption == EditBytes \subseteq 0..255 /\ MaxEdits \in Nat

VARIABLES
    message,      \* the request or response that was encoded
    payload, edits

codecVars == <<message, payload, edits>>

-----------------------------------------------------------------------------
PROTOCOL_VERSION == 2
MAX_REQUEST_BYTES == 4 * 1024
MAX_RESPONSE_BYTES == 16 * 1024

Supports == <<"detector_analysis", "embedding_extraction", "user_session_enrollment",
    "encrypted_user_session_persistence", "explicit_local_verification",
    "profile_deletion", "pam_authentication", "pam_configuration", "authselect",
    "sddm_lock_screen", "sudo_polkit", "liveness", "security_tiers",
    "privileged_services">>

Supported == {"detector_analysis", "embedding_extraction", "user_session_enrollment",
    "encrypted_user_session_persistence", "explicit_local_verification",
    "profile_deletion", "liveness"}

EngineRequests == {[type |-> "Capabilities?"], [type |-> "Status?"]}
ErrorCode == <<"InvalidRequest", "UnsupportedVersion", "UnsupportedOperation">>

(* A u32 is the pair of its halves: its value does not fit TLC's integers. *)
CapabilitiesLocalIdentity ==
    [type |-> "Capabilities",
     protocol_min |-> PROTOCOL_VERSION, protocol_max |-> PROTOCOL_VERSION,
     max_request_bytes |-> <<0, MAX_REQUEST_BYTES>>,
     max_response_bytes |-> <<0, MAX_RESPONSE_BYTES>>,
     operations |-> 3, supported |-> Supported]

StatusLocalIdentity == [type |-> "Status", supported |-> Supported]

InvalidPayload == [type |-> "InvalidPayload"]
Failures == {"EmptyFrame", "FrameTooLarge", "UnsupportedVersion", "InvalidPayload"}

-----------------------------------------------------------------------------
U16(n) == <<n \div 256, n % 256>>
u16_from_be_bytes(p, i) == p[i] * 256 + p[i + 1]
U32(halves) == U16(halves[1]) \o U16(halves[2])

support_bytes(set) == [i \in 1..14 |-> IF Supports[i] \in set THEN 1 ELSE 0]

encode_request(m) ==
    U16(PROTOCOL_VERSION) \o <<IF m.type = "Capabilities?" THEN 1 ELSE 2, 0>>

encode_response(m) ==
    CASE m.type = "Capabilities" ->
            U16(PROTOCOL_VERSION) \o <<129, 0>>
            \o U16(m.protocol_min) \o U16(m.protocol_max)
            \o U32(m.max_request_bytes) \o U32(m.max_response_bytes)
            \o U16(m.operations) \o support_bytes(m.supported) \o <<0, 0>>
      [] m.type = "Status" ->
            U16(PROTOCOL_VERSION) \o <<130, 0, 2>> \o support_bytes(m.supported)
      [] m.type = "Error" ->
            U16(PROTOCOL_VERSION) \o <<255, 0, CHOOSE i \in 1..3 : ErrorCode[i] = m.code>>

encode(m) == IF m \in EngineRequests THEN encode_request(m) ELSE encode_response(m)

-----------------------------------------------------------------------------
(* The 14 support bytes from byte `from' on: each is 0 or 1. *)
from_wire(p, from) == \A i \in 1..14 : p[from + i - 1] \in {0, 1}
decode_support(p, from) == {Supports[i] : i \in {j \in 1..14 : p[from + j - 1] = 1}}

(* Mutant: the two last bytes are not looked at. *)
decode_most(p) ==
    IF Len(p) # 34 \/ ~from_wire(p, 19) THEN InvalidPayload
    ELSE [type |-> "Capabilities",
          protocol_min |-> u16_from_be_bytes(p, 5), protocol_max |-> u16_from_be_bytes(p, 7),
          max_request_bytes |-> <<u16_from_be_bytes(p, 9), u16_from_be_bytes(p, 11)>>,
          max_response_bytes |-> <<u16_from_be_bytes(p, 13), u16_from_be_bytes(p, 15)>>,
          operations |-> u16_from_be_bytes(p, 17), supported |-> decode_support(p, 19)]

decode_capabilities(p) ==
    IF Len(p) # 34 \/ p[33] # 0 \/ p[34] # 0 \/ ~from_wire(p, 19) THEN InvalidPayload
    ELSE [type |-> "Capabilities",
          protocol_min |-> u16_from_be_bytes(p, 5), protocol_max |-> u16_from_be_bytes(p, 7),
          max_request_bytes |-> <<u16_from_be_bytes(p, 9), u16_from_be_bytes(p, 11)>>,
          max_response_bytes |-> <<u16_from_be_bytes(p, 13), u16_from_be_bytes(p, 15)>>,
          operations |-> u16_from_be_bytes(p, 17), supported |-> decode_support(p, 19)]

(* Mutant: the supports are read from one byte too early. *)
decode_status_early(p) ==
    IF Len(p) # 19 \/ p[5] # 2 THEN InvalidPayload
    ELSE [type |-> "Status", supported |-> decode_support(p, 5)]

decode_status(p) ==
    IF Len(p) # 19 \/ p[5] # 2 \/ ~from_wire(p, 6) THEN InvalidPayload
    ELSE [type |-> "Status", supported |-> decode_support(p, 6)]

validate_payload(p, maximum) ==
    IF p = << >> THEN "EmptyFrame" ELSE IF Len(p) > maximum THEN "FrameTooLarge" ELSE "ok"

validate_version(p) == IF Len(p) < 2 THEN "InvalidPayload"
                       ELSE IF u16_from_be_bytes(p, 1) # PROTOCOL_VERSION THEN "UnsupportedVersion"
                       ELSE "ok"

decode_request(p) ==
    LET bounds == validate_payload(p, MAX_REQUEST_BYTES)
        version == validate_version(p)
    IN  IF bounds # "ok" THEN [type |-> bounds]
        ELSE IF Len(p) # 4 \/ p[4] # 0 THEN InvalidPayload
        ELSE IF version # "ok" THEN [type |-> version]
        ELSE CASE p[3] = 1 -> [type |-> "Capabilities?"]
               [] p[3] = 2 -> [type |-> "Status?"]
               [] OTHER -> InvalidPayload

decode_response(p) ==
    LET bounds == validate_payload(p, MAX_RESPONSE_BYTES)
        version == validate_version(p)
    IN  IF bounds # "ok" THEN [type |-> bounds]
        ELSE IF Len(p) < 5 \/ p[4] # 0 THEN InvalidPayload
        ELSE IF version # "ok" THEN [type |-> version]
        ELSE CASE p[3] = 129 -> decode_capabilities(p)
               [] p[3] = 130 -> decode_status(p)
               [] p[3] = 255 /\ Len(p) = 5 /\ p[5] \in 1..3 ->
                     [type |-> "Error", code |-> ErrorCode[p[5]]]
               [] OTHER -> InvalidPayload

-----------------------------------------------------------------------------
EngineMessages ==
    EngineRequests \cup {CapabilitiesLocalIdentity, StatusLocalIdentity}
    \cup {[type |-> "Error", code |-> ErrorCode[i]] : i \in 1..3}

CodecTypeOK ==
    /\ message \in EngineMessages /\ payload \in Seq(0..255) /\ edits \in 0..MaxEdits
    /\ decode_request(payload) \in EngineRequests \cup [type : Failures]

CodecInit == message \in EngineMessages /\ payload = encode(message) /\ edits = 0

Replace ==
    /\ edits < MaxEdits /\ edits' = edits + 1 /\ UNCHANGED message
    /\ \E i \in 1..Len(payload), b \in EditBytes : payload' = [payload EXCEPT ![i] = b]

Cut ==
    /\ edits < MaxEdits /\ edits' = edits + 1 /\ UNCHANGED message
    /\ payload # << >> /\ payload' = SubSeq(payload, 1, Len(payload) - 1)

Add ==
    /\ edits < MaxEdits /\ edits' = edits + 1 /\ UNCHANGED message
    /\ \E b \in EditBytes : payload' = Append(payload, b)

CodecNext == Replace \/ Cut \/ Add

CodecSpec == CodecInit /\ [][CodecNext]_codecVars

-----------------------------------------------------------------------------
(* A payload that was not touched decodes to the message that was encoded, *)
(* and only on its own side: a request is no response and the reverse.     *)
RoundTrip ==
    edits = 0 =>
        IF message \in EngineRequests
        THEN decode_request(payload) = message /\ decode_response(payload).type \in Failures
        ELSE decode_response(payload) = message /\ decode_request(payload).type \in Failures

(* Whatever the channel did, a payload is either refused or is the         *)
(* encoding of the message it decodes to: no byte is ignored and no        *)
(* message has two encodings.                                              *)
Canonical ==
    LET request == decode_request(payload)
        response == decode_response(payload)
    IN  /\ request.type \notin Failures => encode_request(request) = payload
        /\ response.type \notin Failures => encode_response(response) = payload

(* The parsers accept exactly what is well-formed and lose nothing of it:  *)
(* the decode functions of the protocol invert the encode functions and    *)
(* ignore no byte.                                                         *)
ParsersExact == RoundTrip /\ Canonical
====
