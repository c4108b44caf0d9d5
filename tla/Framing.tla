------------------------------ MODULE Framing ------------------------------
(***************************************************************************)
(* The wire format (framing.py) and the three limits that have to fit      *)
(* together: what SecureChannel.encrypt takes, what a frame may hold, and  *)
(* what the peer's WebSocket lets in.                                      *)
(*                                                                         *)
(* A WebSocket message of at least a header's length is a header and a     *)
(* body; of a body only its length is looked at.  A program calls encrypt  *)
(* or encode, or something else altogether arrives, and the peer receives. *)
(***************************************************************************)
EXTENDS Integers

CONSTANTS
    MaxSeq,         \* MAX_SEQ, the largest number of the header's seq field
    MaxLength,      \* the largest number of the header's length field
    MaxPayload,     \* MAX_PAYLOAD
    TagLen,         \* AEAD_TAG_LEN
    HeaderLen,      \* HEADER_LEN
    Versions,       \* values of the version byte
    FrameVersion,   \* FRAME_VERSION
    TypeBytes,      \* values of the type byte
    MessageTypes    \* those that are a MessageType

ASSUME FieldsAssumption ==
    /\ {MaxSeq, MaxLength, MaxPayload, TagLen, HeaderLen} \subseteq Nat
    /\ TagLen <= MaxPayload /\ MaxPayload < MaxLength
    /\ FrameVersion \in Versions /\ MessageTypes \subseteq TypeBytes

\* Seeded fault: a full frame without room for the tag.
MaxPlaintextUntagged == MaxPayload

MaxPlaintext == MaxPayload - TagLen

\* Seeded fault: the transport's limit forgets the header.
MaxMessageBody == MaxPayload

\* _MAX_FRAME_BYTES, the max_size given to the WebSocket.
MaxMessage == HeaderLen + MaxPayload

Frames == [type : MessageTypes, seq : 0 .. MaxSeq, payload : 0 .. MaxPayload]

\* What can be in a WebSocket message: too short for a header, or header and body.
Short == [body |-> -1]
Messages == [version : Versions, type : TypeBytes, seq : 0 .. MaxSeq,
             length : 0 .. MaxLength, body : 0 .. MaxLength] \cup {Short}

Nothing == [none |-> TRUE]
Refused == [refused |-> TRUE]

VARIABLES
    made,   \* the frame the sender meant, when it was made by encode or encrypt
    wire,   \* the message under way
    got     \* the frame decode() returned, or Refused

vars == <<made, wire, got>>

Init == made = Nothing /\ wire = Nothing /\ got = Nothing
-----------------------------------------------------------------------------
\* Frame.__post_init__ and pack_header raise nothing.
Encodable(type, seq, payload) ==
    type \in MessageTypes /\ seq \in 0 .. MaxSeq /\ payload \in 0 .. MaxPayload

\* Frame.encode: pack_header, then the payload.
Packed(type, seq, payload) ==
    [version |-> FrameVersion, type |-> type, seq |-> seq, length |-> payload,
     body |-> payload]

\* Seeded fault: trailing bytes after the declared length are tolerated.
DecodableWithTrailer(m) ==
    /\ m # Short
    /\ m.version = FrameVersion
    /\ m.length <= MaxPayload
    /\ m.body >= m.length
    /\ m.type \in MessageTypes

\* decode() raises nothing.
Decodable(m) ==
    /\ m # Short
    /\ m.version = FrameVersion
    /\ m.length <= MaxPayload
    /\ m.body = m.length
    /\ m.type \in MessageTypes

\* The frame decode() returns.
Decoded(m) == [type |-> m.type, seq |-> m.seq, payload |-> m.length]

\* encode() returns (when it raises, nothing has happened).
EncodeFrame(type, seq, payload) ==
    /\ wire = Nothing
    /\ Encodable(type, seq, payload)
    /\ made' = [type |-> type, seq |-> seq, payload |-> payload]
    /\ wire' = Packed(type, seq, payload)
    /\ UNCHANGED got

\* encrypt() lets a plaintext of this size through; _emit_transport then packs
\* a header for it and its tag, or raises with the sequence number spent.
EncryptMessage(seq, size) ==
    /\ wire = Nothing
    /\ size <= MaxPlaintext
    /\ \E type \in MessageTypes :
         /\ made' = [type |-> type, seq |-> seq, payload |-> size + TagLen]
         /\ wire' = IF Encodable(type, seq, size + TagLen)
                      THEN Packed(type, seq, size + TagLen) ELSE Refused
    /\ UNCHANGED got

\* Some other message arrives.
Arrive(m) ==
    /\ wire = Nothing
    /\ wire' = m
    /\ UNCHANGED <<made, got>>

\* The peer's WebSocket refuses what is over max_size; the rest is decoded.
Receive ==
    /\ wire \in Messages /\ got = Nothing
    /\ got' = IF HeaderLen + wire.body <= MaxMessage /\ Decodable(wire)
                THEN Decoded(wire) ELSE Refused
    /\ UNCHANGED <<made, wire>>

\* The next message, on its own again.
Done == /\ got # Nothing
        /\ made' = Nothing /\ wire' = Nothing /\ got' = Nothing

\* The arguments of encode() are a caller's, one past either end included.
Next ==
    \/ \E type \in TypeBytes, seq \in -1 .. MaxSeq + 1, n \in 0 .. MaxPayload + 1 :
         EncodeFrame(type, seq, n)
    \/ \E seq \in 0 .. MaxSeq, size \in 0 .. MaxPayload + 1 : EncryptMessage(seq, size)
    \/ \E m \in Messages : Arrive(m)
    \/ Receive
    \/ Done

Spec == Init /\ [][Next]_vars
-----------------------------------------------------------------------------
(* Properties.                                                             *)

(* Types of all the variables; in particular a plaintext that encrypt()    *)
(* took is never refused by pack_header after its sequence number has been *)
(* spent: MAX_PLAINTEXT leaves room for the tag.                           *)
TypeOK ==
    /\ made \in Frames \cup {Nothing}
    /\ wire \in Messages \cup {Nothing}
    /\ got \in Frames \cup {Nothing, Refused}

(* Whatever one side's encode() or encrypt() makes gets through the other  *)
(* side's max_size and its decode(), as the same frame.                    *)
RoundTrip == made # Nothing /\ got # Nothing => got = made

(* The header that decrypt() authenticates is packed again from the        *)
(* decoded frame (channel.py:106), not the bytes that came: that is sound  *)
(* because decode() accepts exactly one message per frame, the one that    *)
(* encode() makes, and refuses everything else.                            *)
AcceptsOnlyCanonical == got \in Frames =>
    wire = Packed(got.type, got.seq, got.payload)
=============================================================================
