--------------------------- MODULE FramingProofs ---------------------------
(***************************************************************************)
(* The limits of the wire format fit together for every size of its        *)
(* fields.                                                                 *)
(***************************************************************************)
EXTENDS Framing, TLAPS

USE FieldsAssumption

\* What was made is what is under way, and what was decoded is what came.
InTransit ==
    /\ made # Nothing => wire = Packed(made.type, made.seq, made.payload)
    /\ got # Nothing => wire \in Messages
    /\ got \in Frames => Decodable(wire) /\ got = Decoded(wire)
    /\ made # Nothing /\ got # Nothing => got \in Frames

FramingInv == TypeOK /\ InTransit

LEMMA Distinct ==
    /\ Nothing \notin Frames /\ Nothing \notin Messages /\ Nothing # Refused
    /\ Refused \notin Frames /\ Refused \notin Messages
<1>1. ASSUME NEW f \in Frames PROVE f # Nothing /\ f # Refused
  <2>1. DOMAIN f = {"type", "seq", "payload"}
    BY DEF Frames
  <2>2. DOMAIN Nothing = {"none"} /\ DOMAIN Refused = {"refused"}
    BY DEF Nothing, Refused
  <2>3. QED
    BY <2>1, <2>2
<1>2. ASSUME NEW m \in Messages PROVE m # Nothing /\ m # Refused
  <2>1. "body" \in DOMAIN m
    BY DEF Messages, Short
  <2>2. DOMAIN Nothing = {"none"} /\ DOMAIN Refused = {"refused"}
    BY DEF Nothing, Refused
  <2>3. QED
    BY <2>1, <2>2
<1>3. Nothing # Refused
  <2>1. DOMAIN Nothing = {"none"} /\ DOMAIN Refused = {"refused"}
    BY DEF Nothing, Refused
  <2>2. QED
    BY <2>1
<1>4. QED
  BY <1>1, <1>2, <1>3

LEMMA PackedType ==
    ASSUME NEW type, NEW seq, NEW n, Encodable(type, seq, n)
    PROVE  /\ Packed(type, seq, n) \in Messages
           /\ Decodable(Packed(type, seq, n))
           /\ Decoded(Packed(type, seq, n)) = [type |-> type, seq |-> seq, payload |-> n]
           /\ HeaderLen + Packed(type, seq, n).body <= MaxMessage
<1>1. /\ type \in MessageTypes /\ type \in TypeBytes /\ seq \in 0 .. MaxSeq
      /\ n \in 0 .. MaxPayload /\ n \in 0 .. MaxLength /\ FrameVersion \in Versions
  BY DEF Encodable
<1>2. Packed(type, seq, n) \in Messages
  BY <1>1 DEF Packed, Messages
<1>3. Packed(type, seq, n) # Short
  <2>1. "type" \in DOMAIN Packed(type, seq, n) /\ DOMAIN Short = {"body"}
    BY DEF Packed, Short
  <2>2. QED
    BY <2>1
<1>4. QED
  BY <1>1, <1>2, <1>3 DEF Packed, Decodable, Decoded, MaxMessage

LEMMA FramingStep == FramingInv /\ [Next]_vars => FramingInv'
<1> SUFFICES ASSUME FramingInv, [Next]_vars PROVE FramingInv'
  OBVIOUS
<1> USE DEF FramingInv
\* A frame that its maker could pack.
<1>1. ASSUME NEW type, NEW seq, NEW n, Encodable(type, seq, n), wire = Nothing,
             made' = [type |-> type, seq |-> seq, payload |-> n],
             wire' = Packed(type, seq, n), got' = got
      PROVE  FramingInv'
  <2>1. got = Nothing
    BY <1>1, Distinct DEF InTransit
  <2>2. made' \in Frames
    BY <1>1 DEF Encodable, Frames
  <2>3. made'.type = type /\ made'.seq = seq /\ made'.payload = n
    BY <1>1
  <2>4. wire' \in Messages
    BY <1>1, PackedType
  <2>5. TypeOK'
    BY <1>1, <2>1, <2>2, <2>4 DEF TypeOK
  <2>6. InTransit'
    BY <1>1, <2>1, <2>3, Distinct DEF InTransit
  <2>7. QED
    BY <2>5, <2>6
<1>2. ASSUME NEW type \in TypeBytes, NEW seq \in -1 .. MaxSeq + 1, NEW n \in 0 .. MaxPayload + 1,
             EncodeFrame(type, seq, n)
      PROVE  FramingInv'
  BY <1>1, <1>2 DEF EncodeFrame
<1>3. ASSUME NEW seq \in 0 .. MaxSeq, NEW size \in 0 .. MaxPayload + 1, EncryptMessage(seq, size)
      PROVE  FramingInv'
  <2>1. PICK type \in MessageTypes :
          /\ made' = [type |-> type, seq |-> seq, payload |-> size + TagLen]
          /\ wire' = IF Encodable(type, seq, size + TagLen)
                       THEN Packed(type, seq, size + TagLen) ELSE Refused
    BY <1>3 DEF EncryptMessage
  <2>2. size \in Nat /\ size <= MaxPayload - TagLen
    BY <1>3 DEF EncryptMessage, MaxPlaintext
  <2>3. Encodable(type, seq, size + TagLen)
    BY <2>2 DEF Encodable
  <2>4. wire = Nothing /\ got' = got
    BY <1>3 DEF EncryptMessage
  <2>5. QED
    BY <1>1, <2>1, <2>3, <2>4
<1>4. ASSUME NEW m \in Messages, Arrive(m) PROVE FramingInv'
  <2>1. got = Nothing /\ made = Nothing
    <3>1. wire = Nothing
      BY <1>4 DEF Arrive
    <3>2. got = Nothing
      BY <3>1, Distinct DEF InTransit
    <3>3. ASSUME made # Nothing PROVE FALSE
      <4>1. Encodable(made.type, made.seq, made.payload)
        BY <3>3 DEF TypeOK, Frames, Encodable
      <4>2. wire \in Messages
        BY <3>3, <4>1, PackedType DEF InTransit
      <4>3. QED
        BY <3>1, <4>2, Distinct
    <3>4. QED
      BY <3>2, <3>3
  <2>2. made' = Nothing /\ got' = Nothing /\ wire' = m
    BY <1>4, <2>1 DEF Arrive
  <2>3. QED
    BY <2>2, Distinct DEF TypeOK, InTransit
<1>5. ASSUME Receive PROVE FramingInv'
  <2>1. wire \in Messages /\ wire' = wire /\ made' = made
    BY <1>5 DEF Receive
  <2>2. CASE HeaderLen + wire.body <= MaxMessage /\ Decodable(wire)
    <3>1. got' = Decoded(wire)
      BY <1>5, <2>2 DEF Receive
    <3>2. got' \in Frames
      <4>1. wire \in [version : Versions, type : TypeBytes, seq : 0 .. MaxSeq,
                      length : 0 .. MaxLength, body : 0 .. MaxLength]
        BY <2>1, <2>2 DEF Decodable, Messages
      <4>2. /\ wire.length \in 0 .. MaxPayload /\ wire.seq \in 0 .. MaxSeq
            /\ wire.type \in MessageTypes
        BY <2>2, <4>1 DEF Decodable
      <4>3. QED
        BY <3>1, <4>2 DEF Decoded, Frames
    <3>3. QED
      BY <2>1, <2>2, <3>1, <3>2 DEF TypeOK, InTransit, Decodable, Decoded
  <2>3. CASE ~(HeaderLen + wire.body <= MaxMessage /\ Decodable(wire))
    <3>1. got' = Refused
      BY <1>5, <2>3 DEF Receive
    <3>2. made = Nothing
      <4> SUFFICES ASSUME made # Nothing PROVE FALSE
        OBVIOUS
      <4>1. Encodable(made.type, made.seq, made.payload)
        BY DEF TypeOK, Frames, Encodable
      <4>2. wire = Packed(made.type, made.seq, made.payload)
        BY DEF InTransit
      <4>3. QED
        BY <2>3, <4>1, <4>2, PackedType
    <3>3. QED
      BY <2>1, <3>1, <3>2, Distinct DEF TypeOK, InTransit
  <2>4. QED
    BY <2>2, <2>3
<1>6. ASSUME Done PROVE FramingInv'
  BY <1>6, Distinct DEF Done, TypeOK, InTransit
<1>7. CASE UNCHANGED vars
  BY <1>7 DEF vars, TypeOK, InTransit, Decodable
<1>8. QED
  BY <1>2, <1>3, <1>4, <1>5, <1>6, <1>7 DEF Next

LEMMA FramingInvHolds == Spec => []FramingInv
<1>1. Init => FramingInv
  BY Distinct DEF Init, FramingInv, TypeOK, InTransit
<1>2. QED
  BY <1>1, FramingStep, PTL DEF Spec

(* No plaintext that encrypt() lets through is refused by pack_header with *)
(* the sequence number already spent, for any sizes of the fields.         *)
THEOREM FramingTypeCorrect == Spec => []TypeOK
BY FramingInvHolds, PTL DEF FramingInv

(* Whatever encode() or encrypt() makes passes the peer's size limit and   *)
(* its decode() unchanged, for any sizes of the fields.                    *)
THEOREM FramesRoundTrip == Spec => []RoundTrip
<1>1. FramingInv => RoundTrip
  <2> SUFFICES ASSUME FramingInv, made # Nothing, got # Nothing PROVE got = made
    BY DEF RoundTrip
  <2>1. /\ got = Decoded(wire) /\ wire = Packed(made.type, made.seq, made.payload)
        /\ made \in Frames
    BY DEF FramingInv, InTransit, TypeOK
  <2>2. Encodable(made.type, made.seq, made.payload)
    BY <2>1 DEF Frames, Encodable
  <2>3. got = [type |-> made.type, seq |-> made.seq, payload |-> made.payload]
    BY <2>1, <2>2, PackedType
  <2>4. QED
    BY <2>1, <2>3 DEF Frames
<1>2. QED
  BY <1>1, FramingInvHolds, PTL

(* decode() accepts one message per frame, the one encode() makes: that a  *)
(* header is packed again before it is authenticated loses nothing.        *)
THEOREM DecodingIsCanonical == Spec => []AcceptsOnlyCanonical
<1>1. FramingInv => AcceptsOnlyCanonical
  <2> SUFFICES ASSUME FramingInv, got \in Frames
               PROVE  wire = Packed(got.type, got.seq, got.payload)
    BY DEF AcceptsOnlyCanonical
  <2>1. Decodable(wire) /\ got = Decoded(wire) /\ wire \in Messages
    BY Distinct DEF FramingInv, InTransit
  <2>2. wire \in [version : Versions, type : TypeBytes, seq : 0 .. MaxSeq,
                  length : 0 .. MaxLength, body : 0 .. MaxLength]
    BY <2>1 DEF Decodable, Messages
  <2>3. wire.version = FrameVersion /\ wire.body = wire.length
    BY <2>1 DEF Decodable
  <2>4. got.type = wire.type /\ got.seq = wire.seq /\ got.payload = wire.length
    BY <2>1 DEF Decoded
  <2>5. QED
    BY <2>2, <2>3, <2>4 DEF Packed
<1>2. QED
  BY <1>1, FramingInvHolds, PTL
=============================================================================
