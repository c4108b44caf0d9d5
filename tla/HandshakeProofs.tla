-------------------------- MODULE HandshakeProofs --------------------------
(***************************************************************************)
(* What the two sides of a handshake know of each other, whatever is lost, *)
(* altered, late or closed on the way.                                     *)
(***************************************************************************)
EXTENDS Handshake, SequenceTheorems, TLAPS

\* The certificate that p presents, if it has one.
CertificateOf(p) == IF p \in certified THEN p ELSE Nothing

\* The three messages of a run as they are written.
First == Message("initiator", 0, Nothing)
Second == Message("responder", 1, CertificateOf("responder"))
Third == Message("initiator", 2, CertificateOf("initiator"))

Messages == [by : Endpoints, index : 0 .. MessageCount - 1, payload : Payloads,
             intact : BOOLEAN]
Frames == [type : {"HANDSHAKE"}, message : Messages, before : Seq(Messages)]
            \cup {Data, WsClose, Malformed}
States == [step : 0 .. MessageCount, writes : 0 .. 2, transcript : Seq(Messages),
           remoteStatic : Endpoints \cup {Nothing}, peerCert : Payloads]

TypeOK ==
    /\ certified \in SUBSET Endpoints
    /\ pc \in [Endpoints -> {"start", "sending", "reading", "established", "failed"}]
    /\ why \in [Endpoints -> {"none", "rejected", "closed", "refused", "timeout"}]
    /\ hs \in [Endpoints -> States]
    /\ wire \in [Endpoints -> Seq(Frames)]
    /\ ws \in [Endpoints -> {"open", "closed"}]
    /\ altered \in BOOLEAN

(* How far the initiator can be, given the responder.  It is between two   *)
(* awaits after one message or after all three; to have read the second it *)
(* must have had its first message read as it was written.                 *)
InitiatorAt ==
    LET h == hs["initiator"] r == hs["responder"] IN
    \/ /\ h.step = 0 /\ h.writes = 0 /\ h.transcript = <<>>
       /\ h.remoteStatic = Nothing /\ h.peerCert = Nothing
    \/ /\ h.step = 1 /\ h.writes \in {0, 1} /\ h.transcript = <<First>>
       /\ h.remoteStatic = Nothing /\ h.peerCert = Nothing
    \/ /\ h.step = 3 /\ h.transcript = <<First, Second, Third>>
       /\ h.remoteStatic = "responder" /\ h.peerCert = CertificateOf("responder")
       /\ r.transcript \in {<<First, Second>>, <<First, Second, Third>>}

(* How far the responder can be.  The first message may have been altered; *)
(* then the third never opens.                                             *)
ResponderAt ==
    LET h == hs["responder"] IN
    \/ /\ h.step = 0 /\ h.writes = 0 /\ h.transcript = <<>>
       /\ h.remoteStatic = Nothing /\ h.peerCert = Nothing
    \/ /\ h.step = 2 /\ h.writes \in {0, 1} /\ h.remoteStatic = Nothing
       /\ hs["initiator"].step # 0
       /\ \E m \in Messages :
            /\ h.transcript = <<m, Second>>
            /\ altered \/ m = First
            /\ m = First => h.peerCert = Nothing
    \/ /\ h.step = 3 /\ h.transcript = <<First, Second, Third>>
       /\ h.remoteStatic = "initiator" /\ h.peerCert = CertificateOf("initiator")
       /\ hs["initiator"].step = 3

\* Where in its driver a side is.
DriverAt ==
    /\ pc["initiator"] = "start" => hs["initiator"].step = 0
    /\ pc["initiator"] = "reading" => hs["initiator"].step = 1 /\ hs["initiator"].writes = 1
    /\ pc["initiator"] = "sending" =>
         \/ hs["initiator"].step = 1 /\ hs["initiator"].writes = 0
         \/ hs["initiator"].step = 3 /\ hs["initiator"].writes = 1
    /\ pc["responder"] = "start" => hs["responder"].step = 0
    /\ pc["responder"] = "reading" =>
         \/ hs["responder"].step = 0
         \/ hs["responder"].step = 2 /\ hs["responder"].writes = 1
    /\ pc["responder"] = "sending" => hs["responder"].step = 2 /\ hs["responder"].writes = 0
    /\ \A p \in Endpoints : pc[p] = "established" => hs[p].step = 3

\* A handshake message that p wrote and its peer has not read.
FrameOK(p, f) ==
    /\ f.message.by = p
    /\ f.message.index = hs[Peer(p)].step
    /\ f.message.index < hs[p].step
    /\ IF f.message.intact
         THEN f.message.payload = IF f.message.index = 0 THEN Nothing ELSE CertificateOf(p)
         ELSE altered /\ f.message.payload \in {Nothing, "junk"}
    /\ f.message.index = 1 => f.before = <<hs["responder"].transcript[1]>>
    /\ f.message.index = 2 => f.before = <<First, Second>>

WireOK(p) ==
    /\ \A i \in DOMAIN wire[p] :
         /\ i > 1 => wire[p][i] \in {Data, WsClose}
         /\ wire[p][i] = WsClose => ws[p] = "closed"
         /\ wire[p][i] = Data => pc[p] = "established"
    /\ wire[p] # <<>> =>
         /\ wire[p][1].type = "HANDSHAKE" => FrameOK(p, wire[p][1])
         /\ wire[p][1] = Malformed => altered /\ hs[Peer(p)].step < hs[p].step
         /\ wire[p][1] = Data => hs[Peer(p)].step = 3 \/ pc[Peer(p)] = "failed"
    /\ ws[p] = "open" /\ pc[Peer(p)] # "failed" /\ hs[Peer(p)].step < hs[p].step =>
         wire[p] # <<>> /\ wire[p][1] \notin {Data, WsClose}

HInv ==
    /\ TypeOK
    /\ InitiatorAt /\ ResponderAt /\ DriverAt
    /\ \A p \in Endpoints : WireOK(p)
    /\ RefusalMeansAltered
-----------------------------------------------------------------------------
(* Endpoints and messages.                                                 *)

LEMMA PeerFacts ==
    ASSUME NEW p \in Endpoints
    PROVE  /\ Peer(p) \in Endpoints /\ Peer(p) # p /\ Peer(Peer(p)) = p
           /\ Endpoints = {p, Peer(p)}
BY DEF Endpoints, Peer

LEMMA MessagesType == First \in Messages /\ Second \in Messages /\ Third \in Messages
BY DEF First, Second, Third, Message, Messages, Endpoints, Payloads, CertificateOf,
       MessageCount, Nothing

LEMMA FrameKinds == /\ Data \in Frames /\ WsClose \in Frames /\ Malformed \in Frames
                    /\ Data # WsClose /\ Data # Malformed /\ WsClose # Malformed
                    /\ Data.type # "HANDSHAKE" /\ WsClose.type # "HANDSHAKE"
                    /\ Malformed.type # "HANDSHAKE"
BY DEF Frames, Data, WsClose, Malformed

LEMMA FrameCases == \A f \in Frames : \/ f = Data \/ f = WsClose \/ f = Malformed
                                      \/ /\ f.type = "HANDSHAKE"
                                         /\ f.message \in Messages
                                         /\ f.before \in Seq(Messages)
BY DEF Frames

\* What appending to and reading from a wire do to its elements.
LEMMA AppendFacts ==
    ASSUME NEW S, NEW s \in Seq(S), NEW x \in S
    PROVE  /\ Append(s, x) \in Seq(S) /\ Append(s, x) # <<>>
           /\ s # <<>> => Append(s, x)[1] = s[1]
           /\ s = <<>> => Append(s, x)[1] = x
           /\ \A i \in DOMAIN Append(s, x) :
                \/ i \in DOMAIN s /\ Append(s, x)[i] = s[i]
                \/ i = Len(s) + 1 /\ Append(s, x)[i] = x
<1>1. Append(s, x) \in Seq(S) /\ Append(s, x) # <<>> /\ Len(Append(s, x)) = Len(s) + 1
      /\ Append(s, x)[Len(s) + 1] = x
      /\ \A i \in 1 .. Len(s) : Append(s, x)[i] = s[i]
  BY AppendProperties
<1>2. DOMAIN s = 1 .. Len(s) /\ Len(s) \in Nat /\ (s # <<>> => Len(s) > 0)
      /\ (s = <<>> => Len(s) = 0)
  BY EmptySeq, LenProperties
<1>3. DOMAIN Append(s, x) = 1 .. Len(s) + 1
  BY <1>1, LenProperties
<1>4. QED BY <1>1, <1>2, <1>3

LEMMA TailFacts ==
    ASSUME NEW S, NEW s \in Seq(S), s # <<>>
    PROVE  /\ Tail(s) \in Seq(S)
           /\ Head(s) = s[1] /\ s[1] \in S
           /\ \A i \in DOMAIN Tail(s) : i + 1 \in DOMAIN s /\ i + 1 > 1 /\ Tail(s)[i] = s[i + 1]
           /\ Tail(s) # <<>> => 1 \in DOMAIN Tail(s)
<1>1. /\ Head(s) \in S /\ Head(s) = s[1]
      /\ Tail(s) \in Seq(S) /\ Len(Tail(s)) = Len(s) - 1
      /\ \A i \in 1 .. Len(Tail(s)) : Tail(s)[i] = s[i + 1]
  BY HeadTailProperties
<1>2. DOMAIN s = 1 .. Len(s) /\ Len(s) \in Nat /\ DOMAIN Tail(s) = 1 .. Len(Tail(s))
  BY <1>1, LenProperties
<1>3. Tail(s) # <<>> => Len(Tail(s)) > 0
  BY <1>1, EmptySeq, LenProperties
<1>4. QED BY <1>1, <1>2, <1>3
-----------------------------------------------------------------------------
(* What a step of p leaves of the invariant of each wire.                  *)

\* The clauses of the invariant about one side, spelled out.
LEMMA WireType ==
    ASSUME TypeOK, NEW p \in Endpoints
    PROVE  /\ wire[p] \in Seq(Frames)
           /\ DOMAIN wire[p] = 1 .. Len(wire[p]) /\ Len(wire[p]) \in Nat
           /\ wire[p] # <<>> => 1 \in DOMAIN wire[p]
           /\ \A i \in DOMAIN wire[p] : wire[p][i] \in Frames
<1>1. wire[p] \in Seq(Frames)
  BY DEF TypeOK
<1>2. QED BY <1>1, EmptySeq, LenProperties, ElementOfSeq

\* Where nothing has changed but perhaps what p is doing.
LEMMA OtherWireStays ==
    ASSUME HInv, NEW p \in Endpoints, NEW q \in Endpoints, q = Peer(p),
           pc[p] # "failed", altered' = altered, certified' = certified,
           hs'[q] = hs[q], pc'[q] = pc[q], ws'[q] = ws[q], wire'[q] = wire[q],
           \/ hs'[p].step = hs[p].step /\ hs'[p].transcript = hs[p].transcript
           \/ hs[q].step = 0 /\ hs'[p].step \in Nat
    PROVE  WireOK(q)'
<1>1. WireOK(q) /\ TypeOK /\ DriverAt /\ p = Peer(q) /\ hs[q].step \in Nat
  BY PeerFacts DEF HInv, TypeOK, States
<1>2. CASE hs[q].step = 0 /\ hs'[p].step \in Nat
  <2>1. wire[q] # <<>> => wire[q][1] = WsClose
    <3> SUFFICES ASSUME wire[q] # <<>> PROVE wire[q][1] = WsClose
      OBVIOUS
    <3>1. 1 \in DOMAIN wire[q] /\ wire[q][1] \in Frames
      BY <1>1, WireType
    <3>2. hs[p].step \in Nat
      BY <1>1 DEF TypeOK, States
    <3>3. wire[q][1] # Data
      BY <1>1, <1>2, <3>1 DEF WireOK, DriverAt
    <3>4. wire[q][1] # Malformed
      BY <1>1, <1>2, <3>2 DEF WireOK
    <3>5. wire[q][1].type # "HANDSHAKE"
      BY <1>1, <1>2, <3>1, <3>2, FrameCases DEF WireOK, FrameOK
    <3>6. QED BY <3>1, <3>3, <3>4, <3>5, FrameCases
  <2>2. QED BY <1>1, <1>2, <2>1, FrameKinds DEF WireOK
<1>3. CASE hs'[p].step = hs[p].step /\ hs'[p].transcript = hs[p].transcript
  <2>1. hs'["responder"].transcript = hs["responder"].transcript
    BY <1>3, PeerFacts DEF Endpoints
  <2>2. \A f : FrameOK(q, f)' <=> FrameOK(q, f)
    BY <1>1, <1>3, <2>1 DEF FrameOK, CertificateOf, First, Second, Third
  <2>3. wire[q] # <<>> /\ wire[q][1].type = "HANDSHAKE" => FrameOK(q, wire[q][1])'
    BY <1>1, <2>2 DEF WireOK
  <2>4. QED BY <1>1, <1>3, <2>3 DEF WireOK
<1>4. QED BY <1>2, <1>3

\* Where p has read a handshake message, or one that was altered beyond that.
LEMMA OtherWireRead ==
    ASSUME HInv, NEW p \in Endpoints, NEW q \in Endpoints, q = Peer(p),
           altered' = altered, certified' = certified,
           hs'[q] = hs[q], pc'[q] = pc[q], ws'[q] = ws[q],
           wire[q] # <<>>, wire'[q] = Tail(wire[q]),
           \/ pc'[p] = "failed"
           \/ /\ hs'[p].step \in Nat /\ hs'[p].step >= hs[q].step
              /\ hs[q].step = 3 => hs'[p].step = 3
    PROVE  WireOK(q)'
<1>1. WireOK(q) /\ TypeOK /\ DriverAt /\ p = Peer(q) /\ hs[q].step \in Nat
  BY PeerFacts DEF HInv, TypeOK, States
<1>2. /\ \A i \in DOMAIN wire'[q] :
           i + 1 \in DOMAIN wire[q] /\ i + 1 > 1 /\ wire'[q][i] = wire[q][i + 1]
      /\ wire'[q] # <<>> => 1 \in DOMAIN wire'[q]
  <2>1. wire[q] \in Seq(Frames)
    BY <1>1, WireType
  <2>2. QED BY <2>1, TailFacts
<1>3. \A i \in DOMAIN wire'[q] :
        /\ wire'[q][i] \in {Data, WsClose}
        /\ wire'[q][i] = WsClose => ws[q] = "closed"
        /\ wire'[q][i] = Data => pc[q] = "established"
  BY <1>1, <1>2 DEF WireOK
<1>4. wire'[q] # <<>> => 1 \in DOMAIN wire'[q] /\ wire'[q][1] \in {Data, WsClose}
  BY <1>2, <1>3
<1>5. pc[q] = "established" => hs[q].step = 3
  BY <1>1 DEF DriverAt
<1>6. ~(ws'[q] = "open" /\ pc'[p] # "failed" /\ hs'[p].step < hs'[q].step)
  BY <1>1
<1>7. wire'[q] # <<>> =>
        /\ wire'[q][1].type # "HANDSHAKE" /\ wire'[q][1] # Malformed
        /\ wire'[q][1] = Data => hs'[p].step = 3 \/ pc'[p] = "failed"
  BY <1>3, <1>4, <1>5, FrameKinds
<1>8. QED BY <1>1, <1>3, <1>6, <1>7 DEF WireOK

\* Where p fails, having written nothing but perhaps its Close.
LEMMA OwnWireFails ==
    ASSUME HInv, NEW p \in Endpoints, NEW q \in Endpoints, q = Peer(p),
           pc[p] # "established", altered' = altered, certified' = certified,
           hs'[q] = hs[q], pc'[q] = pc[q],
           hs'[p].step \in Nat, hs'[p].step >= hs[p].step,
           hs["responder"].step # 0 =>
              hs'["responder"].transcript[1] = hs["responder"].transcript[1],
           ws'[p] = "closed", wire'[p] \in {wire[p], Append(wire[p], WsClose)}
    PROVE  WireOK(p)'
<1>1. WireOK(p) /\ TypeOK /\ hs[p].step \in Nat /\ hs[q].step \in Nat
  BY DEF HInv, TypeOK, States
<1>0. wire[p] \in Seq(Frames)
  BY <1>1, WireType
<1>2. \A i \in DOMAIN wire'[p] :
        \/ i \in DOMAIN wire[p] /\ wire'[p][i] = wire[p][i]
        \/ i = Len(wire[p]) + 1 /\ wire'[p][i] = WsClose
  <2>1. CASE wire'[p] = wire[p]
    BY <2>1
  <2>2. CASE wire'[p] = Append(wire[p], WsClose)
    BY <1>0, <2>2, AppendFacts, FrameKinds
  <2>3. QED BY <2>1, <2>2
<1>3. \A i \in DOMAIN wire'[p] :
        /\ i > 1 => wire'[p][i] \in {Data, WsClose}
        /\ wire'[p][i] = WsClose => ws'[p] = "closed"
        /\ wire'[p][i] # Data
  <2>1. \A i \in DOMAIN wire[p] : wire[p][i] # Data
    BY <1>1 DEF WireOK
  <2>2. QED BY <1>1, <1>2, <2>1, FrameKinds DEF WireOK
<1>4. wire'[p] # <<>> =>
        \/ wire[p] # <<>> /\ wire'[p][1] = wire[p][1] /\ 1 \in DOMAIN wire[p]
        \/ wire'[p][1] = WsClose
  <2>1. CASE wire'[p] = wire[p]
    BY <1>1, <2>1, WireType
  <2>2. CASE wire'[p] = Append(wire[p], WsClose)
    BY <1>0, <1>1, <2>2, AppendFacts, WireType, FrameKinds
  <2>3. QED BY <2>1, <2>2
<1>5. ASSUME wire'[p] # <<>>, wire[p] # <<>>, wire'[p][1] = wire[p][1],
             wire[p][1].type = "HANDSHAKE", 1 \in DOMAIN wire[p]
      PROVE  FrameOK(p, wire[p][1])'
  <2>1. FrameOK(p, wire[p][1])
    BY <1>1, <1>5 DEF WireOK
  <2>2. wire[p][1] \in Frames
    BY <1>1, <1>5, WireType
  <2>3. wire[p][1].message.index \in Nat
    BY <1>5, <2>2, FrameCases, FrameKinds DEF Messages, MessageCount
  <2>4. wire[p][1].message.index = 1 =>
          hs'["responder"].transcript[1] = hs["responder"].transcript[1]
    <3> SUFFICES ASSUME wire[p][1].message.index = 1
                 PROVE  hs["responder"].step # 0
      OBVIOUS
    <3>1. hs[p].step # 0 /\ hs[q].step # 0
      BY <1>1, <2>1 DEF FrameOK
    <3>2. QED BY <3>1, PeerFacts DEF Endpoints
  <2>5. wire[p][1].message.index < hs'[p].step
    BY <1>1, <2>1, <2>3 DEF FrameOK
  <2>6. First' = First /\ Second' = Second /\ CertificateOf(p)' = CertificateOf(p)
    BY DEF First, Second, CertificateOf
  <2>7. QED BY <1>5, <2>1, <2>4, <2>5, <2>6 DEF FrameOK
<1>6. wire'[p] # <<>> =>
        /\ wire'[p][1].type = "HANDSHAKE" => FrameOK(p, wire[p][1])'
        /\ wire'[p][1] = Malformed => altered /\ hs'[q].step < hs'[p].step
        /\ wire'[p][1] # Data
  <2>1. \A i \in DOMAIN wire[p] : wire[p][i] # Data
    BY <1>1 DEF WireOK
  <2>2. wire[p] # <<>> /\ wire[p][1] = Malformed => altered /\ hs[q].step < hs[p].step
    BY <1>1 DEF WireOK
  <2>3. QED BY <1>1, <1>4, <1>5, <2>1, <2>2, FrameKinds
<1>7. wire'[p] # <<>> /\ wire'[p][1].type = "HANDSHAKE" => wire'[p][1] = wire[p][1]
  BY <1>4, FrameKinds
<1>8. QED BY <1>3, <1>6, <1>7 DEF WireOK

\* Where p goes on without writing.
LEMMA OwnWireStays ==
    ASSUME HInv, NEW p \in Endpoints, NEW q \in Endpoints, q = Peer(p),
           pc[p] # "established" \/ pc'[p] = "established",
           altered' = altered, certified' = certified,
           hs'[q] = hs[q], pc'[q] = pc[q], ws'[p] = ws[p], wire'[p] = wire[p],
           \/ hs'[p].step = hs[p].step /\ hs'[p].transcript = hs[p].transcript
           \/ hs[q].step = 3 /\ hs'[p].step = 3 /\ hs[p].step \in Nat /\ hs[p].step <= 3
    PROVE  WireOK(p)'
<1>1. WireOK(p) /\ TypeOK /\ p = Peer(q)
  BY PeerFacts DEF HInv
<1>2. \A i \in DOMAIN wire[p] : wire[p][i] = Data => pc'[p] = "established"
  BY <1>1 DEF WireOK
<1>3. CASE hs'[p].step = hs[p].step /\ hs'[p].transcript = hs[p].transcript
  <2>1. hs'["responder"].transcript = hs["responder"].transcript
    BY <1>3, PeerFacts DEF Endpoints
  <2>2. \A f : FrameOK(p, f)' <=> FrameOK(p, f)
    BY <1>1, <1>3, <2>1 DEF FrameOK, CertificateOf, First, Second, Third
  <2>3. wire[p] # <<>> /\ wire[p][1].type = "HANDSHAKE" => FrameOK(p, wire[p][1])'
    BY <1>1, <2>2 DEF WireOK
  <2>4. QED BY <1>1, <1>2, <1>3, <2>3 DEF WireOK
<1>4. CASE hs[q].step = 3 /\ hs'[p].step = 3 /\ hs[p].step \in Nat /\ hs[p].step <= 3
  <2>1. wire[p] # <<>> => wire[p][1] \in {Data, WsClose}
    <3> SUFFICES ASSUME wire[p] # <<>> PROVE wire[p][1] \in {Data, WsClose}
      OBVIOUS
    <3>1. wire[p][1] \in Frames
      BY <1>1, WireType
    <3>2. wire[p][1] # Malformed /\ wire[p][1].type # "HANDSHAKE"
      BY <1>1, <1>4, FrameKinds DEF WireOK, FrameOK
    <3>3. QED BY <3>1, <3>2, FrameCases
  <2>2. wire[p] # <<>> =>
          /\ wire[p][1].type # "HANDSHAKE" /\ wire[p][1] # Malformed
          /\ wire[p][1] = Data => hs'[q].step = 3
    BY <1>4, <2>1, FrameKinds
  <2>3. QED BY <1>1, <1>2, <1>4, <2>2 DEF WireOK
<1>5. QED BY <1>3, <1>4

\* Where p writes a handshake message: there is nothing before it on the wire.
LEMMA OwnWireSends ==
    ASSUME TypeOK, NEW p \in Endpoints, NEW f \in Frames, f.type = "HANDSHAKE",
           wire[p] = <<>>, wire'[p] = Append(wire[p], f), FrameOK(p, f)'
    PROVE  WireOK(p)'
<1>1. wire[p] \in Seq(Frames) /\ Len(wire[p]) = 0 /\ DOMAIN wire[p] = {}
  BY WireType, EmptySeq, LenProperties
<1>2. /\ wire'[p] # <<>> /\ wire'[p][1] = f
      /\ \A i \in DOMAIN wire'[p] : i = 1 /\ wire'[p][i] = f
  BY <1>1, AppendFacts
<1>3. f # Data /\ f # WsClose /\ f # Malformed
  BY FrameKinds
<1>4. QED BY <1>2, <1>3 DEF WireOK
-----------------------------------------------------------------------------
(* The driver's steps.  p is the side that takes one, q the other.         *)

\* A side that fails, wherever it was: with a message less on the wire it reads
\* from, or with all as it was.
LEMMA FailKeeps ==
    ASSUME HInv, NEW p \in Endpoints, NEW q \in Endpoints, q = Peer(p),
           NEW h \in States, NEW w,
           NEW reason \in {"rejected", "closed", "refused", "timeout"},
           pc[p] # "established", pc[p] # "failed",
           Fail(p, h, w, reason), UNCHANGED <<config, altered>>,
           h.step >= hs[p].step,
           hs[p].step # 0 => h.transcript[1] = hs[p].transcript[1],
           \/ /\ w = wire
              /\ \/ h.step = hs[p].step /\ h.transcript = hs[p].transcript
                 \/ hs[q].step = 0
           \/ wire[q] # <<>> /\ w = [wire EXCEPT ![q] = Tail(@)],
           InitiatorAt', ResponderAt', reason = "refused" => altered
    PROVE  HInv'
<1>0. p # q /\ Endpoints = {p, q} /\ p = Peer(q)
  BY PeerFacts
<1>1. /\ TypeOK /\ hs[p] \in States /\ wire \in [Endpoints -> Seq(Frames)]
      /\ wire[p] \in Seq(Frames) /\ wire[q] \in Seq(Frames)
  BY DEF HInv, TypeOK
<1>2. /\ hs' = [hs EXCEPT ![p] = h] /\ pc' = [pc EXCEPT ![p] = "failed"]
      /\ why' = [why EXCEPT ![p] = reason] /\ ws' = [ws EXCEPT ![p] = "closed"]
      /\ certified' = certified /\ altered' = altered
  BY DEF Fail, config
<1>3. /\ hs'[p] = h /\ hs'[q] = hs[q] /\ pc'[p] = "failed" /\ pc'[q] = pc[q]
      /\ why'[p] = reason /\ why'[q] = why[q] /\ ws'[p] = "closed" /\ ws'[q] = ws[q]
  BY <1>0, <1>1, <1>2 DEF TypeOK
<1>4. /\ w \in [Endpoints -> Seq(Frames)] /\ w[p] = wire[p]
      /\ w[q] = wire[q] \/ (wire[q] # <<>> /\ w[q] = Tail(wire[q]))
  <2>1. CASE w = wire
    BY <1>1, <2>1
  <2>2. CASE wire[q] # <<>> /\ w = [wire EXCEPT ![q] = Tail(@)]
    <3>1. Tail(wire[q]) \in Seq(Frames)
      BY <1>1, <2>2, TailFacts
    <3>2. QED BY <1>0, <1>1, <2>2, <3>1 DEF TypeOK
  <2>3. QED BY <2>1, <2>2
<1>5. /\ wire' \in [Endpoints -> Seq(Frames)] /\ wire'[q] = w[q]
      /\ wire'[p] \in {wire[p], Append(wire[p], WsClose)}
  <2>1. Append(wire[p], WsClose) \in Seq(Frames)
    BY <1>1, AppendFacts, FrameKinds
  <2>2. QED BY <1>0, <1>4, <2>1 DEF Fail
<1>6. TypeOK'
  BY <1>1, <1>2, <1>5 DEF TypeOK
<1>7. DriverAt'
  <2>1. DriverAt
    BY DEF HInv
  <2>2. \A x \in Endpoints : pc'[x] # "failed" => x = q
    BY <1>0, <1>3
  <2>3. CASE q = "initiator"
    BY <1>3, <2>1, <2>2, <2>3 DEF DriverAt, Endpoints
  <2>4. CASE q = "responder"
    BY <1>3, <2>1, <2>2, <2>4 DEF DriverAt, Endpoints
  <2>5. QED BY <2>3, <2>4 DEF Endpoints
<1>8. WireOK(p)'
  <2>1. h.step \in Nat
    BY DEF States
  <2>2. hs["responder"].step # 0 =>
          hs'["responder"].transcript[1] = hs["responder"].transcript[1]
    BY <1>0, <1>3 DEF Endpoints
  <2>3. QED BY <1>2, <1>3, <1>5, <2>1, <2>2, OwnWireFails
<1>9. WireOK(q)'
  <2>1. CASE /\ w = wire
             /\ \/ h.step = hs[p].step /\ h.transcript = hs[p].transcript
                \/ hs[q].step = 0
    <3>1. wire'[q] = wire[q] /\ hs'[p].step \in Nat
      BY <1>3, <1>5, <2>1 DEF States
    <3>2. QED BY <1>2, <1>3, <2>1, <3>1, OtherWireStays
  <2>2. CASE wire[q] # <<>> /\ w = [wire EXCEPT ![q] = Tail(@)]
    <3>1. wire'[q] = Tail(wire[q])
      BY <1>1, <1>5, <2>2 DEF TypeOK
    <3>2. QED BY <1>2, <1>3, <2>2, <3>1, OtherWireRead
  <2>3. QED BY <2>1, <2>2
<1>10. RefusalMeansAltered'
  BY <1>0, <1>2, <1>3 DEF HInv, RefusalMeansAltered
<1>11. QED BY <1>0, <1>6, <1>7, <1>8, <1>9, <1>10 DEF HInv

\* A side that has sent its message and reads, or has finished; it may have read
\* the last message in this step.
LEMMA GoOnKeeps ==
    ASSUME HInv, NEW p \in Endpoints, NEW q \in Endpoints, q = Peer(p),
           NEW h \in States, NEW at \in {"reading", "established"},
           pc[p] # "established", pc[p] # "failed",
           hs' = [hs EXCEPT ![p] = h], pc' = [pc EXCEPT ![p] = at],
           UNCHANGED <<config, why, ws, altered>>,
           \/ /\ wire' = wire
              /\ h.step = hs[p].step /\ h.transcript = hs[p].transcript
           \/ /\ wire[q] # <<>> /\ wire' = [wire EXCEPT ![q] = Tail(@)]
              /\ hs[q].step = 3 /\ h.step = 3,
           InitiatorAt', ResponderAt', DriverAt'
    PROVE  HInv'
<1>0. p # q /\ Endpoints = {p, q}
  BY PeerFacts
<1>1. /\ TypeOK /\ hs[p] \in States /\ wire \in [Endpoints -> Seq(Frames)]
      /\ wire[q] \in Seq(Frames)
  BY DEF HInv, TypeOK
<1>2. /\ hs'[p] = h /\ hs'[q] = hs[q] /\ pc'[p] = at /\ pc'[q] = pc[q]
      /\ ws' = ws /\ why' = why /\ certified' = certified /\ altered' = altered
  BY <1>0, <1>1 DEF TypeOK, config
<1>3. hs[p].step \in Nat /\ hs[p].step <= 3
  BY <1>1 DEF States, MessageCount
<1>4. CASE /\ wire' = wire
           /\ h.step = hs[p].step /\ h.transcript = hs[p].transcript
  <2>1. WireOK(p)'
    BY <1>2, <1>4, OwnWireStays
  <2>2. WireOK(q)'
    BY <1>2, <1>4, OtherWireStays
  <2>3. TypeOK'
    BY <1>1, <1>2, <1>4 DEF TypeOK
  <2>4. QED BY <1>0, <1>2, <2>1, <2>2, <2>3 DEF HInv, RefusalMeansAltered
<1>5. CASE /\ wire[q] # <<>> /\ wire' = [wire EXCEPT ![q] = Tail(@)]
           /\ hs[q].step = 3 /\ h.step = 3
  <2>1. wire'[p] = wire[p] /\ wire'[q] = Tail(wire[q])
    BY <1>0, <1>1, <1>5
  <2>2. wire' \in [Endpoints -> Seq(Frames)]
    <3>1. Tail(wire[q]) \in Seq(Frames)
      BY <1>1, <1>5, TailFacts
    <3>2. QED BY <1>1, <1>5, <3>1
  <2>3. WireOK(p)'
    BY <1>2, <1>3, <1>5, <2>1, OwnWireStays
  <2>4. WireOK(q)'
    BY <1>2, <1>5, <2>1, OtherWireRead
  <2>5. TypeOK'
    BY <1>1, <1>2, <2>2 DEF TypeOK
  <2>6. QED BY <1>0, <1>2, <2>3, <2>4, <2>5 DEF HInv, RefusalMeansAltered
<1>6. QED BY <1>4, <1>5

\* A side that has written its next message, having read one or none.
LEMMA SendKeeps ==
    ASSUME HInv, NEW p \in Endpoints, NEW q \in Endpoints, q = Peer(p),
           NEW h \in States, NEW f \in Frames, f.type = "HANDSHAKE", NEW w,
           pc[p] # "established", pc[p] # "failed",
           hs' = [hs EXCEPT ![p] = h], pc' = [pc EXCEPT ![p] = "sending"],
           wire' = [w EXCEPT ![p] = Append(@, f)],
           UNCHANGED <<config, why, ws, altered>>,
           wire[p] = <<>>,
           \/ w = wire /\ hs[q].step = 0
           \/ /\ wire[q] # <<>> /\ w = [wire EXCEPT ![q] = Tail(@)]
              /\ h.step >= hs[q].step /\ hs[q].step # 3,
           FrameOK(p, f)', InitiatorAt', ResponderAt', DriverAt'
    PROVE  HInv'
<1>0. p # q /\ Endpoints = {p, q}
  BY PeerFacts
<1>1. /\ TypeOK /\ hs[p] \in States /\ wire \in [Endpoints -> Seq(Frames)]
      /\ wire[p] \in Seq(Frames) /\ wire[q] \in Seq(Frames) /\ h.step \in Nat
  BY DEF HInv, TypeOK, States, MessageCount
<1>2. /\ hs'[p] = h /\ hs'[q] = hs[q] /\ pc'[p] = "sending" /\ pc'[q] = pc[q]
      /\ ws' = ws /\ why' = why /\ certified' = certified /\ altered' = altered
  BY <1>0, <1>1 DEF TypeOK, config
<1>3. /\ w \in [Endpoints -> Seq(Frames)] /\ w[p] = wire[p]
      /\ \/ w[q] = wire[q] /\ hs[q].step = 0
         \/ /\ wire[q] # <<>> /\ w[q] = Tail(wire[q])
            /\ h.step >= hs[q].step /\ hs[q].step # 3
  <2>1. CASE w = wire /\ hs[q].step = 0
    BY <1>1, <2>1
  <2>2. CASE /\ wire[q] # <<>> /\ w = [wire EXCEPT ![q] = Tail(@)]
             /\ h.step >= hs[q].step /\ hs[q].step # 3
    <3>1. Tail(wire[q]) \in Seq(Frames)
      BY <1>1, <2>2, TailFacts
    <3>2. QED BY <1>0, <1>1, <2>2, <3>1
  <2>3. QED BY <2>1, <2>2
<1>4. /\ wire' \in [Endpoints -> Seq(Frames)]
      /\ wire'[p] = Append(wire[p], f) /\ wire'[q] = w[q]
  <2>1. Append(wire[p], f) \in Seq(Frames)
    BY <1>1, AppendFacts
  <2>2. QED BY <1>0, <1>3, <2>1
<1>5. WireOK(p)'
  BY <1>1, <1>4, OwnWireSends
<1>6. WireOK(q)'
  <2>1. CASE w[q] = wire[q] /\ hs[q].step = 0
    BY <1>1, <1>2, <1>4, <2>1, OtherWireStays
  <2>2. CASE /\ wire[q] # <<>> /\ w[q] = Tail(wire[q])
             /\ h.step >= hs[q].step /\ hs[q].step # 3
    BY <1>1, <1>2, <1>4, <2>2, OtherWireRead
  <2>3. QED BY <1>3, <2>1, <2>2
<1>7. TypeOK'
  BY <1>1, <1>2, <1>4 DEF TypeOK
<1>8. QED BY <1>0, <1>2, <1>5, <1>6, <1>7 DEF HInv, RefusalMeansAltered

\* Short sequences, as the transcripts are written above.
LEMMA PairOf ==
    ASSUME NEW S, NEW a \in S, NEW b \in S
    PROVE  Append(<<a>>, b) = <<a, b>>
<1> DEFINE s == <<a>> t == <<a, b>>
<1>1. /\ s \in Seq(S) /\ Len(s) = 1 /\ s[1] = a
      /\ t \in Seq(S) /\ Len(t) = 2 /\ t[1] = a /\ t[2] = b
  OBVIOUS
<1> HIDE DEF s, t
<1>2. /\ Append(s, b) \in Seq(S) /\ Len(Append(s, b)) = 2
      /\ \A i \in 1 .. 1 : Append(s, b)[i] = s[i]
      /\ Append(s, b)[2] = b
  <2>0. s \in Seq(S)
    BY <1>1
  <2>1. /\ Append(s, b) \in Seq(S) /\ Len(Append(s, b)) = Len(s) + 1
        /\ \A i \in 1 .. Len(s) : Append(s, b)[i] = s[i]
        /\ Append(s, b)[Len(s) + 1] = b
    BY <2>0, AppendProperties
  <2>2. QED BY <1>1, <2>1
<1>3. \A i \in 1 .. 2 : Append(s, b)[i] = t[i]
  BY <1>1, <1>2
<1>4. Append(s, b) = t
  BY <1>1, <1>2, <1>3, SeqEqual
<1>5. QED BY <1>4 DEF s, t

LEMMA TripleOf ==
    ASSUME NEW S, NEW a \in S, NEW b \in S, NEW c \in S
    PROVE  Append(<<a, b>>, c) = <<a, b, c>> /\ SubSeq(<<a, b, c>>, 1, 2) = <<a, b>>
<1> DEFINE s == <<a, b>> t == <<a, b, c>>
<1>1. /\ s \in Seq(S) /\ Len(s) = 2 /\ s[1] = a /\ s[2] = b
      /\ t \in Seq(S) /\ Len(t) = 3 /\ t[1] = a /\ t[2] = b /\ t[3] = c
  OBVIOUS
<1> HIDE DEF s, t
<1>2. /\ Append(s, c) \in Seq(S) /\ Len(Append(s, c)) = 3
      /\ \A i \in 1 .. 2 : Append(s, c)[i] = s[i]
      /\ Append(s, c)[3] = c
  <2>0. s \in Seq(S)
    BY <1>1
  <2>1. /\ Append(s, c) \in Seq(S) /\ Len(Append(s, c)) = Len(s) + 1
        /\ \A i \in 1 .. Len(s) : Append(s, c)[i] = s[i]
        /\ Append(s, c)[Len(s) + 1] = c
    BY <2>0, AppendProperties
  <2>2. QED BY <1>1, <2>1
<1>3. /\ SubSeq(t, 1, 2) \in Seq(S) /\ Len(SubSeq(t, 1, 2)) = 2
      /\ \A i \in 1 .. 2 : SubSeq(t, 1, 2)[i] = t[i]
  <2>1. \A i \in 1 .. 2 : t[i] \in S
    BY <1>1
  <2>2. QED BY <1>1, <2>1, SubSeqProperties
<1>4. \A i \in 1 .. 3 : Append(s, c)[i] = t[i]
  BY <1>1, <1>2
<1>5. Append(s, c) = t
  BY <1>1, <1>2, <1>4, SeqEqual
<1>6. \A i \in 1 .. 2 : SubSeq(t, 1, 2)[i] = s[i]
  BY <1>1, <1>3
<1>7. SubSeq(t, 1, 2) = s
  BY <1>1, <1>3, <1>6, SeqEqual
<1>8. QED BY <1>5, <1>7 DEF s, t

LEMMA AfterWriteFields ==
    ASSUME NEW h \in States, NEW m \in Messages, h.step < 3
    PROVE  /\ AfterWrite(h, m) \in States
           /\ AfterWrite(h, m).step = h.step + 1
           /\ AfterWrite(h, m).transcript = Append(h.transcript, m)
           /\ AfterWrite(h, m).writes = h.writes
           /\ AfterWrite(h, m).remoteStatic = h.remoteStatic
           /\ AfterWrite(h, m).peerCert = h.peerCert
<1>1. Append(h.transcript, m) \in Seq(Messages)
  BY AppendFacts DEF States
<1>2. h.step + 1 \in 0 .. MessageCount
  BY DEF States, MessageCount
<1>3. QED BY <1>1, <1>2 DEF AfterWrite, States

LEMMA AfterReadFields ==
    ASSUME NEW h \in States, NEW m \in Messages, h.step < 3
    PROVE  /\ AfterRead(h, m) \in States
           /\ AfterRead(h, m).step = h.step + 1
           /\ AfterRead(h, m).transcript = Append(h.transcript, m)
           /\ AfterRead(h, m).writes = h.writes
           /\ AfterRead(h, m).remoteStatic = IF m.index = 0 THEN h.remoteStatic ELSE m.by
           /\ AfterRead(h, m).peerCert =
                IF m.payload = Nothing THEN h.peerCert ELSE m.payload
<1>1. Append(h.transcript, m) \in Seq(Messages)
  BY AppendFacts DEF States
<1>2. m.by \in Endpoints /\ m.payload \in Payloads /\ h.step + 1 \in 0 .. MessageCount
  BY DEF Messages, States, MessageCount
<1>3. QED BY <1>1, <1>2 DEF AfterRead, States

LEMMA Turns ==
    ASSUME NEW h \in States
    PROVE  /\ IsComplete(h) <=> h.step = 3
           /\ h.step = 0 => NextIsWrite("initiator", h) /\ ~NextIsWrite("responder", h)
           /\ h.step = 1 => ~NextIsWrite("initiator", h) /\ NextIsWrite("responder", h)
           /\ h.step = 2 => NextIsWrite("initiator", h) /\ ~NextIsWrite("responder", h)
BY DEF States, MessageCount, IsComplete, NextIsWrite

\* A side writes its next message on an empty wire.
LEMMA NothingOnWire ==
    ASSUME HInv, NEW p \in Endpoints, ws[p] = "open", pc[p] # "established",
           hs[p].step <= hs[Peer(p)].step
    PROVE  wire[p] = <<>>
<1> SUFFICES ASSUME wire[p] # <<>> PROVE FALSE
  OBVIOUS
<1>0. TypeOK /\ WireOK(p) /\ hs[p] \in States /\ hs[Peer(p)] \in States
  BY PeerFacts DEF HInv, TypeOK
<1>1. TypeOK /\ WireOK(p) /\ hs[p].step \in Nat /\ hs[Peer(p)].step \in Nat
  BY <1>0 DEF States, MessageCount
<1>2. 1 \in DOMAIN wire[p] /\ wire[p][1] \in Frames
  BY <1>1, WireType
<1>3. wire[p][1] # Data /\ wire[p][1] # WsClose
  BY <1>1, <1>2 DEF WireOK
<1>4. wire[p][1] # Malformed
  BY <1>1 DEF WireOK
<1>5. wire[p][1].type # "HANDSHAKE"
  BY <1>1 DEF WireOK, FrameOK
<1>6. QED BY <1>2, <1>3, <1>4, <1>5, FrameCases

LEMMA FailInPlace ==
    ASSUME HInv, NEW p \in Endpoints, NEW reason \in {"rejected", "closed", "timeout"},
           pc[p] # "established", pc[p] # "failed",
           Fail(p, hs[p], wire, reason), UNCHANGED <<config, altered>>
    PROVE  HInv'
<1>1. Peer(p) \in Endpoints /\ TypeOK /\ hs[p] \in States /\ hs[p].step \in Nat
  BY PeerFacts DEF HInv, TypeOK, States, MessageCount
<1>2. hs' = hs /\ certified' = certified /\ altered' = altered
  BY <1>1 DEF TypeOK, Fail, config
<1>3. InitiatorAt' /\ ResponderAt'
  BY <1>2 DEF HInv, InitiatorAt, ResponderAt, First, Second, Third, CertificateOf
<1>4. QED BY <1>1, <1>3, FailKeeps

\* The initiator writes the first message.
LEMMA FirstWritten ==
    ASSUME HInv, Start("initiator"), WriteNext("initiator", hs["initiator"], wire)
    PROVE  HInv'
<1> DEFINE p == "initiator" q == "responder" h == AfterWrite(hs[p], First)
<1>1. /\ TypeOK /\ InitiatorAt /\ ResponderAt /\ DriverAt /\ pc[p] = "start"
      /\ hs[p] \in States /\ hs[q] \in States /\ UNCHANGED <<config, altered>>
  BY DEF HInv, TypeOK, Start, Endpoints
<1>2. /\ hs[p].step = 0 /\ hs[p].writes = 0 /\ hs[p].transcript = <<>>
      /\ hs[p].remoteStatic = Nothing /\ hs[p].peerCert = Nothing
  BY <1>1 DEF DriverAt, InitiatorAt
<1>3. hs[q].step = 0
  BY <1>1, <1>2 DEF ResponderAt
<1>4. /\ h \in States /\ h.step = 1 /\ h.writes = 0 /\ h.transcript = <<First>>
      /\ h.remoteStatic = Nothing /\ h.peerCert = Nothing
  BY <1>1, <1>2, AfterWriteFields, MessagesType
<1>5. hs' = [hs EXCEPT ![p] = h] /\ hs'[p] = h /\ hs'[q] = hs[q]
  <2>1. Message(p, hs[p].step, Nothing) = First /\ ~CertWrite(p, hs[p])
    BY <1>2 DEF First, CertWrite
  <2>2. hs' = [hs EXCEPT ![p] = h]
    BY <2>1 DEF WriteNext, Fail
  <2>3. QED BY <1>1, <2>2 DEF TypeOK, Endpoints
<1>6. certified' = certified /\ altered' = altered
  BY <1>1 DEF config
<1>7. InitiatorAt'
  BY <1>4, <1>5, <1>6 DEF InitiatorAt, First
<1>8. ResponderAt'
  BY <1>1, <1>3, <1>5 DEF ResponderAt
<1> HIDE DEF h
<1>9. CASE ws[p] = "open"
  <2> DEFINE f == HandshakeFrame(First, <<>>)
  <2>1. /\ pc' = [pc EXCEPT ![p] = "sending"] /\ wire' = [wire EXCEPT ![p] = Append(@, f)]
        /\ UNCHANGED <<why, ws>>
    <3>1. Message(p, hs[p].step, Nothing) = First /\ ~CertWrite(p, hs[p])
      BY <1>2 DEF First, CertWrite
    <3>2. QED BY <1>2, <1>9, <3>1 DEF WriteNext
  <2>2. f \in Frames /\ f.type = "HANDSHAKE"
    BY MessagesType DEF HandshakeFrame, Frames
  <2>3. wire[p] = <<>>
    BY <1>1, <1>2, <1>3, <1>9, NothingOnWire DEF Endpoints, Peer
  <2>4. FrameOK(p, f)'
    BY <1>3, <1>4, <1>5 DEF FrameOK, HandshakeFrame, First, Message, Peer
  <2>5. DriverAt'
    BY <1>1, <1>4, <1>5, <2>1 DEF DriverAt, TypeOK, Endpoints
  <2> HIDE DEF f
  <2>6. QED
    BY <1>1, <1>3, <1>4, <1>5, <1>7, <1>8, <2>1, <2>2, <2>3, <2>4, <2>5, SendKeeps
    DEF Endpoints, Peer
<1>10. CASE ws[p] = "closed"
  <2>1. Fail(p, h, wire, "closed")
    <3>1. Message(p, hs[p].step, Nothing) = First /\ ~CertWrite(p, hs[p])
      BY <1>2 DEF First, CertWrite
    <3>2. QED BY <1>2, <1>10, <3>1 DEF WriteNext, h
  <2>2. QED
    BY <1>1, <1>2, <1>3, <1>4, <1>7, <1>8, <2>1, FailKeeps DEF Endpoints, Peer
<1>11. QED BY <1>1, <1>9, <1>10 DEF TypeOK, Endpoints

\* The responder reads the first message, whatever has become of it, and writes
\* the second.
LEMMA SecondWritten ==
    ASSUME HInv, pc["responder"] = "reading", hs["responder"].step = 0,
           wire["initiator"] # <<>>, wire["initiator"][1].type = "HANDSHAKE",
           WriteNext("responder",
                     AfterRead(hs["responder"], wire["initiator"][1].message),
                     [wire EXCEPT !["initiator"] = Tail(@)]),
           UNCHANGED <<config, stalled, altered>>
    PROVE  HInv'
<1> DEFINE p == "responder" q == "initiator"
<1>1. /\ TypeOK /\ InitiatorAt /\ ResponderAt /\ DriverAt /\ WireOK(q)
      /\ hs[p] \in States /\ hs[q] \in States /\ wire[q] \in Seq(Frames)
      /\ certified' = certified /\ altered' = altered
  BY DEF HInv, TypeOK, Endpoints, config
<1>2. /\ hs[p].writes = 0 /\ hs[p].transcript = <<>>
      /\ hs[p].remoteStatic = Nothing /\ hs[p].peerCert = Nothing
  BY <1>1 DEF ResponderAt
<1>3. wire[q][1].message \in Messages /\ FrameOK(q, wire[q][1])
  BY <1>1, WireType, FrameCases, FrameKinds DEF WireOK, Endpoints
<1>4. PICK m \in Messages : m = wire[q][1].message
  BY <1>3
<1>5. PICK s \in Messages : s = Second
  BY MessagesType
<1>6. /\ m.by = q /\ m.index = 0 /\ hs[q].step > 0
      /\ m.intact => m.payload = Nothing
      /\ ~m.intact => altered
  BY <1>1, <1>3, <1>4 DEF FrameOK, Peer, States, MessageCount
<1>7. hs[q].step = 1
  BY <1>1, <1>2, <1>6 DEF InitiatorAt, States
<1>8. m = First \/ altered
  BY <1>6 DEF Messages, First, Message
<1>9. PICK r \in States : r = AfterRead(hs[p], m)
  BY <1>1, AfterReadFields
<1>10. /\ r.step = 1 /\ r.writes = 0 /\ r.transcript = <<m>> /\ r.remoteStatic = Nothing
       /\ m = First => r.peerCert = Nothing
  <2>1. m = First => m.payload = Nothing
    BY DEF First, Message
  <2>2. QED BY <1>1, <1>2, <1>6, <1>9, <2>1, AfterReadFields
<1>11. PICK h \in States : h = AfterWrite(r, s)
  BY <1>10, AfterWriteFields
<1>12. /\ h.step = 2 /\ h.writes = 0 /\ h.transcript = <<m, s>> /\ h.remoteStatic = Nothing
       /\ m = First => h.peerCert = Nothing
  <2>1. Append(<<m>>, s) = <<m, s>>
    BY PairOf
  <2>2. /\ h.step = r.step + 1 /\ h.transcript = Append(r.transcript, s)
        /\ h.writes = r.writes /\ h.remoteStatic = r.remoteStatic
        /\ h.peerCert = r.peerCert
    <3>1. r.step < 3
      BY <1>10
    <3>2. QED BY <1>11, <3>1, AfterWriteFields
  <2>3. QED BY <1>10, <2>1, <2>2
<1>13. Message(p, r.step, IF CertWrite(p, r) /\ p \in certified THEN p ELSE Nothing) = s
  BY <1>5, <1>10 DEF CertWrite, Second, CertificateOf
<1>14. PICK w : w = [wire EXCEPT ![q] = Tail(@)]
  OBVIOUS
<1>15. WriteNext(p, r, w)
  BY <1>4, <1>9, <1>14
<1>16. hs' = [hs EXCEPT ![p] = h] /\ hs'[p] = h /\ hs'[q] = hs[q]
  <2>1. hs' = [hs EXCEPT ![p] = h]
    BY <1>11, <1>13, <1>15 DEF WriteNext, Fail
  <2>2. QED BY <1>1, <2>1 DEF TypeOK, Endpoints
<1>17. Second' = s /\ First' = First
  BY <1>1, <1>5 DEF First, Second, CertificateOf
<1>18. InitiatorAt'
  BY <1>1, <1>7, <1>16 DEF InitiatorAt, First
<1>19. ResponderAt'
  BY <1>1, <1>7, <1>8, <1>12, <1>16, <1>17 DEF ResponderAt
<1>20. CASE ws[p] = "open"
  <2>1. PICK f : f = HandshakeFrame(s, r.transcript)
    OBVIOUS
  <2>2. /\ pc' = [pc EXCEPT ![p] = "sending"] /\ wire' = [w EXCEPT ![p] = Append(@, f)]
        /\ UNCHANGED <<why, ws>>
    BY <1>13, <1>15, <1>20, <2>1 DEF WriteNext
  <2>3. f.type = "HANDSHAKE" /\ f.message = s /\ f.before = <<m>>
    BY <1>10, <2>1 DEF HandshakeFrame
  <2>4. f \in Frames
    BY <1>10, <2>1 DEF HandshakeFrame, Frames
  <2>5. wire[p] = <<>>
    BY <1>1, <1>7, <1>20, NothingOnWire DEF Endpoints, Peer
  <2>6. FrameOK(p, f)'
    <3>1. CertificateOf(p)' = CertificateOf(p)
      BY <1>1 DEF CertificateOf
    <3>2. hs'["responder"].transcript[1] = m /\ hs'[p].step = 2 /\ hs'[Peer(p)].step = 1
      BY <1>7, <1>12, <1>16 DEF Peer
    <3>3. s.by = p /\ s.index = 1 /\ s.intact /\ s.payload = CertificateOf(p)
      BY <1>5 DEF Second, Message
    <3>4. QED BY <2>3, <3>1, <3>2, <3>3 DEF FrameOK
  <2>7. DriverAt'
    BY <1>1, <1>12, <1>16, <2>2 DEF DriverAt, TypeOK, Endpoints
  <2>8. p \in Endpoints /\ q \in Endpoints /\ q = Peer(p)
    BY DEF Endpoints, Peer
  <2>9. h.step >= hs[q].step /\ hs[q].step # 3
    BY <1>7, <1>12
  <2>10. QED
    BY <1>1, <1>14, <1>16, <1>18, <1>19, <2>2, <2>3, <2>4, <2>5, <2>6, <2>7, <2>8, <2>9,
       SendKeeps
<1>21. CASE ws[p] = "closed"
  <2>1. Fail(p, h, w, "closed")
    BY <1>11, <1>13, <1>15, <1>21 DEF WriteNext
  <2>2. h.step >= hs[p].step /\ p \in Endpoints /\ q \in Endpoints /\ q = Peer(p)
    BY <1>12 DEF Endpoints, Peer
  <2>3. QED
    BY <1>1, <1>14, <1>18, <1>19, <2>1, <2>2, FailKeeps
<1>22. QED BY <1>1, <1>20, <1>21 DEF TypeOK, Endpoints

\* The initiator reads the second message, which opens only if the first was
\* read as it was written, and writes the third.
LEMMA ThirdWritten ==
    ASSUME HInv, pc["initiator"] = "reading",
           wire["responder"] # <<>>, wire["responder"][1].type = "HANDSHAKE",
           Opens(hs["initiator"], wire["responder"][1]),
           WriteNext("initiator",
                     AfterRead(hs["initiator"], wire["responder"][1].message),
                     [wire EXCEPT !["responder"] = Tail(@)]),
           UNCHANGED <<config, stalled, altered>>
    PROVE  HInv'
<1> DEFINE p == "initiator" q == "responder"
<1>1. /\ TypeOK /\ InitiatorAt /\ ResponderAt /\ DriverAt /\ WireOK(q)
      /\ hs[p] \in States /\ hs[q] \in States /\ wire[q] \in Seq(Frames)
      /\ certified' = certified /\ altered' = altered
  BY DEF HInv, TypeOK, Endpoints, config
<1>2. /\ hs[p].step = 1 /\ hs[p].writes = 1 /\ hs[p].transcript = <<First>>
      /\ hs[p].remoteStatic = Nothing /\ hs[p].peerCert = Nothing
  BY <1>1 DEF InitiatorAt, DriverAt
<1>3. wire[q][1].message \in Messages /\ FrameOK(q, wire[q][1])
  BY <1>1, WireType, FrameCases, FrameKinds DEF WireOK, Endpoints
<1>4. PICK s \in Messages : s = Second
  BY MessagesType
<1>5. PICK t \in Messages : t = Third
  BY MessagesType
<1>6. First \in Messages
  BY MessagesType
<1>7. /\ wire[q][1].message.intact /\ wire[q][1].message.index = 1
      /\ wire[q][1].before = <<First>> /\ hs[q].step > 1
  BY <1>1, <1>2, <1>3 DEF FrameOK, Opens, Peer
<1>8. wire[q][1].message = s
  <2>1. PICK m \in Messages : m = wire[q][1].message
    BY <1>3
  <2>2. m.by = q /\ m.index = 1 /\ m.intact = TRUE /\ m.payload = CertificateOf(q)
    BY <1>3, <1>7, <2>1 DEF FrameOK, Messages
  <2>3. m = [by |-> q, index |-> 1, payload |-> CertificateOf(q), intact |-> TRUE]
    BY <2>2 DEF Messages
  <2>4. QED BY <1>4, <2>1, <2>3 DEF Second, Message
<1>9. hs[q].transcript[1] = First
  BY <1>3, <1>7 DEF FrameOK
<1>10. hs[q].step = 2 /\ hs[q].transcript = <<First, s>>
  BY <1>1, <1>2, <1>4, <1>7, <1>9 DEF ResponderAt
<1>11. /\ s.by = q /\ s.index = 1 /\ s.payload = CertificateOf(q)
       /\ t.by = p /\ t.index = 2 /\ t.payload = CertificateOf(p) /\ t.intact
  BY <1>4, <1>5 DEF Second, Third, Message
<1>12. PICK r \in States : r = AfterRead(hs[p], s)
  BY <1>1, <1>2, AfterReadFields
<1>13. /\ r.step = 2 /\ r.writes = 1 /\ r.transcript = <<First, s>>
       /\ r.remoteStatic = q /\ r.peerCert = CertificateOf(q)
  <2>1. Append(<<First>>, s) = <<First, s>>
    BY <1>6, PairOf
  <2>2. /\ r.step = hs[p].step + 1 /\ r.transcript = Append(hs[p].transcript, s)
        /\ r.writes = hs[p].writes
        /\ r.remoteStatic = IF s.index = 0 THEN hs[p].remoteStatic ELSE s.by
        /\ r.peerCert = IF s.payload = Nothing THEN hs[p].peerCert ELSE s.payload
    <3>1. hs[p].step < 3
      BY <1>2
    <3>2. QED BY <1>1, <1>12, <3>1, AfterReadFields
  <2>3. QED BY <1>2, <1>11, <2>1, <2>2
<1>14. r.step < 3
  BY <1>13
<1>15. PICK h \in States : h = AfterWrite(r, t)
  BY <1>14, AfterWriteFields
<1>16. /\ h.step = 3 /\ h.writes = 1 /\ h.transcript = <<First, s, t>>
       /\ h.remoteStatic = q /\ h.peerCert = CertificateOf(q)
  <2>1. Append(<<First, s>>, t) = <<First, s, t>>
    BY <1>6, TripleOf
  <2>2. /\ h.step = r.step + 1 /\ h.transcript = Append(r.transcript, t)
        /\ h.writes = r.writes /\ h.remoteStatic = r.remoteStatic
        /\ h.peerCert = r.peerCert
    BY <1>14, <1>15, AfterWriteFields
  <2>3. QED BY <1>13, <2>1, <2>2
<1>17. Message(p, r.step, IF CertWrite(p, r) /\ p \in certified THEN p ELSE Nothing) = t
  BY <1>5, <1>13 DEF CertWrite, Third, CertificateOf
<1>18. PICK w : w = [wire EXCEPT ![q] = Tail(@)]
  OBVIOUS
<1>19. WriteNext(p, r, w)
  BY <1>8, <1>12, <1>18
<1>20. hs' = [hs EXCEPT ![p] = h] /\ hs'[p] = h /\ hs'[q] = hs[q]
  <2>1. hs' = [hs EXCEPT ![p] = h]
    BY <1>15, <1>17, <1>19 DEF WriteNext, Fail
  <2>2. QED BY <1>1, <2>1 DEF TypeOK, Endpoints
<1>21. /\ First' = First /\ Second' = s /\ Third' = t
       /\ CertificateOf(p)' = CertificateOf(p) /\ CertificateOf(q)' = CertificateOf(q)
  BY <1>1, <1>4, <1>5 DEF First, Second, Third, CertificateOf
<1>22. InitiatorAt'
  BY <1>10, <1>16, <1>20, <1>21 DEF InitiatorAt
<1>23. ResponderAt'
  BY <1>1, <1>4, <1>10, <1>16, <1>20, <1>21 DEF ResponderAt
<1>24. p \in Endpoints /\ q \in Endpoints /\ q = Peer(p)
  BY DEF Endpoints, Peer
<1>25. CASE ws[p] = "open"
  <2>1. PICK f : f = HandshakeFrame(t, r.transcript)
    OBVIOUS
  <2>2. /\ pc' = [pc EXCEPT ![p] = "sending"] /\ wire' = [w EXCEPT ![p] = Append(@, f)]
        /\ UNCHANGED <<why, ws>>
    BY <1>17, <1>19, <1>25, <2>1 DEF WriteNext
  <2>3. f.type = "HANDSHAKE" /\ f.message = t /\ f.before = <<First, s>>
    BY <1>13, <2>1 DEF HandshakeFrame
  <2>4. f \in Frames
    BY <1>6, <1>13, <2>1 DEF HandshakeFrame, Frames
  <2>5. wire[p] = <<>>
    BY <1>1, <1>2, <1>10, <1>24, <1>25, NothingOnWire
  <2>6. FrameOK(p, f)'
    <3>1. hs'[p].step = 3 /\ hs'[Peer(p)].step = 2
      BY <1>10, <1>16, <1>20, <1>24
    <3>2. QED BY <1>11, <1>21, <2>3, <3>1 DEF FrameOK
  <2>7. DriverAt'
    BY <1>1, <1>16, <1>20, <2>2 DEF DriverAt, TypeOK, Endpoints
  <2>8. h.step >= hs[q].step /\ hs[q].step # 3
    BY <1>10, <1>16
  <2>9. QED
    BY <1>1, <1>18, <1>20, <1>22, <1>23, <1>24, <2>2, <2>3, <2>4, <2>5, <2>6, <2>7, <2>8,
       SendKeeps
<1>26. CASE ws[p] = "closed"
  <2>1. Fail(p, h, w, "closed")
    BY <1>15, <1>17, <1>19, <1>26 DEF WriteNext
  <2>2. h.step >= hs[p].step /\ h.transcript[1] = hs[p].transcript[1]
    BY <1>2, <1>16
  <2>3. QED
    BY <1>1, <1>18, <1>22, <1>23, <1>24, <2>1, <2>2, FailKeeps
<1>27. QED BY <1>1, <1>25, <1>26 DEF TypeOK, Endpoints

\* The responder reads the third message and is done.
LEMMA ThirdRead ==
    ASSUME HInv, pc["responder"] = "reading", hs["responder"].step = 2,
           wire["initiator"] # <<>>, wire["initiator"][1].type = "HANDSHAKE",
           Opens(hs["responder"], wire["initiator"][1]),
           Conclude("responder",
                    AfterRead(hs["responder"], wire["initiator"][1].message),
                    [wire EXCEPT !["initiator"] = Tail(@)]),
           UNCHANGED <<config, stalled, altered>>
    PROVE  HInv'
<1> DEFINE p == "responder" q == "initiator"
<1>1. /\ TypeOK /\ InitiatorAt /\ ResponderAt /\ DriverAt /\ WireOK(q)
      /\ hs[p] \in States /\ hs[q] \in States /\ wire[q] \in Seq(Frames)
      /\ certified' = certified /\ altered' = altered
  BY DEF HInv, TypeOK, Endpoints, config
<1>2. wire[q][1].message \in Messages /\ FrameOK(q, wire[q][1])
  BY <1>1, WireType, FrameCases, FrameKinds DEF WireOK, Endpoints
<1>3. PICK s \in Messages : s = Second
  BY MessagesType
<1>4. PICK t \in Messages : t = Third
  BY MessagesType
<1>5. First \in Messages
  BY MessagesType
<1>6. /\ wire[q][1].message.intact /\ wire[q][1].message.index = 2
      /\ wire[q][1].before = <<First, s>> /\ wire[q][1].before = hs[p].transcript
      /\ hs[q].step > 2
  BY <1>1, <1>2, <1>3 DEF FrameOK, Opens, Peer
<1>7. wire[q][1].message = t
  <2>1. PICK m \in Messages : m = wire[q][1].message
    BY <1>2
  <2>2. m.by = q /\ m.index = 2 /\ m.intact = TRUE /\ m.payload = CertificateOf(q)
    BY <1>2, <1>6, <2>1 DEF FrameOK, Messages
  <2>3. m = [by |-> q, index |-> 2, payload |-> CertificateOf(q), intact |-> TRUE]
    BY <2>2 DEF Messages
  <2>4. QED BY <1>4, <2>1, <2>3 DEF Third, Message
<1>8. hs[q].step = 3
  BY <1>1, <1>6 DEF InitiatorAt, States
<1>9. /\ hs[p].transcript = <<First, s>> /\ hs[p].writes = 1
      /\ hs[p].remoteStatic = Nothing /\ hs[p].peerCert = Nothing
  BY <1>1, <1>3, <1>6 DEF ResponderAt, DriverAt
<1>10. t.by = q /\ t.index = 2 /\ t.payload = CertificateOf(q)
  BY <1>4 DEF Third, Message
<1>11. PICK h \in States : h = AfterRead(hs[p], t)
  BY <1>1, AfterReadFields
<1>12. /\ h.step = 3 /\ h.transcript = <<First, s, t>>
       /\ h.remoteStatic = q /\ h.peerCert = CertificateOf(q)
  <2>1. Append(<<First, s>>, t) = <<First, s, t>>
    BY <1>5, TripleOf
  <2>2. /\ h.step = hs[p].step + 1 /\ h.transcript = Append(hs[p].transcript, t)
        /\ h.remoteStatic = IF t.index = 0 THEN hs[p].remoteStatic ELSE t.by
        /\ h.peerCert = IF t.payload = Nothing THEN hs[p].peerCert ELSE t.payload
    <3>1. hs[p].step < 3
      OBVIOUS
    <3>2. QED BY <1>1, <1>11, <3>1, AfterReadFields
  <2>3. QED BY <1>9, <1>10, <2>1, <2>2
<1>13. PICK w : w = [wire EXCEPT ![q] = Tail(@)]
  OBVIOUS
<1>14. Conclude(p, h, w)
  BY <1>7, <1>11, <1>13
<1>15. hs' = [hs EXCEPT ![p] = h] /\ hs'[p] = h /\ hs'[q] = hs[q]
  <2>1. hs' = [hs EXCEPT ![p] = h]
    BY <1>14 DEF Conclude, Fail
  <2>2. QED BY <1>1, <2>1 DEF TypeOK, Endpoints
<1>16. /\ First' = First /\ Second' = s /\ Third' = t
       /\ CertificateOf(p)' = CertificateOf(p) /\ CertificateOf(q)' = CertificateOf(q)
  BY <1>1, <1>3, <1>4 DEF First, Second, Third, CertificateOf
<1>17. InitiatorAt'
  BY <1>1, <1>3, <1>4, <1>8, <1>12, <1>15, <1>16 DEF InitiatorAt
<1>18. ResponderAt'
  BY <1>8, <1>12, <1>15, <1>16 DEF ResponderAt
<1>19. p \in Endpoints /\ q \in Endpoints /\ q = Peer(p)
  BY DEF Endpoints, Peer
<1>20. CASE /\ pc' = [pc EXCEPT ![p] = "established"] /\ wire' = w
            /\ UNCHANGED <<why, ws>>
  <2>1. DriverAt'
    BY <1>1, <1>12, <1>15, <1>20 DEF DriverAt, TypeOK, Endpoints
  <2>2. QED
    BY <1>1, <1>8, <1>12, <1>13, <1>15, <1>17, <1>18, <1>19, <1>20, <2>1, GoOnKeeps
<1>21. CASE Fail(p, h, w, "rejected")
  <2>1. h.step >= hs[p].step /\ h.transcript[1] = hs[p].transcript[1]
    BY <1>9, <1>12
  <2>2. QED
    BY <1>1, <1>13, <1>17, <1>18, <1>19, <1>21, <2>1, FailKeeps
<1>22. QED BY <1>14, <1>20, <1>21 DEF Conclude

\* A send has returned.
LEMMA SendReturnsKeeps ==
    ASSUME HInv, NEW p \in Endpoints, SendReturns(p)
    PROVE  HInv'
<1>0. PICK q \in Endpoints : q = Peer(p)
  BY PeerFacts
<1>1. /\ TypeOK /\ InitiatorAt /\ ResponderAt /\ DriverAt /\ hs[p] \in States
      /\ certified' = certified /\ altered' = altered
      /\ UNCHANGED <<config, altered>> /\ pc[p] = "sending"
  BY DEF HInv, TypeOK, SendReturns, config
<1>2. hs[p].writes \in {0, 1} /\ hs[p].step \in {1, 2, 3}
  BY <1>1 DEF DriverAt, Endpoints
<1>3. PICK h \in States : h = [hs[p] EXCEPT !.writes = @ + 1]
  <2>1. hs[p].writes + 1 \in 0 .. 2
    BY <1>2
  <2>2. [hs[p] EXCEPT !.writes = hs[p].writes + 1] \in States
    BY <1>1, <2>1 DEF States
  <2>3. QED BY <2>2
<1>4. /\ h.step = hs[p].step /\ h.transcript = hs[p].transcript
      /\ h.writes = hs[p].writes + 1
      /\ h.remoteStatic = hs[p].remoteStatic /\ h.peerCert = hs[p].peerCert
  BY <1>1, <1>3 DEF States
<1>5. CASE ws[p] = "closed" /\ Fail(p, hs[p], wire, "closed")
  BY <1>1, <1>5, FailInPlace
<1>6. CASE Continue(p, h, wire)
  <2>1. hs' = [hs EXCEPT ![p] = h] =>
          /\ \A x \in Endpoints :
               /\ hs'[x].step = hs[x].step /\ hs'[x].transcript = hs[x].transcript
               /\ hs'[x].remoteStatic = hs[x].remoteStatic
               /\ hs'[x].peerCert = hs[x].peerCert
               /\ hs'[x].writes = IF x = p THEN hs[p].writes + 1 ELSE hs[x].writes
          /\ hs'[p] = h
    BY <1>1, <1>4 DEF TypeOK
  <2>2. ASSUME hs' = [hs EXCEPT ![p] = h] PROVE InitiatorAt' /\ ResponderAt'
    <3>1. First' = First /\ Second' = Second /\ Third' = Third
          /\ CertificateOf("initiator")' = CertificateOf("initiator")
          /\ CertificateOf("responder")' = CertificateOf("responder")
      BY <1>1 DEF First, Second, Third, CertificateOf
    <3>2. /\ p = "initiator" /\ hs[p].step = 1 => hs[p].writes = 0
          /\ p = "responder" => hs[p].step = 2 /\ hs[p].writes = 0
      BY <1>1 DEF DriverAt
    <3>3. InitiatorAt'
      <4>1. CASE p = "initiator"
        <5>1. hs[p].step = 3 \/ (hs[p].step = 1 /\ hs'[p].writes = 1)
          BY <1>1, <1>2, <2>1, <2>2, <3>2, <4>1 DEF InitiatorAt
        <5>2. QED BY <1>1, <2>1, <2>2, <3>1, <4>1, <5>1 DEF InitiatorAt, Endpoints
      <4>2. CASE p = "responder"
        BY <1>1, <2>1, <2>2, <3>1, <4>2 DEF InitiatorAt, Endpoints
      <4>3. QED BY <4>1, <4>2 DEF Endpoints
    <3>4. ResponderAt'
      BY <1>1, <2>1, <2>2, <3>1, <3>2 DEF ResponderAt, Endpoints
    <3>5. QED BY <3>3, <3>4
  <2>3. CASE IsComplete(h)
    <3>1. Conclude(p, h, wire) /\ h.step = 3
      BY <1>6, <2>3, Turns DEF Continue
    <3>2. CASE /\ hs' = [hs EXCEPT ![p] = h] /\ pc' = [pc EXCEPT ![p] = "established"]
               /\ wire' = wire /\ UNCHANGED <<why, ws>>
      <4>1. DriverAt'
        BY <1>1, <2>1, <3>1, <3>2 DEF DriverAt, TypeOK, Endpoints
      <4>2. QED BY <1>0, <1>1, <1>4, <2>2, <3>2, <4>1, GoOnKeeps
    <3>3. CASE Fail(p, h, wire, "rejected")
      <4>1. hs' = [hs EXCEPT ![p] = h] /\ h.step >= hs[p].step
            /\ h.transcript[1] = hs[p].transcript[1]
        BY <1>2, <1>4, <3>3 DEF Fail
      <4>2. QED BY <1>0, <1>1, <1>4, <2>2, <3>3, <4>1, FailKeeps
    <3>4. QED BY <3>1, <3>2, <3>3 DEF Conclude
  <2>4. CASE ~IsComplete(h)
    <3>1. h.step # 3
      BY <2>4, Turns
    <3>2. /\ p = "initiator" => h.step = 1 /\ h.writes = 1
          /\ p = "responder" => h.step = 2 /\ h.writes = 1
      BY <1>1, <1>4, <3>1 DEF DriverAt
    <3>3. ~NextIsWrite(p, h)
      BY <3>2, Turns DEF Endpoints
    <3>4. /\ hs' = [hs EXCEPT ![p] = h] /\ pc' = [pc EXCEPT ![p] = "reading"]
          /\ wire' = wire /\ UNCHANGED <<why, ws>>
      BY <1>6, <2>4, <3>3 DEF Continue
    <3>5. DriverAt'
      BY <1>1, <2>1, <3>2, <3>4 DEF DriverAt, TypeOK, Endpoints
    <3>6. QED BY <1>0, <1>1, <1>4, <2>2, <3>4, <3>5, GoOnKeeps
  <2>5. QED BY <2>3, <2>4
<1>7. QED BY <1>3, <1>5, <1>6 DEF SendReturns

LEMMA StartKeeps ==
    ASSUME HInv, NEW p \in Endpoints, Start(p)
    PROVE  HInv'
<1>0. PICK q \in Endpoints : q = Peer(p)
  BY PeerFacts
<1>1. /\ TypeOK /\ DriverAt /\ hs[p] \in States /\ UNCHANGED <<config, altered>>
      /\ pc[p] = "start" /\ hs[p].step = 0
  BY DEF HInv, TypeOK, DriverAt, Endpoints, Start
<1>2. CASE p = "initiator" /\ Fail(p, hs[p], wire, "rejected")
  BY <1>1, <1>2, FailInPlace
<1>3. CASE p = "initiator" /\ Continue(p, hs[p], wire)
  <2>1. WriteNext(p, hs[p], wire)
    BY <1>1, <1>3, Turns DEF Continue
  <2>2. QED BY <1>3, <2>1, FirstWritten
<1>4. CASE p = "responder" /\ Continue(p, hs[p], wire)
  <2>1. /\ hs' = [hs EXCEPT ![p] = hs[p]] /\ pc' = [pc EXCEPT ![p] = "reading"]
        /\ wire' = wire /\ UNCHANGED <<why, ws>>
    BY <1>1, <1>4, Turns DEF Continue
  <2>2. hs' = hs /\ certified' = certified
    BY <1>1, <2>1 DEF TypeOK, config
  <2>3. InitiatorAt' /\ ResponderAt'
    BY <1>1, <2>2 DEF HInv, InitiatorAt, ResponderAt, First, Second, Third, CertificateOf
  <2>4. DriverAt'
    BY <1>1, <1>4, <2>1, <2>2 DEF DriverAt, TypeOK, Endpoints
  <2>5. QED BY <1>0, <1>1, <2>1, <2>3, <2>4, GoOnKeeps
<1>5. QED BY <1>2, <1>3, <1>4 DEF Start, Endpoints

\* A message that does not open, or is no handshake message, has been altered;
\* or it follows one that was.
LEMMA RefusedIsAltered ==
    ASSUME HInv, NEW p \in Endpoints, pc[p] = "reading",
           wire[Peer(p)] # <<>>, wire[Peer(p)][1] # WsClose,
           wire[Peer(p)][1].type = "HANDSHAKE" => ~Opens(hs[p], wire[Peer(p)][1])
    PROVE  altered
<1>0. PICK q \in Endpoints : q = Peer(p) /\ p = Peer(q)
  BY PeerFacts
<1>1. /\ TypeOK /\ InitiatorAt /\ ResponderAt /\ DriverAt /\ WireOK(q)
      /\ hs[p] \in States /\ hs[q] \in States
  BY DEF HInv, TypeOK
<1>2. wire[q][1] \in Frames
  BY <1>0, <1>1, WireType
<1>3. hs[p].step # 3
  BY <1>1 DEF DriverAt, Endpoints
<1>4. wire[q][1] # Data
  BY <1>0, <1>1, <1>3 DEF WireOK
<1>5. CASE wire[q][1] = Malformed
  BY <1>0, <1>1, <1>5 DEF WireOK
<1>6. CASE wire[q][1].type = "HANDSHAKE"
  <2>1. FrameOK(q, wire[q][1]) /\ ~Opens(hs[p], wire[q][1])
    BY <1>0, <1>1, <1>6 DEF WireOK
  <2>2. wire[q][1].message.index = hs[p].step /\ hs[p].step # 0 /\ hs[p].step < hs[q].step
    BY <1>0, <2>1 DEF FrameOK, Opens
  <2>3. CASE ~wire[q][1].message.intact
    BY <2>1, <2>3 DEF FrameOK
  <2>4. CASE wire[q][1].message.intact
    <3>1. wire[q][1].before # hs[p].transcript
      BY <2>1, <2>2, <2>4 DEF Opens
    <3>2. CASE p = "initiator"
      <4>1. hs[p].step = 1 /\ hs[p].transcript = <<First>>
        BY <1>1, <2>2, <3>2, <1>3 DEF InitiatorAt
      <4>2. q = "responder"
        BY <1>0, <3>2 DEF Peer
      <4>3. wire[q][1].before = <<hs[q].transcript[1]>>
        BY <2>1, <2>2, <4>1, <4>2 DEF FrameOK
      <4>4. hs[q].transcript[1] # First
        BY <3>1, <4>1, <4>3
      <4>5. hs[q].step = 2
        BY <1>1, <2>2, <3>2, <4>1, <4>2 DEF ResponderAt
      <4>6. QED BY <1>1, <4>2, <4>4, <4>5 DEF ResponderAt
    <3>3. CASE p = "responder"
      <4>1. hs[p].step = 2
        BY <1>1, <1>3, <2>2, <3>3 DEF ResponderAt
      <4>2. q = "initiator" /\ wire[q][1].before = <<First, Second>>
        BY <1>0, <2>1, <2>2, <3>3, <4>1 DEF FrameOK, Peer
      <4>3. hs[q].step = 3
        BY <1>1, <2>2, <4>1, <4>2 DEF InitiatorAt
      <4>4. hs[p].transcript \in {<<First, Second>>, <<First, Second, Third>>}
        BY <1>1, <3>3, <4>2, <4>3 DEF InitiatorAt
      <4>5. PICK m : hs[p].transcript = <<m, Second>>
        BY <1>1, <3>3, <4>1 DEF ResponderAt
      <4>6. QED BY <3>1, <4>2, <4>4, <4>5
    <3>4. QED BY <3>2, <3>3 DEF Endpoints
  <2>5. QED BY <2>3, <2>4
<1>7. QED BY <1>0, <1>2, <1>4, <1>5, <1>6, FrameCases

LEMMA ReadKeeps ==
    ASSUME HInv, NEW p \in Endpoints, Read(p)
    PROVE  HInv'
<1>0. PICK q \in Endpoints : q = Peer(p)
  BY PeerFacts
<1>1. /\ TypeOK /\ InitiatorAt /\ ResponderAt /\ DriverAt /\ hs[p] \in States
      /\ wire[q] \in Seq(Frames) /\ WireOK(q) /\ pc[p] = "reading"
      /\ UNCHANGED <<config, stalled, altered>>
  BY DEF HInv, TypeOK, Read
<1>2. PICK f : f = Head(wire[q])
  OBVIOUS
<1>3. PICK rest : rest = [wire EXCEPT ![q] = Tail(@)]
  OBVIOUS
<1>4. wire[q] # <<>> => f = wire[q][1]
  BY <1>1, <1>2, TailFacts
<1>5. CASE /\ wire[q] # <<>> /\ f.type = "HANDSHAKE" /\ Opens(hs[p], f)
           /\ Continue(p, AfterRead(hs[p], f.message), rest)
  <2>1. f.message \in Messages
    BY <1>0, <1>1, <1>4, <1>5, WireType, FrameCases, FrameKinds
  <2>2. CASE p = "initiator"
    <3>1. q = "responder" /\ hs[p].step = 1
      BY <1>0, <1>1, <2>2 DEF Peer, DriverAt
    <3>2. PICK h \in States : h = AfterRead(hs[p], f.message) /\ h.step = 2
      BY <1>1, <2>1, <3>1, AfterReadFields
    <3>3. WriteNext(p, h, rest)
      BY <1>5, <2>2, <3>2, Turns DEF Continue
    <3>4. QED BY <1>1, <1>3, <1>4, <1>5, <2>2, <3>1, <3>2, <3>3, ThirdWritten
  <2>3. CASE p = "responder" /\ hs[p].step = 0
    <3>1. q = "initiator"
      BY <1>0, <2>3 DEF Peer
    <3>2. PICK h \in States : h = AfterRead(hs[p], f.message) /\ h.step = 1
      BY <1>1, <2>1, <2>3, AfterReadFields
    <3>3. WriteNext(p, h, rest)
      BY <1>5, <2>3, <3>2, Turns DEF Continue
    <3>4. QED BY <1>1, <1>3, <1>4, <1>5, <2>3, <3>1, <3>2, <3>3, SecondWritten
  <2>4. CASE p = "responder" /\ hs[p].step = 2
    <3>1. q = "initiator"
      BY <1>0, <2>4 DEF Peer
    <3>2. PICK h \in States : h = AfterRead(hs[p], f.message) /\ h.step = 3
      BY <1>1, <2>1, <2>4, AfterReadFields
    <3>3. Conclude(p, h, rest)
      BY <1>5, <2>4, <3>2, Turns DEF Continue
    <3>4. QED BY <1>1, <1>3, <1>4, <1>5, <2>4, <3>1, <3>2, <3>3, ThirdRead
  <2>5. QED BY <1>1, <2>2, <2>3, <2>4 DEF DriverAt, Endpoints
<1>6. CASE /\ wire[q] # <<>> /\ f # WsClose
           /\ f.type = "HANDSHAKE" => ~Opens(hs[p], f)
           /\ Fail(p, hs[p], rest, "refused")
  <2>1. altered
    BY <1>0, <1>1, <1>4, <1>6, RefusedIsAltered
  <2>2. hs' = hs /\ certified' = certified /\ altered' = altered
    BY <1>1, <1>6 DEF TypeOK, Fail, config
  <2>3. InitiatorAt' /\ ResponderAt'
    BY <1>1, <2>2 DEF InitiatorAt, ResponderAt, First, Second, Third, CertificateOf
  <2>4. hs[p].step >= hs[p].step
    BY <1>1 DEF States, MessageCount
  <2>5. QED BY <1>0, <1>1, <1>3, <1>6, <2>1, <2>3, <2>4, FailKeeps
<1>7. CASE Fail(p, hs[p], wire, "closed")
  BY <1>1, <1>7, FailInPlace
<1>8. QED BY <1>0, <1>2, <1>3, <1>5, <1>6, <1>7 DEF Read

LEMMA TimeoutKeeps ==
    ASSUME HInv, NEW p \in Endpoints, Timeout(p)
    PROVE  HInv'
BY FailInPlace DEF Timeout
-----------------------------------------------------------------------------
(* The session's steps, the WebSocket's and the world's.                   *)

\* They leave the two handshakes where they are.
LEMMA WiresSuffice ==
    ASSUME HInv, UNCHANGED <<config, pc, why, hs>>,
           altered' \in BOOLEAN, altered => altered',
           wire' \in [Endpoints -> Seq(Frames)], ws' \in [Endpoints -> {"open", "closed"}],
           \A p \in Endpoints : WireOK(p)'
    PROVE  HInv'
<1>1. /\ TypeOK /\ certified' = certified /\ pc' = pc /\ why' = why /\ hs' = hs
  BY DEF HInv, config
<1>2. First' = First /\ Second' = Second /\ Third' = Third
      /\ CertificateOf("initiator")' = CertificateOf("initiator")
      /\ CertificateOf("responder")' = CertificateOf("responder")
  BY <1>1 DEF First, Second, Third, CertificateOf
<1>3. TypeOK' /\ InitiatorAt' /\ DriverAt' /\ RefusalMeansAltered'
  BY <1>1, <1>2 DEF HInv, TypeOK, InitiatorAt, DriverAt, RefusalMeansAltered
<1>4. ResponderAt'
  BY <1>1, <1>2 DEF HInv, ResponderAt
<1>5. QED BY <1>3, <1>4 DEF HInv

LEMMA WireUntouched ==
    ASSUME HInv, UNCHANGED <<config, pc, hs>>, altered => altered',
           NEW p \in Endpoints, wire'[p] = wire[p], ws'[p] \in {ws[p], "closed"}
    PROVE  WireOK(p)'
<1>1. WireOK(p) /\ certified' = certified /\ pc' = pc /\ hs' = hs
  BY DEF HInv, config
<1>2. ASSUME NEW f, FrameOK(p, f) PROVE FrameOK(p, f)'
  BY <1>1, <1>2 DEF FrameOK, CertificateOf, First, Second
<1>3. wire[p] # <<>> /\ wire[p][1].type = "HANDSHAKE" => FrameOK(p, wire[p][1])'
  <2> SUFFICES ASSUME wire[p] # <<>>, wire[p][1].type = "HANDSHAKE"
               PROVE  FrameOK(p, wire[p][1])'
    OBVIOUS
  <2>1. PICK f : f = wire[p][1] /\ f = wire'[p][1]
    OBVIOUS
  <2>2. FrameOK(p, f)
    BY <1>1, <2>1 DEF WireOK
  <2>3. FrameOK(p, f)'
    BY <1>2, <2>2
  <2>4. QED BY <2>1, <2>3
<1>4. QED BY <1>1, <1>3 DEF WireOK

\* Once p is done, what it writes after its last handshake message.
LEMMA WrittenAfter ==
    ASSUME HInv, UNCHANGED <<config, pc, why, hs, altered>>,
           NEW p \in Endpoints, pc[p] = "established", ws[p] = "open",
           NEW x \in {Data, WsClose}, wire' = [wire EXCEPT ![p] = Append(@, x)],
           ws' = IF x = Data THEN ws ELSE [ws EXCEPT ![p] = "closed"]
    PROVE  HInv'
<1>0. PICK q \in Endpoints : q = Peer(p) /\ q # p /\ Endpoints = {p, q}
  BY PeerFacts
<1>1. /\ TypeOK /\ WireOK(p) /\ wire[p] \in Seq(Frames) /\ x \in Frames
      /\ wire \in [Endpoints -> Seq(Frames)] /\ ws \in [Endpoints -> {"open", "closed"}]
      /\ certified' = certified /\ pc' = pc /\ hs' = hs /\ altered' = altered
  BY FrameKinds DEF HInv, TypeOK, config
<1>2. hs[p].step = 3 /\ hs[q].step \in Nat /\ hs[q].step <= 3
  <2>1. hs[q] \in States /\ DriverAt
    BY <1>1 DEF HInv, TypeOK
  <2>2. QED BY <2>1 DEF DriverAt, States, MessageCount
<1>3. wire' \in [Endpoints -> Seq(Frames)] /\ wire'[p] = Append(wire[p], x)
      /\ wire'[q] = wire[q]
  <2>1. Append(wire[p], x) \in Seq(Frames)
    BY <1>1, AppendFacts
  <2>2. QED BY <1>0, <1>1, <2>1
<1>4. /\ ws' \in [Endpoints -> {"open", "closed"}] /\ ws'[q] = ws[q]
      /\ x = WsClose => ws'[p] = "closed"
  BY <1>0, <1>1, FrameKinds
<1>5. WireOK(q)'
  BY <1>1, <1>3, <1>4, WireUntouched
<1>6. WireOK(p)'
  <2>1. \A i \in DOMAIN wire'[p] :
          \/ i \in DOMAIN wire[p] /\ wire'[p][i] = wire[p][i]
          \/ i = Len(wire[p]) + 1 /\ wire'[p][i] = x
    BY <1>1, <1>3, AppendFacts
  <2>2. \A i \in DOMAIN wire[p] :
          /\ i > 1 => wire[p][i] \in {Data, WsClose}
          /\ wire[p][i] # WsClose
          /\ wire[p][i] = Data => pc[p] = "established"
    BY <1>1 DEF WireOK
  <2>3. \A i \in DOMAIN wire'[p] :
          /\ i > 1 => wire'[p][i] \in {Data, WsClose}
          /\ wire'[p][i] = WsClose => ws'[p] = "closed"
          /\ wire'[p][i] = Data => pc'[p] = "established"
    BY <1>1, <1>4, <2>1, <2>2
  <2>4. CASE wire[p] = <<>>
    <3>1. wire'[p] # <<>> /\ wire'[p][1] = x
      BY <1>1, <1>3, <2>4, AppendFacts
    <3>2. pc[q] = "failed" \/ hs[q].step = 3
      BY <1>0, <1>1, <1>2, <2>4 DEF WireOK
    <3>3. QED BY <1>0, <1>1, <1>2, <2>3, <3>1, <3>2, FrameKinds DEF WireOK
  <2>5. CASE wire[p] # <<>>
    <3>1. wire'[p] # <<>> /\ wire'[p][1] = wire[p][1]
      BY <1>1, <1>3, <2>5, AppendFacts
    <3>2. ASSUME wire[p][1].type = "HANDSHAKE" PROVE FrameOK(p, wire[p][1])'
      <4>1. PICK f : f = wire[p][1] /\ f = wire'[p][1]
        BY <3>1
      <4>2. FrameOK(p, f)
        BY <1>1, <2>5, <3>2, <4>1 DEF WireOK
      <4>3. FrameOK(p, f)'
        BY <1>1, <4>2 DEF FrameOK, CertificateOf, First, Second
      <4>4. QED BY <4>1, <4>3
    <3>3. QED BY <1>0, <1>1, <1>4, <2>3, <2>5, <3>1, <3>2 DEF WireOK
  <2>6. QED BY <2>4, <2>5
<1>7. QED BY <1>0, <1>1, <1>3, <1>4, <1>5, <1>6, WiresSuffice DEF TypeOK

LEMMA ReadDataKeeps ==
    ASSUME HInv, NEW p \in Endpoints, ReadData(p)
    PROVE  HInv'
<1>0. PICK q \in Endpoints : q = Peer(p) /\ q # p /\ Endpoints = {p, q}
  BY PeerFacts
<1>1. /\ TypeOK /\ DriverAt /\ wire[q] \in Seq(Frames) /\ wire[q] # <<>>
      /\ wire \in [Endpoints -> Seq(Frames)] /\ ws \in [Endpoints -> {"open", "closed"}]
      /\ wire' = [wire EXCEPT ![q] = Tail(@)] /\ pc[p] = "established"
      /\ UNCHANGED <<config, pc, why, hs, ws, altered>>
  BY <1>0 DEF HInv, TypeOK, ReadData
<1>2. wire' \in [Endpoints -> Seq(Frames)] /\ wire'[p] = wire[p]
      /\ wire'[q] = Tail(wire[q])
  <2>1. Tail(wire[q]) \in Seq(Frames)
    BY <1>1, TailFacts
  <2>2. QED BY <1>0, <1>1, <2>1
<1>3. WireOK(p)'
  BY <1>1, <1>2, WireUntouched
<1>4. hs[p].step = 3 /\ hs[q].step \in Nat /\ hs[q].step <= 3
  <2>1. hs[q] \in States
    BY <1>1 DEF TypeOK
  <2>2. QED BY <1>1, <2>1 DEF DriverAt, States, MessageCount
<1>5. WireOK(q)'
  BY <1>0, <1>1, <1>2, <1>4, OtherWireRead DEF config
<1>6. QED BY <1>0, <1>1, <1>2, <1>3, <1>5, WiresSuffice DEF TypeOK

\* A message altered on the way stands where the one written stood.
LEMMA AlterKeeps ==
    ASSUME HInv, NEW p \in Endpoints, Alter(p)
    PROVE  HInv'
<1>0. PICK q \in Endpoints : q = Peer(p) /\ q # p /\ Endpoints = {p, q}
  BY PeerFacts
<1>1. /\ TypeOK /\ WireOK(p) /\ wire[p] \in Seq(Frames) /\ altered' = TRUE
      /\ wire \in [Endpoints -> Seq(Frames)] /\ ws \in [Endpoints -> {"open", "closed"}]
      /\ UNCHANGED <<config, pc, why, hs, ws>> /\ DOMAIN wire[p] = 1 .. Len(wire[p])
      /\ hs[p].step \in Nat /\ hs[q].step \in Nat
  <2>1. hs[p] \in States /\ hs[q] \in States
    BY DEF HInv, TypeOK
  <2>2. QED BY <2>1, WireType DEF HInv, TypeOK, Alter, States, MessageCount
<1>2. PICK i \in DOMAIN wire[p] : /\ wire[p][i].type = "HANDSHAKE"
                                  /\ \E f \in Alterations(wire[p][i]) :
                                        wire' = [wire EXCEPT ![p][i] = f]
  BY DEF Alter
<1>3. i = 1 /\ wire[p] # <<>> /\ wire[p][1] \in Frames
  <2>1. wire[p][i] # Data /\ wire[p][i] # WsClose
    BY <1>2, FrameKinds
  <2>2. i = 1
    BY <1>1, <1>2, <2>1 DEF WireOK
  <2>3. wire[p] # <<>>
    BY <1>1, <1>2, EmptySeq
  <2>4. QED BY <1>1, <2>2, <2>3, WireType
<1>4. PICK g \in Frames : g = wire[p][1]
  BY <1>3
<1>5. /\ g.type = "HANDSHAKE" /\ g.message \in Messages /\ g.before \in Seq(Messages)
      /\ FrameOK(p, g) /\ g \in [type : {"HANDSHAKE"}, message : Messages,
                                 before : Seq(Messages)]
  BY <1>1, <1>2, <1>3, <1>4, FrameKinds DEF WireOK, Frames
<1>6. PICK f \in Alterations(g) : wire' = [wire EXCEPT ![p][1] = f]
  BY <1>2, <1>3, <1>4
<1>7. \/ f = Malformed
      \/ /\ f \in Frames /\ f.type = "HANDSHAKE" /\ f.before = g.before
         /\ f.message.by = g.message.by /\ f.message.index = g.message.index
         /\ ~f.message.intact /\ f.message.payload \in {Nothing, "junk"}
  <2> SUFFICES ASSUME f # Malformed
               PROVE  /\ f \in Frames /\ f.type = "HANDSHAKE" /\ f.before = g.before
                      /\ f.message.by = g.message.by /\ f.message.index = g.message.index
                      /\ ~f.message.intact /\ f.message.payload \in {Nothing, "junk"}
    OBVIOUS
  <2>1. PICK x \in {Nothing, "junk"} :
          f = [g EXCEPT !.message = [g.message EXCEPT !.intact = FALSE, !.payload = x]]
    BY DEF Alterations
  <2>2. PICK m : m = [g.message EXCEPT !.intact = FALSE, !.payload = x]
    OBVIOUS
  <2>3. /\ m \in Messages /\ m.by = g.message.by /\ m.index = g.message.index
        /\ m.intact = FALSE /\ m.payload = x
    BY <1>5, <2>2 DEF Messages, Payloads
  <2>4. f = [g EXCEPT !.message = m]
    BY <2>1, <2>2
  <2>5. f.message = m /\ f.type = "HANDSHAKE" /\ f.before = g.before
        /\ f \in [type : {"HANDSHAKE"}, message : Messages, before : Seq(Messages)]
    BY <1>5, <2>3, <2>4
  <2>6. QED BY <2>3, <2>5 DEF Frames
<1>8. f \in Frames
  BY <1>7, FrameKinds
<1>9. PICK s \in Seq(Frames) : /\ s = [wire[p] EXCEPT ![1] = f] /\ Len(s) = Len(wire[p])
                               /\ \A j \in 1 .. Len(wire[p]) :
                                    s[j] = IF j = 1 THEN f ELSE wire[p][j]
  <2>1. 1 \in 1 .. Len(wire[p])
    BY <1>1, <1>2, <1>3
  <2>2. PICK z \in Seq(Frames) : z = wire[p]
    BY <1>1
  <2>3. 1 \in 1 .. Len(z)
    BY <2>1, <2>2
  <2>4. /\ [z EXCEPT ![1] = f] \in Seq(Frames) /\ Len([z EXCEPT ![1] = f]) = Len(z)
        /\ \A j \in 1 .. Len(z) : [z EXCEPT ![1] = f][j] = IF j = 1 THEN f ELSE z[j]
    BY <1>8, <2>3, ExceptSeq
  <2>5. PICK s : s = [z EXCEPT ![1] = f]
    OBVIOUS
  <2>6. /\ s \in Seq(Frames) /\ s = [wire[p] EXCEPT ![1] = f] /\ Len(s) = Len(wire[p])
        /\ \A j \in 1 .. Len(wire[p]) : s[j] = IF j = 1 THEN f ELSE wire[p][j]
    BY <2>2, <2>4, <2>5
  <2>7. QED BY <2>6
<1>10. /\ wire' \in [Endpoints -> Seq(Frames)] /\ wire'[p] = s /\ wire'[q] = wire[q]
  BY <1>0, <1>1, <1>6, <1>9
<1>11. WireOK(q)'
  BY <1>1, <1>10, WireUntouched
<1>12. WireOK(p)'
  <2>1. DOMAIN wire'[p] = DOMAIN wire[p] /\ wire'[p] # <<>> /\ wire'[p][1] = f
    BY <1>1, <1>2, <1>3, <1>9, <1>10, LenProperties, EmptySeq
  <2>2. f # Data /\ f # WsClose
    BY <1>7, FrameKinds
  <2>3. certified' = certified /\ pc' = pc /\ hs' = hs /\ ws' = ws
    BY <1>1 DEF config
  <2>4. \A j \in DOMAIN wire'[p] :
          /\ j > 1 => wire'[p][j] \in {Data, WsClose}
          /\ wire'[p][j] = WsClose => ws'[p] = "closed"
          /\ wire'[p][j] = Data => pc'[p] = "established"
    BY <1>1, <1>9, <1>10, <2>1, <2>2, <2>3 DEF WireOK
  <2>5. hs[q].step < hs[p].step
    BY <1>0, <1>5 DEF FrameOK
  <2>6. f.type = "HANDSHAKE" => FrameOK(p, f)'
    BY <1>1, <1>5, <1>7, <2>3, FrameKinds DEF FrameOK, CertificateOf, First, Second
  <2>7. f.type = "HANDSHAKE" => FrameOK(p, wire[p][1])'
    BY <2>1, <2>6
  <2>8. QED BY <1>0, <1>1, <2>1, <2>2, <2>3, <2>4, <2>5, <2>7 DEF WireOK
<1>13. QED BY <1>0, <1>1, <1>10, <1>11, <1>12, WiresSuffice

\* The connection breaks: of each wire a beginning is left.
LEMMA BreakKeeps == HInv /\ Break => HInv'
<1> SUFFICES ASSUME HInv, Break PROVE HInv'
  OBVIOUS
<1>1. /\ TypeOK /\ wire \in [Endpoints -> Seq(Frames)]
      /\ UNCHANGED <<config, pc, why, hs, altered>>
      /\ ws' = [p \in Endpoints |-> "closed"]
  BY DEF HInv, TypeOK, Break
<1>2. PICK arrived \in [Endpoints -> 0 .. MessageCount + DataBound] :
        /\ \A p \in Endpoints : arrived[p] <= Len(wire[p])
        /\ wire' = [p \in Endpoints |-> SubSeq(wire[p], 1, arrived[p])]
  BY DEF Break
<1>3. ASSUME NEW p \in Endpoints
      PROVE  /\ wire'[p] \in Seq(Frames)
             /\ \A i \in DOMAIN wire'[p] : i \in DOMAIN wire[p] /\ wire'[p][i] = wire[p][i]
             /\ wire'[p] # <<>> => wire[p] # <<>> /\ wire'[p][1] = wire[p][1]
  <2>1. /\ wire[p] \in Seq(Frames) /\ arrived[p] \in Nat /\ arrived[p] <= Len(wire[p])
        /\ wire'[p] = SubSeq(wire[p], 1, arrived[p]) /\ DOMAIN wire[p] = 1 .. Len(wire[p])
        /\ Len(wire[p]) \in Nat
    <3>1. arrived[p] \in 0 .. MessageCount + DataBound
      OBVIOUS
    <3>2. arrived[p] \in Nat
      BY <3>1 DEF MessageCount, DataBound
    <3>3. /\ wire[p] \in Seq(Frames) /\ DOMAIN wire[p] = 1 .. Len(wire[p])
          /\ Len(wire[p]) \in Nat
      BY <1>1, WireType
    <3>4. wire'[p] = SubSeq(wire[p], 1, arrived[p]) /\ arrived[p] <= Len(wire[p])
      BY <1>2
    <3>5. QED BY <3>2, <3>3, <3>4
  <2>2. \A i \in 1 .. arrived[p] : wire[p][i] \in Frames
    BY <1>1, <2>1, WireType
  <2>3. PICK n \in Nat : n = arrived[p]
    BY <2>1
  <2>4. PICK s : s = wire[p]
    OBVIOUS
  <2>5. /\ SubSeq(s, 1, n) \in Seq(Frames) /\ Len(SubSeq(s, 1, n)) = n
        /\ \A i \in 1 .. n : SubSeq(s, 1, n)[i] = s[i]
    <3>1. \A i \in 1 .. n : s[i] \in Frames
      BY <2>2, <2>3, <2>4
    <3>2. /\ SubSeq(s, 1, n) \in Seq(Frames)
          /\ Len(SubSeq(s, 1, n)) = IF 1 <= n THEN n - 1 + 1 ELSE 0
          /\ \A i \in 1 .. n - 1 + 1 : SubSeq(s, 1, n)[i] = s[1 + i - 1]
      BY <3>1, SubSeqProperties
    <3>3. QED BY <3>2
  <2>6. DOMAIN SubSeq(s, 1, n) = 1 .. n
    BY <2>5, LenProperties
  <2>7. SubSeq(s, 1, n) # <<>> => n > 0
    BY <2>5, EmptySeq
  <2>8. n > 0 => s # <<>>
    BY <2>1, <2>3, <2>4, EmptySeq
  <2>9. wire'[p] = SubSeq(s, 1, n) /\ n <= Len(s) /\ DOMAIN s = 1 .. Len(s)
        /\ Len(s) \in Nat
    BY <2>1, <2>3, <2>4
  <2>10. \A i \in 1 .. n : i \in DOMAIN s
    BY <2>9
  <2>11. QED BY <2>4, <2>5, <2>6, <2>7, <2>8, <2>9, <2>10
<1>4. wire' \in [Endpoints -> Seq(Frames)]
  BY <1>2, <1>3
<1>5. ASSUME NEW p \in Endpoints PROVE WireOK(p)'
  <2>1. WireOK(p) /\ certified' = certified /\ pc' = pc /\ hs' = hs /\ altered' = altered
    BY <1>1 DEF HInv, config
  <2>2. ws'[p] = "closed"
    BY <1>1
  <2>3. wire'[p] # <<>> /\ wire[p][1].type = "HANDSHAKE" => FrameOK(p, wire[p][1])'
    <3> SUFFICES ASSUME wire'[p] # <<>>, wire[p][1].type = "HANDSHAKE"
                 PROVE  FrameOK(p, wire[p][1])'
      OBVIOUS
    <3>1. PICK f : f = wire[p][1] /\ f = wire'[p][1]
      BY <1>3
    <3>2. FrameOK(p, f)
      BY <1>3, <2>1, <3>1 DEF WireOK
    <3>3. FrameOK(p, f)'
      BY <2>1, <3>2 DEF FrameOK, CertificateOf, First, Second
    <3>4. QED BY <3>1, <3>3
  <2>4. QED BY <1>3, <2>1, <2>2, <2>3 DEF WireOK
<1>6. ws' \in [Endpoints -> {"open", "closed"}] /\ altered' \in BOOLEAN
  BY <1>1 DEF TypeOK
<1>7. QED BY <1>1, <1>4, <1>5, <1>6, WiresSuffice

LEMMA InitHInv == Init => HInv
<1> SUFFICES ASSUME Init PROVE HInv
  OBVIOUS
<1>1. <<>> \in Seq(Frames) /\ <<>> \in Seq(Messages) /\ DOMAIN <<>> = {}
  BY EmptySeq
<1>2. TypeOK
  <2>1. [step |-> 0, writes |-> 0, transcript |-> <<>>, remoteStatic |-> Nothing,
         peerCert |-> Nothing] \in States
    BY <1>1 DEF States, MessageCount, Payloads
  <2>2. QED BY <1>1, <2>1 DEF Init, TypeOK
<1>3. InitiatorAt /\ ResponderAt
  BY DEF Init, InitiatorAt, ResponderAt, Endpoints
<1>4. DriverAt
  BY DEF Init, DriverAt, Endpoints
<1>5. \A p \in Endpoints : WireOK(p)
  BY <1>1, PeerFacts DEF Init, WireOK
<1>6. RefusalMeansAltered
  BY DEF Init, RefusalMeansAltered
<1>7. QED BY <1>2, <1>3, <1>4, <1>5, <1>6 DEF HInv

LEMMA NextHInv == HInv /\ [Next]_vars => HInv'
<1> SUFFICES ASSUME HInv, [Next]_vars PROVE HInv'
  OBVIOUS
<1>1. CASE Break
  BY <1>1, BreakKeeps
<1>2. ASSUME NEW p \in Endpoints, Start(p) PROVE HInv'
  BY <1>2, StartKeeps
<1>3. ASSUME NEW p \in Endpoints, SendReturns(p) PROVE HInv'
  BY <1>3, SendReturnsKeeps
<1>4. ASSUME NEW p \in Endpoints, Read(p) PROVE HInv'
  BY <1>4, ReadKeeps
<1>5. ASSUME NEW p \in Endpoints, Timeout(p) PROVE HInv'
  BY <1>5, TimeoutKeeps
<1>6. ASSUME NEW p \in Endpoints, SendData(p) PROVE HInv'
  BY <1>6, WrittenAfter DEF SendData
<1>7. ASSUME NEW p \in Endpoints, ReadData(p) PROVE HInv'
  BY <1>7, ReadDataKeeps
<1>8. ASSUME NEW p \in Endpoints, EndSession(p) PROVE HInv'
  <2>1. WsClose # Data
    BY FrameKinds
  <2>2. QED BY <1>8, <2>1, WrittenAfter DEF EndSession
<1>9. ASSUME NEW p \in Endpoints, PeerClosed(p) \/ Stall(p) PROVE HInv'
  <2>1. /\ UNCHANGED <<config, pc, why, hs, wire, altered>>
        /\ ws' = ws \/ ws' = [ws EXCEPT ![p] = "closed"]
    BY <1>9 DEF PeerClosed, Stall
  <2>2. TypeOK
    BY DEF HInv
  <2>3. /\ ws' \in [Endpoints -> {"open", "closed"}]
        /\ \A x \in Endpoints : ws'[x] \in {ws[x], "closed"}
    BY <2>1, <2>2 DEF TypeOK
  <2>4. \A x \in Endpoints : WireOK(x)'
    BY <2>1, <2>3, WireUntouched
  <2>5. QED BY <2>1, <2>2, <2>3, <2>4, WiresSuffice DEF TypeOK
<1>10. ASSUME NEW p \in Endpoints, Alter(p) PROVE HInv'
  BY <1>10, AlterKeeps
<1>11. CASE UNCHANGED vars
  <2>1. TypeOK /\ UNCHANGED <<config, pc, why, hs, wire, ws, altered>>
    BY <1>11 DEF vars, HInv
  <2>2. \A x \in Endpoints : WireOK(x)'
    BY <2>1, WireUntouched
  <2>3. QED BY <2>1, <2>2, WiresSuffice DEF TypeOK
<1>12. QED
  BY <1>1, <1>2, <1>3, <1>4, <1>5, <1>6, <1>7, <1>8, <1>9, <1>10, <1>11 DEF Next

LEMMA HInvHolds == Spec => []HInv
BY InitHInv, NextHInv, PTL DEF Spec
-----------------------------------------------------------------------------
(* Every variable keeps its type; a side has read and written at most      *)
(* three messages.                                                         *)
THEOREM HandshakeTypeCorrect == Spec => []TypeOK
<1>1. HInv => TypeOK
  BY DEF HInv
<1>2. QED BY <1>1, HInvHolds, PTL

(* Both sides of a finished handshake have the same transcript, first      *)
(* message included, whatever is altered, lost or late.                    *)
THEOREM AgreementHolds == Spec => []Agreement
<1>1. HInv => Agreement
  <2> SUFFICES ASSUME HInv PROVE Agreement
    OBVIOUS
  <2>1. InitiatorAt /\ ResponderAt /\ hs["initiator"] \in States /\ hs["responder"] \in States
    BY DEF HInv, TypeOK, Endpoints
  <2>2. \A h \in States : IsComplete(h) <=> h.step = 3
    BY Turns
  <2>3. hs["responder"].step = 3 =>
          hs["responder"].transcript = hs["initiator"].transcript
    BY <2>1 DEF InitiatorAt, ResponderAt
  <2>4. SubSeq(<<First, Second, Third>>, 1, 2) = <<First, Second>>
    BY MessagesType, TripleOf
  <2>5. hs["initiator"].step = 3 =>
          hs["responder"].transcript \in
             {hs["initiator"].transcript, SubSeq(hs["initiator"].transcript, 1, 2)}
    BY <2>1, <2>4 DEF InitiatorAt
  <2>6. QED BY <2>1, <2>2, <2>3, <2>5 DEF Agreement
<1>2. QED BY <1>1, HInvHolds, PTL

(* The key and certificate that the trust decision sees are the peer's     *)
(* own; the first message's payload has put nothing in their place.        *)
THEOREM GenuineHolds == Spec => []PeerIsGenuine
<1>1. HInv => PeerIsGenuine
  <2> SUFFICES ASSUME HInv, NEW p \in Endpoints, IsComplete(hs[p])
               PROVE  /\ hs[p].remoteStatic = Peer(p)
                      /\ hs[p].peerCert = CertificateOf(Peer(p))
    BY DEF PeerIsGenuine, CertificateOf
  <2>1. InitiatorAt /\ ResponderAt /\ hs[p] \in States
    BY DEF HInv, TypeOK
  <2>2. hs[p].step = 3
    BY <2>1, Turns
  <2>3. QED BY <2>1, <2>2 DEF InitiatorAt, ResponderAt, Peer, Endpoints
<1>2. QED BY <1>1, HInvHolds, PTL

(* A certificate is never on the wire in the first, unencrypted message.   *)
THEOREM CertificateStaysEncrypted == Spec => []CertificateEncrypted
<1>1. HInv => CertificateEncrypted
  <2> SUFFICES ASSUME HInv, NEW p \in Endpoints, NEW i \in DOMAIN wire[p],
                      wire[p][i].type = "HANDSHAKE",
                      wire[p][i].message.payload \in Endpoints
               PROVE  wire[p][i].message.index > 0
    BY DEF CertificateEncrypted
  <2>1. TypeOK /\ WireOK(p) /\ DOMAIN wire[p] = 1 .. Len(wire[p]) /\ wire[p] # <<>>
    BY WireType, EmptySeq DEF HInv
  <2>2. i = 1
    <3>1. wire[p][i] # Data /\ wire[p][i] # WsClose
      BY FrameKinds
    <3>2. QED BY <2>1, <3>1 DEF WireOK
  <2>3. FrameOK(p, wire[p][i]) /\ wire[p][i].message \in Messages
    BY <2>1, <2>2, WireType, FrameCases, FrameKinds DEF WireOK
  <2>4. wire[p][i].message.payload \notin {Nothing, "junk"}
    BY DEF Endpoints, Nothing
  <2>5. wire[p][i].message.index # 0
    BY <2>3, <2>4 DEF FrameOK
  <2>6. QED BY <2>3, <2>5 DEF Messages, MessageCount
<1>2. QED BY <1>1, HInvHolds, PTL

(* The handshake and the session never read each other's messages.         *)
THEOREM InPhaseHolds == Spec => []InPhase
<1>1. HInv => InPhase
  <2> SUFFICES ASSUME HInv, NEW p \in Endpoints, NEW q, q = Peer(p), wire[q] # <<>>
               PROVE  /\ pc[p] = "reading" =>
                           Head(wire[q]).type \in {"HANDSHAKE", "WSCLOSE", "malformed"}
                      /\ pc[p] = "established" => Head(wire[q]) \in {Data, WsClose}
    BY DEF InPhase
  <2>1. q \in Endpoints /\ p = Peer(q)
    BY PeerFacts
  <2>2. /\ TypeOK /\ DriverAt /\ WireOK(q) /\ wire[q] \in Seq(Frames)
        /\ hs[q] \in States
    BY <2>1 DEF HInv, TypeOK
  <2>3. Head(wire[q]) = wire[q][1] /\ wire[q][1] \in Frames
    BY <2>2, TailFacts
  <2>4. CASE pc[p] = "reading"
    <3>1. wire[q][1] # Data
      BY <2>1, <2>2, <2>4 DEF WireOK, DriverAt, Endpoints
    <3>2. QED BY <2>3, <2>4, <3>1, FrameCases DEF WsClose, Malformed
  <2>5. CASE pc[p] = "established"
    <3>1. hs[p].step = 3 /\ hs[q].step \in Nat /\ hs[q].step <= 3
      BY <2>2, <2>5 DEF DriverAt, States, MessageCount
    <3>2. wire[q][1] # Malformed /\ wire[q][1].type # "HANDSHAKE"
      BY <2>1, <2>2, <3>1 DEF WireOK, FrameOK
    <3>3. QED BY <2>3, <2>5, <3>2, FrameCases
  <2>6. QED BY <2>4, <2>5
<1>2. QED BY <1>1, HInvHolds, PTL

(* Without an altered message neither driver ever refuses one, whatever is *)
(* lost, late or closed.                                                   *)
THEOREM RefusalHolds == Spec => []RefusalMeansAltered
<1>1. HInv => RefusalMeansAltered
  BY DEF HInv
<1>2. QED BY <1>1, HInvHolds, PTL
=============================================================================
