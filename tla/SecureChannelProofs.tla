------------------------ MODULE SecureChannelProofs ------------------------
(***************************************************************************)
(* The channel's safety properties, for every window size, largest         *)
(* sequence number, rekey policy and set of messages: of one session       *)
(* (SecureChannel's Spec), and of any number of sessions in a row whose    *)
(* client hands its window and its policy on (Reconnect's ReconnectSpec).  *)
(***************************************************************************)
EXTENDS Reconnect, FiniteSetTheorems, SequenceTheorems, TLAPS

USE MaxSeqAssumption, WindowSizeAssumption, MaxMessagesAssumption,
    MaxSecondsAssumption DEF MaxNonce

LEMMA PeerType == \A p \in Endpoints : Peer(p) \in Endpoints /\ Peer(Peer(p)) = p
BY DEF Peer, Endpoints

\* Commit keeps a window a window (replay.py commit, the mask included).
LEMMA CommitType ==
    ASSUME NEW w \in Windows, NEW seq \in SeqNumbers
    PROVE  Commit(w, seq) \in Windows
<1> USE DEF SeqNumbers, Mask, Windows
<1>1. CASE w.highest < 0
  BY <1>1 DEF Commit
<1>2. CASE w.highest >= 0 /\ seq > w.highest
  <2>1. Slide(w.bitmap, seq - w.highest) \in SUBSET Mask
    BY DEF Slide
  <2>2. Commit(w, seq) = [highest |-> seq, bitmap |-> Slide(w.bitmap, seq - w.highest)]
    BY <1>2 DEF Commit
  <2>3. QED BY <2>1, <2>2
<1>3. CASE w.highest >= 0 /\ seq <= w.highest
  BY <1>3 DEF Commit
<1>4. QED BY <1>1, <1>2, <1>3

\* Committing a number ahead of the window moves the window up to it
\* (replay.py commit, first two cases).
LEMMA CommitAhead ==
    ASSUME NEW w \in Windows, NEW seq \in SeqNumbers, seq > w.highest
    PROVE  Commit(w, seq).highest = seq
<1> USE DEF SeqNumbers, Windows
<1>1. CASE w.highest < 0
  BY <1>1 DEF Commit
<1>2. CASE w.highest >= 0
  BY <1>2 DEF Commit
<1>3. QED BY <1>1, <1>2

\* A number that was committed is refused (replay.py commit, check): its bit
\* is set.
LEMMA CommittedIsRefused ==
    ASSUME NEW w \in Windows, NEW seq \in SeqNumbers
    PROVE  ~Check(Commit(w, seq), seq)
<1> USE DEF SeqNumbers, Mask, Windows
<1>1. CASE w.highest < 0
  BY <1>1 DEF Commit, Check
<1>2. CASE w.highest >= 0 /\ seq > w.highest
  <2>1. Commit(w, seq) = [highest |-> seq, bitmap |-> Slide(w.bitmap, seq - w.highest)]
    BY <1>2 DEF Commit
  <2>2. 0 \in Slide(w.bitmap, seq - w.highest)
    BY DEF Slide
  <2>3. QED BY <2>1, <2>2 DEF Check
<1>3. CASE w.highest >= 0 /\ seq <= w.highest
  BY <1>3 DEF Commit, Check
<1>4. QED BY <1>1, <1>2, <1>3

\* What a window refuses it refuses for good: a bit slides with its number,
\* or out of the window, where every number is too old.
LEMMA RefusedStaysRefused ==
    ASSUME NEW w \in Windows, NEW seq \in SeqNumbers, NEW old \in SeqNumbers,
           ~Check(w, old)
    PROVE  ~Check(Commit(w, seq), old)
<1> USE DEF SeqNumbers, Mask, Windows
<1>1. /\ w.highest >= 0 /\ old <= w.highest
      /\ w.highest - old >= WindowSize \/ w.highest - old \in w.bitmap
  BY DEF Check
<1>2. CASE seq > w.highest
  <2> DEFINE shift == seq - w.highest
  <2>1. Commit(w, seq) = [highest |-> seq, bitmap |-> Slide(w.bitmap, shift)]
    BY <1>1, <1>2 DEF Commit
  <2>2. seq - old >= WindowSize \/ seq - old \in Slide(w.bitmap, shift)
    <3>1. SUFFICES ASSUME seq - old < WindowSize
                   PROVE  seq - old \in Slide(w.bitmap, shift)
      OBVIOUS
    <3>2. w.highest - old \in w.bitmap /\ shift < WindowSize
      BY <1>1, <1>2, <3>1
    <3>3. seq - old = (w.highest - old) + shift
      BY <1>1
    <3>4. seq - old \in {o + shift : o \in w.bitmap}
      BY <3>2, <3>3
    <3>5. seq - old \in Mask
      BY <1>1, <1>2, <3>1
    <3>6. QED BY <3>2, <3>4, <3>5 DEF Slide
  <2>3. QED BY <1>1, <1>2, <2>1, <2>2 DEF Check
<1>3. CASE seq <= w.highest
  BY <1>1, <1>3 DEF Commit, Check
<1>4. QED BY <1>2, <1>3

\* What _emit_* makes within the limits is a frame.
LEMMA EmitType ==
    ASSUME NEW type \in MessageType, NEW seq \in Nat, NEW c \in Ciphers,
           NEW m \in Msgs \cup {NoMsg}, CanEmit(seq, c.n)
    PROVE  /\ Emit(type, seq, c, m) \in Frames
           /\ seq \in SeqNumbers
           /\ c.n + 1 \in 0 .. MaxNonce
BY DEF Emit, Frames, Ciphers, SeqNumbers, CanEmit

LEMMA RatchetType ==
    ASSUME NEW c \in Ciphers
    PROVE  Ratchet(c) \in Ciphers /\ Ratchet(c).n = c.n /\ Ratchet(c).k = c.k + 1
BY DEF Ratchet, Ciphers

LEMMA AdvanceType ==
    ASSUME NEW c \in Ciphers, c.n + 1 \in 0 .. MaxNonce
    PROVE  /\ Advance(c) \in Ciphers
           /\ Advance(c).n = c.n + 1
           /\ Advance(c).k = c.k
BY DEF Advance, Ciphers

\* A policy that is not due has room for one more message.
LEMMA PolicyType ==
    /\ Reset \in Policies
    /\ NoteMessage(Reset) \in Policies
    /\ \A r \in Policies : Elapse(r) \in Policies
    /\ \A r \in Policies : ~Due(r) => NoteMessage(r) \in Policies
BY DEF Policies, Reset, NoteMessage, Elapse, Due

\* Whatever the network presents is a frame.
LEMMA NetworkType ==
    ASSUME TypeOK, NEW p \in Endpoints, NEW f \in Network(p)
    PROVE  f \in Frames
<1>1. CASE f \in Forged
  BY <1>1 DEF Forged, Frames, MessageType
<1>2. CASE f \in {sent[Peer(p)][i] : i \in DOMAIN sent[Peer(p)]}
  <2>1. sent[Peer(p)] \in Seq(Frames)
    BY PeerType DEF TypeOK
  <2>2. QED BY <1>2, <2>1
<1>3. QED BY <1>1, <1>2 DEF Network
-----------------------------------------------------------------------------
LEMMA InitType == Init => TypeOK
<1> SUFFICES ASSUME Init PROVE TypeOK
  OBVIOUS
<1>1. [k |-> 0, n |-> 0] \in Ciphers
  BY DEF Ciphers
<1>2. EmptyWindow \in Windows
  BY DEF EmptyWindow, Windows, Mask
<1>3. <<>> \in Seq(Frames)
  OBVIOUS
<1>4. 0 \in 0 .. RetryBound + 1
  BY DEF RetryBound
<1>5. QED BY <1>1, <1>2, <1>3, <1>4, PolicyType DEF Init, TypeOK

LEMMA EncryptPlainType ==
    ASSUME TypeOK, NEW p \in Endpoints, NEW m \in Msgs, EncryptPlain(p, m)
    PROVE  TypeOK'
<1> USE DEF TypeOK
<1>1. sendSeq[p] \in Nat /\ sendCipher[p] \in Ciphers /\ CanEmit(sendSeq[p], sendCipher[p].n)
  BY DEF EncryptPlain, RetryBound
<1>2. Emit("TRANSPORT", sendSeq[p], sendCipher[p], m) \in Frames
  BY <1>1, EmitType DEF MessageType
<1>3. sent' \in [Endpoints -> Seq(Frames)]
  BY <1>2 DEF EncryptPlain
<1>4. sendCipher' \in [Endpoints -> Ciphers]
  <2>1. sendCipher' = [sendCipher EXCEPT ![p] = Advance(@)]
    BY DEF EncryptPlain
  <2>2. sendCipher[p].n + 1 \in 0 .. MaxNonce
    BY <1>1, EmitType DEF MessageType
  <2>3. QED BY <1>1, <2>1, <2>2, AdvanceType
<1>5. sendSeq' \in [Endpoints -> 0 .. RetryBound + 1]
  BY <1>1 DEF EncryptPlain, CanEmit, RetryBound
<1>6. rekey' \in [Endpoints -> Policies]
  BY PolicyType DEF EncryptPlain
<1>7. QED BY <1>3, <1>4, <1>5, <1>6 DEF EncryptPlain, receiver

LEMMA EncryptAfterRekeyType ==
    ASSUME TypeOK, NEW p \in Endpoints, NEW m \in Msgs, EncryptAfterRekey(p, m)
    PROVE  TypeOK'
<1> USE DEF TypeOK
<1> DEFINE seq == sendSeq[p]
           old == sendCipher[p]
           mid == Advance(old)
           new == Ratchet(mid)
<1>1. seq \in Nat /\ old \in Ciphers /\ CanEmit(seq, old.n) /\ CanEmit(seq + 1, new.n)
  BY DEF EncryptAfterRekey, RetryBound
<1>2. Emit("REKEY", seq, old, NoMsg) \in Frames /\ mid \in Ciphers /\ new \in Ciphers
  BY <1>1, EmitType, AdvanceType, RatchetType DEF MessageType
<1>3. /\ Emit("TRANSPORT", seq + 1, new, m) \in Frames
      /\ Advance(new) \in Ciphers
  <2> HIDE DEF new, seq
  <2>1. seq + 1 \in Nat
    BY <1>1
  <2>2. QED BY <1>1, <1>2, <2>1, EmitType, AdvanceType DEF MessageType
<1>4. sent' \in [Endpoints -> Seq(Frames)]
  <2>1. sent' = [sent EXCEPT ![p] =
                   Append(Append(@, Emit("REKEY", seq, old, NoMsg)),
                          Emit("TRANSPORT", seq + 1, new, m))]
    BY DEF EncryptAfterRekey
  <2> HIDE DEF new, seq, old
  <2>2. QED BY <1>2, <1>3, <2>1
<1>5. sendCipher' \in [Endpoints -> Ciphers]
  <2>1. sendCipher' = [sendCipher EXCEPT ![p] = Advance(new)]
    BY DEF EncryptAfterRekey
  <2> HIDE DEF new
  <2>2. QED BY <1>3, <2>1
<1>6. sendSeq' \in [Endpoints -> 0 .. RetryBound + 1]
  BY <1>1 DEF EncryptAfterRekey, CanEmit, RetryBound
<1>7. rekey' \in [Endpoints -> Policies]
  BY PolicyType DEF EncryptAfterRekey
<1>8. QED BY <1>4, <1>5, <1>6, <1>7 DEF EncryptAfterRekey, receiver

LEMMA EmitFailsType ==
    ASSUME TypeOK, NEW p \in Endpoints, EmitFails(p)
    PROVE  TypeOK'
BY DEF TypeOK, EmitFails, receiver, RetryBound

LEMMA EncryptFailsAfterRekeyType ==
    ASSUME TypeOK, NEW p \in Endpoints, EncryptFailsAfterRekey(p)
    PROVE  TypeOK'
<1> USE DEF TypeOK
<1> DEFINE old == sendCipher[p]
           mid == Advance(old)
<1>1. sendSeq[p] \in Nat /\ old \in Ciphers /\ CanEmit(sendSeq[p], old.n)
  BY DEF EncryptFailsAfterRekey, RetryBound
<1>2. Ratchet(mid) \in Ciphers
  <2>1. old.n + 1 \in 0 .. MaxNonce
    BY <1>1 DEF CanEmit, Ciphers
  <2>2. QED BY <1>1, <2>1, AdvanceType, RatchetType
<1>3. sendCipher' = [sendCipher EXCEPT ![p] = Ratchet(mid)]
  BY DEF EncryptFailsAfterRekey
<1>4. sendCipher' \in [Endpoints -> Ciphers]
  BY <1>2, <1>3
<1>5. sendSeq' \in [Endpoints -> 0 .. RetryBound + 1]
  BY <1>1 DEF EncryptFailsAfterRekey, CanEmit, RetryBound
<1>6. rekey' \in [Endpoints -> Policies]
  BY PolicyType DEF EncryptFailsAfterRekey
<1>7. QED BY <1>4, <1>5, <1>6 DEF EncryptFailsAfterRekey, receiver

LEMMA CloseFrameType ==
    ASSUME TypeOK, NEW p \in Endpoints, CloseFrame(p)
    PROVE  TypeOK'
<1> USE DEF TypeOK
<1>1. sendSeq[p] \in Nat /\ sendCipher[p] \in Ciphers /\ CanEmit(sendSeq[p], sendCipher[p].n)
  BY DEF CloseFrame, RetryBound
<1>2. Emit("CLOSE", sendSeq[p], sendCipher[p], NoMsg) \in Frames
  BY <1>1, EmitType DEF MessageType
<1>3. sent' \in [Endpoints -> Seq(Frames)]
  BY <1>2 DEF CloseFrame
<1>4. sendCipher' \in [Endpoints -> Ciphers]
  <2>1. sendCipher' = [sendCipher EXCEPT ![p] = Advance(@)]
    BY DEF CloseFrame
  <2>2. sendCipher[p].n + 1 \in 0 .. MaxNonce
    BY <1>1 DEF CanEmit, Ciphers
  <2>3. QED BY <1>1, <2>1, <2>2, AdvanceType
<1>5. sendSeq' \in [Endpoints -> 0 .. RetryBound + 1]
  BY <1>1 DEF CloseFrame, CanEmit, RetryBound
<1>6. QED BY <1>3, <1>4, <1>5 DEF CloseFrame, receiver

LEMMA TickType ==
    ASSUME TypeOK, NEW p \in Endpoints, Tick(p)
    PROVE  TypeOK'
BY PolicyType DEF TypeOK, Tick, receiver

LEMMA DecryptAcceptsType ==
    ASSUME TypeOK, NEW p \in Endpoints, NEW f \in Network(p), DecryptAccepts(p, f)
    PROVE  TypeOK'
<1> USE DEF TypeOK
<1> DEFINE opened == Advance(recvCipher[p])
<1>1. f \in Frames /\ f.seq \in SeqNumbers
  BY NetworkType DEF Frames
<1>2. recvCipher[p] \in Ciphers /\ recvCipher[p].n + 1 \in 0 .. MaxNonce
  BY DEF DecryptAccepts, Accepts, Opens, Ciphers
<1>3. opened \in Ciphers /\ Ratchet(opened) \in Ciphers
  BY <1>2, AdvanceType, RatchetType
<1>4. recvCipher' \in [Endpoints -> Ciphers]
  <2>1. recvCipher' = [recvCipher EXCEPT ![p] =
                         IF f.type = "REKEY" THEN Ratchet(opened) ELSE opened]
    BY DEF DecryptAccepts
  <2> HIDE DEF opened
  <2>2. QED BY <1>3, <2>1
<1>5. window' \in [Endpoints -> Windows]
  BY <1>1, CommitType DEF DecryptAccepts
<1>6. accepted' \in [Endpoints -> Seq(Frames)]
  BY <1>1 DEF DecryptAccepts
<1>7. closed' \in [Endpoints -> BOOLEAN]
  BY DEF DecryptAccepts
<1>8. QED BY <1>4, <1>5, <1>6, <1>7 DEF DecryptAccepts, sender

LEMMA NextType == TypeOK /\ [Next]_vars => TypeOK'
<1> SUFFICES ASSUME TypeOK, [Next]_vars PROVE TypeOK'
  OBVIOUS
<1>1. ASSUME NEW p \in Endpoints, NEW m \in Msgs, EncryptPlain(p, m)
      PROVE  TypeOK'
  BY <1>1, EncryptPlainType
<1>2. ASSUME NEW p \in Endpoints, NEW m \in Msgs, EncryptAfterRekey(p, m)
      PROVE  TypeOK'
  BY <1>2, EncryptAfterRekeyType
<1>3. ASSUME NEW p \in Endpoints, EmitFails(p) PROVE TypeOK'
  BY <1>3, EmitFailsType
<1>4. ASSUME NEW p \in Endpoints, EncryptFailsAfterRekey(p) PROVE TypeOK'
  BY <1>4, EncryptFailsAfterRekeyType
<1>5. ASSUME NEW p \in Endpoints, CloseFrame(p) PROVE TypeOK'
  BY <1>5, CloseFrameType
<1>6. ASSUME NEW p \in Endpoints, Tick(p) PROVE TypeOK'
  BY <1>6, TickType
<1>7. ASSUME NEW p \in Endpoints, NEW f \in Network(p), DecryptAccepts(p, f)
      PROVE  TypeOK'
  BY <1>7, DecryptAcceptsType
<1>8. CASE UNCHANGED vars
  BY <1>8 DEF TypeOK, vars, sender, receiver
<1>9. QED
  BY <1>1, <1>2, <1>3, <1>4, <1>5, <1>6, <1>7, <1>8 DEF Next, Decrypt, DecryptRaises

(* Type correctness of the two channels: every counter stays inside its    *)
(* field, whatever is sent, received, replayed or forged.                  *)
THEOREM ChannelTypeCorrect == Spec => []TypeOK
<1>1. Init => TypeOK
  BY InitType
<1>2. TypeOK /\ [Next]_vars => TypeOK'
  BY NextType
<1>3. QED BY <1>1, <1>2, PTL DEF Spec
-----------------------------------------------------------------------------
(* The inductive invariant.  InOrderPrefix alone is not inductive: that a  *)
(* frame which opens is the next one follows only from how the frames are  *)
(* numbered and from where each counter stands.                            *)

\* Frame i of a direction has sequence number and nonce i - 1.
Numbered(s) == \A i \in 1 .. Len(s) : s[i].seq = i - 1 /\ s[i].n = i - 1

\* The key of the frame after the i-th.
KeyAfter(s, i) ==
    IF i = 0 THEN 0 ELSE IF s[i].type = "REKEY" THEN s[i].k + 1 ELSE s[i].k

\* Keys change at REKEY frames and nowhere else.
Keyed(s) == \A i \in 1 .. Len(s) : s[i].k = KeyAfter(s, i - 1)

\* Until its nonces are spent, a sender's two counters agree with the number
\* of frames it has produced, and its key with the last of them.
SenderInStep(p) ==
    /\ Len(sent[p]) <= MaxSeq
    /\ sendCipher[p].n < MaxNonce =>
         /\ sendSeq[p] = Len(sent[p])
         /\ sendCipher[p].n = Len(sent[p])
         /\ sendCipher[p].k = KeyAfter(sent[p], Len(sent[p]))

\* A receiver's counter and key agree with what it has accepted.
ReceiverInStep(p) ==
    /\ recvCipher[p].n = Len(accepted[p])
    /\ recvCipher[p].k = KeyAfter(sent[Peer(p)], Len(accepted[p]))

AcceptedPrefix(p) ==
    /\ Len(accepted[p]) <= Len(sent[Peer(p)])
    /\ \A i \in 1 .. Len(accepted[p]) : accepted[p][i] = sent[Peer(p)][i]

\* CLOSE is the last frame of a direction, and its sender is closed.
CloseLast(p) == \A i \in 1 .. Len(sent[p]) :
    sent[p][i].type = "CLOSE" => i = Len(sent[p]) /\ closed[p]

EndpointInv(p) ==
    /\ Numbered(sent[p])
    /\ Keyed(sent[p])
    /\ SenderInStep(p)
    /\ ReceiverInStep(p)
    /\ AcceptedPrefix(p)
    /\ CloseLast(p)

SessionInv == TypeOK /\ \A p \in Endpoints : EndpointInv(p)

\* One more frame, with the next number and the current key.
LEMMA AppendFrame ==
    ASSUME NEW s \in Seq(Frames), NEW f \in Frames,
           Numbered(s), Keyed(s),
           f.seq = Len(s), f.n = Len(s), f.k = KeyAfter(s, Len(s))
    PROVE  /\ Append(s, f) \in Seq(Frames)
           /\ Len(Append(s, f)) = Len(s) + 1
           /\ \A i \in 1 .. Len(s) : Append(s, f)[i] = s[i]
           /\ Append(s, f)[Len(s) + 1] = f
           /\ Numbered(Append(s, f))
           /\ Keyed(Append(s, f))
           /\ \A i \in 0 .. Len(s) : KeyAfter(Append(s, f), i) = KeyAfter(s, i)
           /\ KeyAfter(Append(s, f), Len(s) + 1)
                = IF f.type = "REKEY" THEN f.k + 1 ELSE f.k
<1> DEFINE t == Append(s, f)
<1>1. /\ t \in Seq(Frames)
      /\ Len(t) = Len(s) + 1
      /\ \A i \in 1 .. Len(s) : t[i] = s[i]
      /\ t[Len(s) + 1] = f
  OBVIOUS
<1> HIDE DEF t
<1>2. Numbered(t)
  BY <1>1 DEF Numbered
<1>3. \A i \in 0 .. Len(s) : KeyAfter(t, i) = KeyAfter(s, i)
  BY <1>1 DEF KeyAfter
<1>4. Keyed(t)
  <2>1. ASSUME NEW i \in 1 .. Len(t) PROVE t[i].k = KeyAfter(t, i - 1)
    <3>1. CASE i \in 1 .. Len(s)
      BY <3>1, <1>1, <1>3 DEF Keyed
    <3>2. CASE i = Len(s) + 1
      BY <3>2, <1>1, <1>3
    <3>3. QED BY <1>1, <3>1, <3>2
  <2>2. QED BY <2>1 DEF Keyed
<1>5. KeyAfter(t, Len(s) + 1) = IF f.type = "REKEY" THEN f.k + 1 ELSE f.k
  BY <1>1 DEF KeyAfter
<1>6. QED BY <1>1, <1>2, <1>3, <1>4, <1>5 DEF t

\* A receiver's part of the invariant survives when its peer's log grows.
LEMMA ReceiverSurvives ==
    ASSUME TypeOK, NEW q \in Endpoints, ReceiverInStep(q), AcceptedPrefix(q),
           UNCHANGED receiver,
           sent'[Peer(q)] \in Seq(Frames),
           Len(sent[Peer(q)]) <= Len(sent'[Peer(q)]),
           \A i \in 1 .. Len(sent[Peer(q)]) : sent'[Peer(q)][i] = sent[Peer(q)][i]
    PROVE  ReceiverInStep(q)' /\ AcceptedPrefix(q)'
<1> DEFINE s == sent[Peer(q)]
           t == sent'[Peer(q)]
           j == Len(accepted[q])
<1>1. j \in 0 .. Len(s) /\ Len(s) \in Nat /\ Len(t) \in Nat
  BY PeerType DEF TypeOK, AcceptedPrefix
<1>2. KeyAfter(t, j) = KeyAfter(s, j)
  BY <1>1 DEF KeyAfter
<1>3. ReceiverInStep(q)'
  BY <1>2 DEF ReceiverInStep, receiver
<1>4. AcceptedPrefix(q)'
  <2> HIDE DEF s, t, j
  <2>1. j <= Len(t) /\ \A i \in 1 .. j : accepted[q][i] = t[i]
    BY <1>1 DEF AcceptedPrefix, s, t, j
  <2>2. QED BY <2>1 DEF AcceptedPrefix, receiver, t, j
<1>5. QED BY <1>3, <1>4

\* A step of p's sender keeps the invariant if it keeps p's own half of it.
LEMMA SenderStep ==
    ASSUME SessionInv, TypeOK', NEW p \in Endpoints, UNCHANGED receiver,
           \A q \in Endpoints \ {p} :
               /\ sent'[q] = sent[q]
               /\ sendSeq'[q] = sendSeq[q]
               /\ sendCipher'[q] = sendCipher[q]
               /\ closed'[q] = closed[q],
           Len(sent[p]) <= Len(sent'[p]),
           \A i \in 1 .. Len(sent[p]) : sent'[p][i] = sent[p][i],
           Numbered(sent'[p]), Keyed(sent'[p]), SenderInStep(p)', CloseLast(p)'
    PROVE  SessionInv'
<1>1. ASSUME NEW q \in Endpoints PROVE EndpointInv(q)'
  <2>1. /\ Numbered(sent[q]) /\ Keyed(sent[q]) /\ SenderInStep(q) /\ CloseLast(q)
        /\ ReceiverInStep(q) /\ AcceptedPrefix(q) /\ TypeOK
    BY DEF SessionInv, EndpointInv
  <2>2. Numbered(sent'[q]) /\ Keyed(sent'[q]) /\ SenderInStep(q)' /\ CloseLast(q)'
    <3>1. CASE q = p
      BY <3>1
    <3>2. CASE q # p
      <4>1. /\ sent'[q] = sent[q] /\ sendSeq'[q] = sendSeq[q]
            /\ sendCipher'[q] = sendCipher[q] /\ closed'[q] = closed[q]
        BY <3>2
      <4>2. QED BY <2>1, <4>1 DEF SenderInStep, CloseLast
    <3>3. QED BY <3>1, <3>2
  <2>3. ReceiverInStep(q)' /\ AcceptedPrefix(q)'
    <3>1. Peer(q) \in Endpoints
      BY PeerType
    <3>2. sent'[Peer(q)] \in Seq(Frames) /\ Len(sent[Peer(q)]) \in Nat
      BY <2>1, <3>1 DEF TypeOK
    <3>3. /\ Len(sent[Peer(q)]) <= Len(sent'[Peer(q)])
          /\ \A i \in 1 .. Len(sent[Peer(q)]) : sent'[Peer(q)][i] = sent[Peer(q)][i]
      <4>1. CASE Peer(q) = p
        BY <4>1
      <4>2. CASE Peer(q) # p
        <5>1. sent'[Peer(q)] = sent[Peer(q)]
          BY <3>1, <4>2
        <5>2. QED BY <3>2, <5>1
      <4>3. QED BY <4>1, <4>2
    <3>4. QED BY <2>1, <3>2, <3>3, ReceiverSurvives
  <2>4. QED BY <2>2, <2>3 DEF EndpointInv
<1>2. QED BY <1>1 DEF SessionInv

\* Channels that have sent and accepted nothing, whatever their windows and
\* policies: how every session begins.
NothingYet ==
    /\ sent = [p \in Endpoints |-> <<>>]
    /\ accepted = [p \in Endpoints |-> <<>>]
    /\ sendSeq = [p \in Endpoints |-> 0]
    /\ sendCipher = [p \in Endpoints |-> [k |-> 0, n |-> 0]]
    /\ recvCipher = [p \in Endpoints |-> [k |-> 0, n |-> 0]]

LEMMA NothingYetInv == TypeOK /\ NothingYet => SessionInv
<1> SUFFICES ASSUME TypeOK, NothingYet, NEW p \in Endpoints PROVE EndpointInv(p)
  BY DEF SessionInv
<1>0. \A q \in Endpoints :
          /\ sent[q] = <<>> /\ accepted[q] = <<>> /\ sendSeq[q] = 0
          /\ sendCipher[q] = [k |-> 0, n |-> 0]
          /\ recvCipher[q] = [k |-> 0, n |-> 0]
  BY DEF NothingYet
<1>1. Peer(p) \in Endpoints
  BY PeerType
<1>2. Len(<<>>) = 0 /\ \A s : KeyAfter(s, 0) = 0
  BY DEF KeyAfter
<1>3. Numbered(sent[p]) /\ Keyed(sent[p]) /\ CloseLast(p)
  BY <1>0, <1>2 DEF Numbered, Keyed, CloseLast
<1>4. SenderInStep(p)
  BY <1>0, <1>2 DEF SenderInStep
<1>5. ReceiverInStep(p) /\ AcceptedPrefix(p)
  BY <1>0, <1>1, <1>2 DEF ReceiverInStep, AcceptedPrefix
<1>6. QED BY <1>3, <1>4, <1>5 DEF EndpointInv

LEMMA SessionInitInv == Init => SessionInv
<1> SUFFICES ASSUME Init PROVE SessionInv
  OBVIOUS
<1>1. TypeOK
  BY InitType
<1>2. NothingYet
  BY DEF Init, NothingYet
<1>3. QED BY <1>1, <1>2, NothingYetInv

\* A sender that can emit is in step, and has not said CLOSE while open.
LEMMA ReadyToEmit ==
    ASSUME SessionInv, NEW p \in Endpoints, ~closed[p], sendCipher[p].n < MaxNonce
    PROVE  /\ sent[p] \in Seq(Frames) /\ sendCipher[p] \in Ciphers
           /\ Numbered(sent[p]) /\ Keyed(sent[p])
           /\ sendSeq[p] = Len(sent[p])
           /\ sendCipher[p].n = Len(sent[p])
           /\ sendCipher[p].k = KeyAfter(sent[p], Len(sent[p]))
           /\ \A i \in 1 .. Len(sent[p]) : sent[p][i].type # "CLOSE"
BY DEF SessionInv, TypeOK, EndpointInv, SenderInStep, CloseLast

LEMMA EncryptPlainInv ==
    ASSUME SessionInv, TypeOK', NEW p \in Endpoints, NEW m \in Msgs, EncryptPlain(p, m)
    PROVE  SessionInv'
<1> DEFINE s == sent[p]
           c == sendCipher[p]
           f == Emit("TRANSPORT", sendSeq[p], c, m)
<1>1. ~closed[p] /\ c.n < MaxNonce /\ CanEmit(sendSeq[p], c.n)
  BY DEF EncryptPlain, CanEmit
<1>2. /\ s \in Seq(Frames) /\ c \in Ciphers /\ Numbered(s) /\ Keyed(s)
      /\ sendSeq[p] = Len(s) /\ c.n = Len(s) /\ c.k = KeyAfter(s, Len(s))
      /\ \A i \in 1 .. Len(s) : s[i].type # "CLOSE"
  BY <1>1, ReadyToEmit
<1>3. /\ f \in Frames /\ f.seq = Len(s) /\ f.n = Len(s)
      /\ f.k = KeyAfter(s, Len(s)) /\ f.type = "TRANSPORT"
  BY <1>1, <1>2, EmitType DEF MessageType, Emit
<1>4. /\ sent'[p] = Append(s, f)
      /\ sendSeq'[p] = Len(s) + 1
      /\ sendCipher'[p] = Advance(c)
      /\ closed' = closed
  BY <1>2 DEF EncryptPlain, SessionInv, TypeOK
<1>5. Advance(c).n = Len(s) + 1 /\ Advance(c).k = c.k
  BY <1>1, <1>2, AdvanceType DEF Ciphers
<1> HIDE DEF s, c, f
<1>6. /\ Len(sent'[p]) = Len(s) + 1 /\ Len(s) \in Nat
      /\ \A i \in 1 .. Len(s) : sent'[p][i] = s[i]
      /\ sent'[p][Len(s) + 1] = f
      /\ Numbered(sent'[p]) /\ Keyed(sent'[p])
      /\ KeyAfter(sent'[p], Len(s) + 1) = f.k
  BY <1>2, <1>3, <1>4, AppendFrame
<1>7. SenderInStep(p)'
  BY <1>1, <1>2, <1>3, <1>4, <1>5, <1>6 DEF SenderInStep
<1>8. CloseLast(p)'
  BY <1>2, <1>3, <1>6 DEF CloseLast
<1>9. \A q \in Endpoints \ {p} :
          /\ sent'[q] = sent[q] /\ sendSeq'[q] = sendSeq[q]
          /\ sendCipher'[q] = sendCipher[q] /\ closed'[q] = closed[q]
  BY DEF EncryptPlain, SessionInv, TypeOK
<1>10. UNCHANGED receiver
  BY DEF EncryptPlain
<1>11. Len(s) <= Len(sent'[p])
  BY <1>6
<1>12. QED BY <1>6, <1>7, <1>8, <1>9, <1>10, <1>11, SenderStep DEF s

LEMMA CloseFrameInv ==
    ASSUME SessionInv, TypeOK', NEW p \in Endpoints, CloseFrame(p)
    PROVE  SessionInv'
<1> DEFINE s == sent[p]
           c == sendCipher[p]
           f == Emit("CLOSE", sendSeq[p], c, NoMsg)
<1>1. ~closed[p] /\ c.n < MaxNonce /\ CanEmit(sendSeq[p], c.n)
  BY DEF CloseFrame, CanEmit
<1>2. /\ s \in Seq(Frames) /\ c \in Ciphers /\ Numbered(s) /\ Keyed(s)
      /\ sendSeq[p] = Len(s) /\ c.n = Len(s) /\ c.k = KeyAfter(s, Len(s))
      /\ \A i \in 1 .. Len(s) : s[i].type # "CLOSE"
  BY <1>1, ReadyToEmit
<1>3. /\ f \in Frames /\ f.seq = Len(s) /\ f.n = Len(s)
      /\ f.k = KeyAfter(s, Len(s)) /\ f.type = "CLOSE"
  BY <1>1, <1>2, EmitType DEF MessageType, Emit
<1>4. /\ sent'[p] = Append(s, f)
      /\ sendSeq'[p] = Len(s) + 1
      /\ sendCipher'[p] = Advance(c)
      /\ closed'[p]
  BY <1>2 DEF CloseFrame, SessionInv, TypeOK
<1>5. Advance(c).n = Len(s) + 1 /\ Advance(c).k = c.k
  BY <1>1, <1>2, AdvanceType DEF Ciphers
<1> HIDE DEF s, c, f
<1>6. /\ Len(sent'[p]) = Len(s) + 1 /\ Len(s) \in Nat
      /\ \A i \in 1 .. Len(s) : sent'[p][i] = s[i]
      /\ sent'[p][Len(s) + 1] = f
      /\ Numbered(sent'[p]) /\ Keyed(sent'[p])
      /\ KeyAfter(sent'[p], Len(s) + 1) = f.k
  BY <1>2, <1>3, <1>4, AppendFrame
<1>7. SenderInStep(p)'
  BY <1>1, <1>2, <1>3, <1>4, <1>5, <1>6 DEF SenderInStep
<1>8. CloseLast(p)'
  BY <1>2, <1>4, <1>6 DEF CloseLast
<1>9. \A q \in Endpoints \ {p} :
          /\ sent'[q] = sent[q] /\ sendSeq'[q] = sendSeq[q]
          /\ sendCipher'[q] = sendCipher[q] /\ closed'[q] = closed[q]
  BY DEF CloseFrame, SessionInv, TypeOK
<1>10. UNCHANGED receiver
  BY DEF CloseFrame
<1>11. Len(s) <= Len(sent'[p])
  BY <1>6
<1>12. QED BY <1>6, <1>7, <1>8, <1>9, <1>10, <1>11, SenderStep DEF s

LEMMA EncryptAfterRekeyInv ==
    ASSUME SessionInv, TypeOK', NEW p \in Endpoints, NEW m \in Msgs, EncryptAfterRekey(p, m)
    PROVE  SessionInv'
<1> DEFINE s == sent[p]
           c == sendCipher[p]
           d == Ratchet(Advance(c))
           f == Emit("REKEY", sendSeq[p], c, NoMsg)
           g == Emit("TRANSPORT", sendSeq[p] + 1, d, m)
           t == Append(s, f)
           u == Append(t, g)
<1>1. /\ ~closed[p] /\ c.n < MaxNonce
      /\ CanEmit(sendSeq[p], c.n) /\ CanEmit(sendSeq[p] + 1, d.n)
  BY DEF EncryptAfterRekey, CanEmit
<1>2. /\ s \in Seq(Frames) /\ c \in Ciphers /\ Numbered(s) /\ Keyed(s)
      /\ sendSeq[p] = Len(s) /\ c.n = Len(s) /\ c.k = KeyAfter(s, Len(s))
      /\ \A i \in 1 .. Len(s) : s[i].type # "CLOSE"
  BY <1>1, ReadyToEmit
<1>3. /\ f \in Frames /\ f.seq = Len(s) /\ f.n = Len(s)
      /\ f.k = KeyAfter(s, Len(s)) /\ f.type = "REKEY"
  BY <1>1, <1>2, EmitType DEF MessageType, Emit
<1>4. /\ d \in Ciphers /\ d.n = Len(s) + 1 /\ d.k = KeyAfter(s, Len(s)) + 1
  <2>1. Advance(c) \in Ciphers /\ Advance(c).n = c.n + 1 /\ Advance(c).k = c.k
    BY <1>1, <1>2, AdvanceType DEF Ciphers
  <2>2. QED BY <1>2, <2>1, RatchetType
<1>5. /\ sent'[p] = u
      /\ sendSeq'[p] = Len(s) + 2
      /\ sendCipher'[p] = Advance(d)
      /\ closed' = closed
  BY <1>2 DEF EncryptAfterRekey, SessionInv, TypeOK
<1> HIDE DEF c, d
<1>6. Advance(d).n = Len(s) + 2 /\ Advance(d).k = d.k
  <2>1. d.n + 1 \in 0 .. MaxNonce
    BY <1>1, <1>4 DEF CanEmit, Ciphers
  <2>2. QED BY <1>2, <1>4, <2>1, AdvanceType
<1>7. /\ g \in Frames /\ g.seq = Len(s) + 1 /\ g.n = Len(s) + 1
      /\ g.k = d.k /\ g.type = "TRANSPORT"
  <2>1. sendSeq[p] + 1 \in Nat
    BY <1>2
  <2>2. g \in Frames
    BY <1>1, <1>4, <2>1, EmitType DEF MessageType
  <2>3. QED BY <1>2, <1>4, <2>2 DEF Emit
<1> HIDE DEF s, f, g
<1>8. /\ t \in Seq(Frames) /\ Len(t) = Len(s) + 1 /\ Len(s) \in Nat
      /\ \A i \in 1 .. Len(s) : t[i] = s[i]
      /\ t[Len(s) + 1] = f
      /\ Numbered(t) /\ Keyed(t)
      /\ KeyAfter(t, Len(t)) = f.k + 1
  BY <1>2, <1>3, AppendFrame
<1> HIDE DEF t
<1>9. /\ Len(u) = Len(t) + 1
      /\ \A i \in 1 .. Len(t) : u[i] = t[i]
      /\ u[Len(t) + 1] = g
      /\ Numbered(u) /\ Keyed(u)
      /\ KeyAfter(u, Len(t) + 1) = g.k
  BY <1>3, <1>4, <1>7, <1>8, AppendFrame
<1> HIDE DEF u
<1>10. /\ Len(u) = Len(s) + 2
       /\ \A i \in 1 .. Len(s) : u[i] = s[i]
       /\ u[Len(s) + 1] = f /\ u[Len(s) + 2] = g
       /\ KeyAfter(u, Len(s) + 2) = d.k
  BY <1>7, <1>8, <1>9
<1>11. SenderInStep(p)'
  <2>1. Len(s) + 2 <= MaxSeq
    BY <1>1, <1>4, <1>8 DEF CanEmit
  <2>2. QED BY <1>5, <1>6, <1>10, <2>1 DEF SenderInStep
<1>12. CloseLast(p)'
  <2>1. \A i \in 1 .. Len(u) : u[i].type # "CLOSE"
    BY <1>2, <1>3, <1>7, <1>8, <1>10
  <2>2. QED BY <1>5, <2>1 DEF CloseLast
<1>13. \A q \in Endpoints \ {p} :
          /\ sent'[q] = sent[q] /\ sendSeq'[q] = sendSeq[q]
          /\ sendCipher'[q] = sendCipher[q] /\ closed'[q] = closed[q]
  BY DEF EncryptAfterRekey, SessionInv, TypeOK
<1>14. UNCHANGED receiver
  BY DEF EncryptAfterRekey
<1>15. /\ Len(s) <= Len(sent'[p])
       /\ \A i \in 1 .. Len(s) : sent'[p][i] = s[i]
       /\ Numbered(sent'[p]) /\ Keyed(sent'[p])
  BY <1>5, <1>8, <1>9, <1>10
<1>16. QED BY <1>11, <1>12, <1>13, <1>14, <1>15, SenderStep DEF s

\* With counters in step a first frame can fail only when the nonces are spent.
LEMMA EmitFailsInv ==
    ASSUME SessionInv, TypeOK', NEW p \in Endpoints, EmitFails(p)
    PROVE  SessionInv'
<1>1. sent' = sent /\ sendCipher' = sendCipher /\ closed' = closed /\ UNCHANGED receiver
  BY DEF EmitFails
<1>2. Numbered(sent[p]) /\ Keyed(sent[p]) /\ SenderInStep(p) /\ CloseLast(p)
  BY DEF SessionInv, EndpointInv
<1>3. ~(sendCipher[p].n < MaxNonce)
  <2>1. ~closed[p] /\ ~CanEmit(sendSeq[p], sendCipher[p].n)
    BY DEF EmitFails
  <2>2. SUFFICES ASSUME sendCipher[p].n < MaxNonce PROVE FALSE
    OBVIOUS
  <2>3. sendSeq[p] = sendCipher[p].n /\ sendCipher[p].n \in Nat
    BY <1>2, <2>2 DEF SenderInStep, SessionInv, TypeOK, Ciphers
  <2>4. QED BY <2>1, <2>2, <2>3 DEF CanEmit
<1>4. SenderInStep(p)' /\ CloseLast(p)'
  BY <1>1, <1>2, <1>3 DEF SenderInStep, CloseLast
<1>5. \A q \in Endpoints \ {p} :
          /\ sent'[q] = sent[q] /\ sendSeq'[q] = sendSeq[q]
          /\ sendCipher'[q] = sendCipher[q] /\ closed'[q] = closed[q]
  BY DEF EmitFails, SessionInv, TypeOK
<1>6. Len(sent[p]) <= Len(sent'[p]) /\ \A i \in 1 .. Len(sent[p]) : sent'[p][i] = sent[p][i]
  BY <1>1 DEF SessionInv, TypeOK
<1>7. QED BY <1>1, <1>2, <1>4, <1>5, <1>6, SenderStep

\* The lost REKEY frame spends the last nonce: nothing follows it.
LEMMA EncryptFailsAfterRekeyInv ==
    ASSUME SessionInv, TypeOK', NEW p \in Endpoints, EncryptFailsAfterRekey(p)
    PROVE  SessionInv'
<1> DEFINE c == sendCipher[p]
<1>1. /\ ~closed[p] /\ CanEmit(sendSeq[p], c.n) /\ ~CanEmit(sendSeq[p] + 1, c.n + 1)
      /\ sent' = sent /\ closed' = closed /\ UNCHANGED receiver
  BY DEF EncryptFailsAfterRekey
<1>2. Numbered(sent[p]) /\ Keyed(sent[p]) /\ SenderInStep(p) /\ CloseLast(p)
  BY DEF SessionInv, EndpointInv
<1>3. sendSeq[p] = Len(sent[p]) /\ c.n = Len(sent[p]) /\ c \in Ciphers /\ c.n < MaxNonce
  BY <1>1, ReadyToEmit DEF CanEmit
<1>4. sendCipher'[p] = Ratchet(Advance(c))
  BY DEF EncryptFailsAfterRekey, SessionInv, TypeOK
<1>5. ~(sendCipher'[p].n < MaxNonce)
  <2>1. Advance(c) \in Ciphers /\ Advance(c).n = c.n + 1
    BY <1>3, AdvanceType DEF Ciphers
  <2>2. sendCipher'[p].n = c.n + 1
    BY <1>4, <2>1, RatchetType
  <2>3. QED BY <1>1, <1>3, <2>2 DEF CanEmit, Ciphers
<1>6. SenderInStep(p)' /\ CloseLast(p)'
  BY <1>1, <1>2, <1>5 DEF SenderInStep, CloseLast
<1>7. \A q \in Endpoints \ {p} :
          /\ sent'[q] = sent[q] /\ sendSeq'[q] = sendSeq[q]
          /\ sendCipher'[q] = sendCipher[q] /\ closed'[q] = closed[q]
  BY DEF EncryptFailsAfterRekey, SessionInv, TypeOK
<1>8. Len(sent[p]) <= Len(sent'[p]) /\ \A i \in 1 .. Len(sent[p]) : sent'[p][i] = sent[p][i]
  BY <1>1 DEF SessionInv, TypeOK
<1>9. QED BY <1>1, <1>2, <1>6, <1>7, <1>8, SenderStep

\* Neither a tick nor a stutter touches what EndpointInv speaks of.
LEMMA QuietInv ==
    ASSUME SessionInv, TypeOK', UNCHANGED <<sendSeq, sendCipher, sent, receiver, closed>>
    PROVE  SessionInv'
<1>1. ASSUME NEW p \in Endpoints PROVE EndpointInv(p)'
  <2>1. EndpointInv(p)
    BY DEF SessionInv
  <2>2. QED BY <2>1 DEF EndpointInv, Numbered, Keyed, SenderInStep, ReceiverInStep,
                        AcceptedPrefix, CloseLast, receiver
<1>2. QED BY <1>1 DEF SessionInv

\* The heart of the matter: a frame that opens is the peer's next one.
LEMMA OpensIsNext ==
    ASSUME SessionInv, NEW p \in Endpoints, NEW f \in Network(p), Opens(recvCipher[p], f)
    PROVE  /\ Len(accepted[p]) < Len(sent[Peer(p)])
           /\ f = sent[Peer(p)][Len(accepted[p]) + 1]
<1> DEFINE s == sent[Peer(p)]
<1>1. /\ recvCipher[p].k \in Nat /\ recvCipher[p].n = Len(accepted[p])
      /\ Numbered(s) /\ s \in Seq(Frames)
  BY PeerType DEF SessionInv, TypeOK, EndpointInv, ReceiverInStep, Ciphers
<1>2. f.k = recvCipher[p].k /\ f.n = recvCipher[p].n
  BY DEF Opens
<1>3. f \notin Forged
  BY <1>1, <1>2 DEF Forged, NoKey
<1>4. PICK i \in 1 .. Len(s) : f = s[i]
  BY <1>1, <1>3 DEF Network
<1>5. f.n = i - 1
  BY <1>1, <1>4 DEF Numbered
<1>6. i = Len(accepted[p]) + 1
  BY <1>1, <1>2, <1>5
<1>7. QED BY <1>1, <1>4, <1>6

LEMMA DecryptAcceptsInv ==
    ASSUME SessionInv, TypeOK', NEW p \in Endpoints, NEW f \in Network(p), DecryptAccepts(p, f)
    PROVE  SessionInv'
<1> DEFINE s == sent[Peer(p)]
           a == accepted[p]
           c == recvCipher[p]
<1>1. /\ ~closed[p] /\ Opens(c, f) /\ UNCHANGED sender
  BY DEF DecryptAccepts, Accepts
<1>2. Len(a) < Len(s) /\ f = s[Len(a) + 1]
  BY <1>1, OpensIsNext
<1>3. /\ TypeOK /\ Numbered(s) /\ Keyed(s) /\ SenderInStep(Peer(p))
      /\ ReceiverInStep(p) /\ AcceptedPrefix(p)
  BY PeerType DEF SessionInv, EndpointInv
<1>4. /\ s \in Seq(Frames) /\ a \in Seq(Frames) /\ Len(a) \in Nat /\ Len(s) \in Nat
      /\ c \in Ciphers
  BY <1>3, PeerType DEF TypeOK
<1>5. f.seq = Len(a) /\ f.n = Len(a) /\ f.k = KeyAfter(s, Len(a)) /\ f.seq \in SeqNumbers
  <2>1. Len(a) + 1 \in 1 .. Len(s)
    BY <1>2, <1>4
  <2>2. f \in Frames
    BY <1>2, <1>4, <2>1
  <2>3. QED BY <1>2, <1>3, <2>1, <2>2, <1>4 DEF Numbered, Keyed, Frames
<1>6. sent' = sent /\ sendSeq' = sendSeq /\ sendCipher' = sendCipher
  BY <1>1 DEF sender
<1>7. accepted'[p] = Append(a, f)
  BY <1>3 DEF DecryptAccepts, TypeOK
<1>8. AcceptedPrefix(p)'
  <2>1. /\ Len(accepted'[p]) = Len(a) + 1
        /\ \A i \in 1 .. Len(a) : accepted'[p][i] = a[i]
        /\ accepted'[p][Len(a) + 1] = f
    BY <1>4, <1>7
  <2>2. QED BY <1>2, <1>3, <1>4, <1>6, <2>1 DEF AcceptedPrefix
<1>9. ReceiverInStep(p)'
  <2>1. recvCipher'[p] = IF f.type = "REKEY" THEN Ratchet(Advance(c)) ELSE Advance(c)
    BY <1>3 DEF DecryptAccepts, TypeOK
  <2>2. Advance(c) \in Ciphers /\ Advance(c).n = c.n + 1 /\ Advance(c).k = c.k
    BY <1>1, <1>4, AdvanceType DEF Opens, Ciphers
  <2>3. recvCipher'[p].n = Len(a) + 1
    BY <1>3, <2>1, <2>2, RatchetType DEF ReceiverInStep
  <2>4. recvCipher'[p].k = KeyAfter(s, Len(a) + 1)
    <3>1. KeyAfter(s, Len(a) + 1) = IF f.type = "REKEY" THEN f.k + 1 ELSE f.k
      BY <1>2, <1>4 DEF KeyAfter
    <3>2. c.k = f.k
      BY <1>1 DEF Opens
    <3>3. QED BY <2>1, <2>2, <3>1, <3>2, RatchetType
  <2>5. Len(accepted'[p]) = Len(a) + 1
    BY <1>4, <1>7
  <2>6. QED BY <1>4, <1>6, <2>3, <2>4, <2>5 DEF ReceiverInStep
<1>10. ASSUME NEW q \in Endpoints PROVE EndpointInv(q)'
  <2>1. EndpointInv(q)
    BY DEF SessionInv
  <2>2. Numbered(sent'[q]) /\ Keyed(sent'[q]) /\ SenderInStep(q)'
    BY <1>6, <2>1 DEF EndpointInv, SenderInStep
  <2>3. CloseLast(q)'
    <3>1. CASE q = p
      BY <1>1, <1>6, <2>1, <3>1 DEF EndpointInv, CloseLast
    <3>2. CASE q # p
      <4>1. closed'[q] = closed[q]
        BY <1>3, <3>2 DEF DecryptAccepts, TypeOK
      <4>2. QED BY <1>6, <2>1, <4>1 DEF EndpointInv, CloseLast
    <3>3. QED BY <3>1, <3>2
  <2>4. ReceiverInStep(q)' /\ AcceptedPrefix(q)'
    <3>1. CASE q = p
      BY <1>8, <1>9, <3>1
    <3>2. CASE q # p
      <4>1. recvCipher'[q] = recvCipher[q] /\ accepted'[q] = accepted[q]
        BY <1>3, <3>2 DEF DecryptAccepts, TypeOK
      <4>2. QED BY <1>6, <2>1, <4>1 DEF EndpointInv, ReceiverInStep, AcceptedPrefix
    <3>3. QED BY <3>1, <3>2
  <2>5. QED BY <2>2, <2>3, <2>4 DEF EndpointInv
<1>11. QED BY <1>10 DEF SessionInv

LEMMA SessionNextInv == SessionInv /\ [Next]_vars => SessionInv'
<1> SUFFICES ASSUME SessionInv, [Next]_vars PROVE SessionInv'
  OBVIOUS
<1>0. TypeOK'
  BY NextType DEF SessionInv
<1>1. ASSUME NEW p \in Endpoints, NEW m \in Msgs, EncryptPlain(p, m)
      PROVE  SessionInv'
  BY <1>0, <1>1, EncryptPlainInv
<1>2. ASSUME NEW p \in Endpoints, NEW m \in Msgs, EncryptAfterRekey(p, m)
      PROVE  SessionInv'
  BY <1>0, <1>2, EncryptAfterRekeyInv
<1>3. ASSUME NEW p \in Endpoints, EmitFails(p) PROVE SessionInv'
  BY <1>0, <1>3, EmitFailsInv
<1>4. ASSUME NEW p \in Endpoints, EncryptFailsAfterRekey(p) PROVE SessionInv'
  BY <1>0, <1>4, EncryptFailsAfterRekeyInv
<1>5. ASSUME NEW p \in Endpoints, CloseFrame(p) PROVE SessionInv'
  BY <1>0, <1>5, CloseFrameInv
<1>6. ASSUME NEW p \in Endpoints, Tick(p) PROVE SessionInv'
  BY <1>0, <1>6, QuietInv DEF Tick
<1>7. ASSUME NEW p \in Endpoints, NEW f \in Network(p), DecryptAccepts(p, f)
      PROVE  SessionInv'
  BY <1>0, <1>7, DecryptAcceptsInv
<1>8. CASE UNCHANGED vars
  BY <1>0, <1>8, QuietInv DEF vars, sender
<1>9. QED
  BY <1>1, <1>2, <1>3, <1>4, <1>5, <1>6, <1>7, <1>8 DEF Next, Decrypt, DecryptRaises

\* A window moves only when its channel accepts its peer's next frame, by the
\* number of that frame (channel.py decrypt).
LEMMA WindowMoves ==
    ASSUME SessionInv, [Next]_vars, NEW p \in Endpoints,
           ~ /\ window'[p] = window[p]
             /\ accepted'[p] = accepted[p]
    PROVE  /\ Len(accepted[p]) \in SeqNumbers
           /\ Check(window[p], Len(accepted[p]))
           /\ window'[p] = Commit(window[p], Len(accepted[p]))
           /\ Len(accepted'[p]) = Len(accepted[p]) + 1
<1>1. TypeOK
  BY DEF SessionInv
<1>2. PICK f \in Network(p) : DecryptAccepts(p, f)
  <2>1. PICK q \in Endpoints : \E f \in Network(q) : DecryptAccepts(q, f)
    BY DEF Next, EncryptPlain, EncryptAfterRekey, EmitFails, EncryptFailsAfterRekey,
           CloseFrame, Tick, Decrypt, DecryptRaises, receiver, vars
  <2>2. q = p
    BY <1>1, <2>1 DEF DecryptAccepts, TypeOK
  <2>3. QED BY <2>1, <2>2
<1>3. /\ Len(accepted[p]) < Len(sent[Peer(p)])
      /\ f = sent[Peer(p)][Len(accepted[p]) + 1]
  BY <1>2, OpensIsNext DEF DecryptAccepts, Accepts
<1>4. f.seq = Len(accepted[p])
  <2>1. Numbered(sent[Peer(p)])
    BY PeerType DEF SessionInv, EndpointInv
  <2>2. Len(accepted[p]) + 1 \in 1 .. Len(sent[Peer(p)]) /\ Len(accepted[p]) \in Nat
    BY <1>1, <1>3, PeerType DEF TypeOK
  <2>3. QED BY <1>3, <2>1, <2>2 DEF Numbered
<1>5. f.seq \in SeqNumbers
  BY <1>1, <1>2, NetworkType DEF Frames
<1>6. Check(window[p], f.seq)
  BY <1>2 DEF DecryptAccepts, Accepts
<1>7. window'[p] = Commit(window[p], f.seq) /\ accepted'[p] = Append(accepted[p], f)
  BY <1>1, <1>2 DEF DecryptAccepts, TypeOK
<1>8. Len(accepted'[p]) = Len(accepted[p]) + 1
  BY <1>1, <1>7 DEF TypeOK
<1>9. QED BY <1>4, <1>5, <1>6, <1>7, <1>8

\* A window that started empty stands where its channel does: at the number
\* of the last frame accepted.
WindowInStep(p) == window[p].highest = Len(accepted[p]) - 1

LEMMA WindowStaysInStep ==
    ASSUME SessionInv, [Next]_vars, NEW p \in Endpoints, WindowInStep(p)
    PROVE  WindowInStep(p)'
<1>1. CASE window'[p] = window[p] /\ accepted'[p] = accepted[p]
  BY <1>1 DEF WindowInStep
<1>2. CASE ~(window'[p] = window[p] /\ accepted'[p] = accepted[p])
  <2>1. /\ Len(accepted[p]) \in SeqNumbers
        /\ window'[p] = Commit(window[p], Len(accepted[p]))
        /\ Len(accepted'[p]) = Len(accepted[p]) + 1
    BY <1>2, WindowMoves
  <2>2. window[p] \in Windows /\ Len(accepted[p]) > window[p].highest
    BY <2>1 DEF SessionInv, TypeOK, WindowInStep, SeqNumbers
  <2>3. window'[p].highest = Len(accepted[p])
    BY <2>1, <2>2, CommitAhead
  <2>4. QED BY <2>1, <2>3 DEF WindowInStep, SeqNumbers
<1>3. QED BY <1>1, <1>2

IInv == SessionInv /\ \A p \in Endpoints : WindowInStep(p)

LEMMA InitInv == Init => IInv
<1> SUFFICES ASSUME Init PROVE IInv
  OBVIOUS
<1>1. SessionInv
  BY SessionInitInv
<1>2. ASSUME NEW p \in Endpoints PROVE WindowInStep(p)
  BY DEF Init, WindowInStep, EmptyWindow
<1>3. QED BY <1>1, <1>2 DEF IInv

LEMMA NextInv == IInv /\ [Next]_vars => IInv'
<1> SUFFICES ASSUME IInv, [Next]_vars PROVE IInv'
  OBVIOUS
<1>1. SessionInv'
  BY SessionNextInv DEF IInv
<1>2. ASSUME NEW p \in Endpoints PROVE WindowInStep(p)'
  BY WindowStaysInStep DEF IInv
<1>3. QED BY <1>1, <1>2 DEF IInv

LEMMA InvariantHolds == Spec => []IInv
<1>1. Init => IInv
  BY InitInv
<1>2. IInv /\ [Next]_vars => IInv'
  BY NextInv
<1>3. QED BY <1>1, <1>2, PTL DEF Spec
-----------------------------------------------------------------------------
LEMMA SessionInOrder == SessionInv => InOrderPrefix
BY DEF SessionInv, EndpointInv, AcceptedPrefix, InOrderPrefix

LEMMA SessionNonces == SessionInv => NonceNeverReused
<1> SUFFICES ASSUME SessionInv, NEW p \in Endpoints,
                    NEW i \in 1 .. Len(sent[p]), NEW j \in 1 .. Len(sent[p]), i # j
             PROVE  <<sent[p][i].k, sent[p][i].n>> # <<sent[p][j].k, sent[p][j].n>>
  BY DEF NonceNeverReused
<1>1. sent[p][i].n = i - 1 /\ sent[p][j].n = j - 1
  BY DEF SessionInv, EndpointInv, Numbered
<1>2. sent[p][i].n # sent[p][j].n
  BY <1>1
<1>3. QED BY <1>2

\* A window in step with its channel passes the next frame, and so does the
\* cipher.
LEMMA NextAccepted ==
    ASSUME SessionInv, NEW p \in Endpoints, WindowInStep(p), ~closed[p],
           Len(accepted[p]) < Len(sent[Peer(p)])
    PROVE  Accepts(p, sent[Peer(p)][Len(accepted[p]) + 1])
<1> DEFINE s == sent[Peer(p)]
           n == Len(accepted[p])
<1>1. /\ s \in Seq(Frames) /\ n \in Nat /\ Len(s) \in Nat /\ Len(s) <= MaxSeq
      /\ Numbered(s) /\ Keyed(s) /\ ReceiverInStep(p) /\ window[p] \in Windows
  BY PeerType DEF SessionInv, TypeOK, EndpointInv, SenderInStep
<1>2. s[n + 1].seq = n /\ s[n + 1].n = n /\ s[n + 1].k = KeyAfter(s, n)
  BY <1>1 DEF Numbered, Keyed
<1>3. Opens(recvCipher[p], s[n + 1])
  BY <1>1, <1>2 DEF Opens, ReceiverInStep
<1>4. Check(window[p], s[n + 1].seq)
  BY <1>1, <1>2 DEF Check, WindowInStep, SeqNumbers
<1>5. QED BY <1>3, <1>4 DEF Accepts

LEMMA InvNextAccepted == IInv => NextFrameAccepted
BY NextAccepted DEF IInv, NextFrameAccepted

LEMMA SessionCloses == SessionInv => CloseMeansComplete
<1> SUFFICES ASSUME SessionInv, NEW p \in Endpoints,
                    NEW i \in DOMAIN accepted[p], accepted[p][i].type = "CLOSE"
             PROVE  accepted[p] = sent[Peer(p)]
  BY DEF CloseMeansComplete
<1> DEFINE s == sent[Peer(p)]
           a == accepted[p]
<1>1. /\ s \in Seq(Frames) /\ a \in Seq(Frames)
      /\ AcceptedPrefix(p) /\ CloseLast(Peer(p))
  BY PeerType DEF SessionInv, TypeOK, EndpointInv
<1>2. i \in 1 .. Len(a) /\ i \in 1 .. Len(s) /\ s[i].type = "CLOSE"
  BY <1>1 DEF AcceptedPrefix
<1>3. i = Len(s)
  BY <1>1, <1>2 DEF CloseLast
<1>4. Len(a) = Len(s) /\ \A j \in 1 .. Len(s) : a[j] = s[j]
  BY <1>1, <1>2, <1>3 DEF AcceptedPrefix
<1>5. QED BY <1>1, <1>4

(* What decrypt() accepts is a prefix of what the peer encrypted, on any   *)
(* network: no replay, no reordering, no gap, no forgery, across rekeys.   *)
THEOREM InOrder == Spec => []InOrderPrefix
<1>1. IInv => InOrderPrefix
  BY SessionInOrder DEF IInv
<1>2. QED BY <1>1, InvariantHolds, PTL

(* No key encrypts two frames under the same nonce.                        *)
THEOREM NoncesUnique == Spec => []NonceNeverReused
<1>1. IInv => NonceNeverReused
  BY SessionNonces DEF IInv
<1>2. QED BY <1>1, InvariantHolds, PTL

(* An open channel accepts the peer's next frame whenever it is presented: *)
(* nothing seen before can make the window or the cipher refuse it.        *)
THEOREM NextIsAccepted == Spec => []NextFrameAccepted
BY InvNextAccepted, InvariantHolds, PTL

(* An accepted CLOSE means that everything the peer produced was accepted. *)
THEOREM CloseIsComplete == Spec => []CloseMeansComplete
<1>1. IInv => CloseMeansComplete
  BY SessionCloses DEF IInv
<1>2. QED BY <1>1, InvariantHolds, PTL
-----------------------------------------------------------------------------
(* How much one key is used.  As long as the channel can send, the policy  *)
(* has counted at least the messages under the current key: exactly those, *)
(* or more if the policy came with a count from an earlier session.        *)

Data(s, i, k) == s[i].type = "TRANSPORT" /\ s[i].k = k

\* The messages under one key are among MaxMessages consecutive frames.
UsageBounded(s) == \A k \in Nat : \E b \in Int : \A i \in 1 .. Len(s) :
    Data(s, i, k) => b < i /\ i <= b + MaxMessages

\* Those under the current key come after the frame at which it was taken up.
CountInStep(p) == ~closed[p] /\ sendCipher[p].n < MaxNonce =>
    \A i \in 1 .. Len(sent[p]) :
        Data(sent[p], i, sendCipher[p].k) => Len(sent[p]) - rekey[p].count < i

KeysRise(p) == \A i \in 1 .. Len(sent[p]) : sent[p][i].k <= sendCipher[p].k

UsageInv == \A p \in Endpoints :
    UsageBounded(sent[p]) /\ CountInStep(p) /\ KeysRise(p)

\* A step of p's sender keeps the usage invariant if it keeps p's part of it.
LEMMA UsageStep ==
    ASSUME TypeOK, UsageInv, NEW p \in Endpoints,
           \A q \in Endpoints \ {p} :
               /\ sent'[q] = sent[q] /\ sendCipher'[q] = sendCipher[q]
               /\ rekey'[q] = rekey[q] /\ closed'[q] = closed[q],
           UsageBounded(sent'[p]), CountInStep(p)', KeysRise(p)'
    PROVE  UsageInv'
<1>1. ASSUME NEW q \in Endpoints
      PROVE  UsageBounded(sent'[q]) /\ CountInStep(q)' /\ KeysRise(q)'
  <2>1. CASE q = p
    BY <2>1
  <2>2. CASE q # p
    BY <2>2 DEF UsageInv, CountInStep, KeysRise
  <2>3. QED BY <2>1, <2>2
<1>2. QED BY <1>1 DEF UsageInv

LEMMA EncryptPlainUsage ==
    ASSUME SessionInv, UsageInv, NEW p \in Endpoints, NEW m \in Msgs, EncryptPlain(p, m)
    PROVE  UsageInv'
<1> DEFINE s == sent[p]
           c == sendCipher[p]
           r == rekey[p]
           f == Emit("TRANSPORT", sendSeq[p], c, m)
           t == Append(s, f)
<1>1. /\ TypeOK /\ ~closed[p] /\ c.n < MaxNonce /\ ~Due(r)
      /\ UsageBounded(s) /\ CountInStep(p) /\ KeysRise(p)
  BY DEF EncryptPlain, CanEmit, SessionInv, UsageInv
<1>2. /\ s \in Seq(Frames) /\ c \in Ciphers /\ c.n + 1 \in 0 .. MaxNonce
      /\ r \in Policies /\ Len(s) \in Nat
  BY <1>1 DEF TypeOK, Ciphers
<1>3. f.type = "TRANSPORT" /\ f.k = c.k /\ c.k \in Nat
  BY <1>2 DEF Emit, Ciphers
<1>4. /\ sent'[p] = t /\ sendCipher'[p] = Advance(c) /\ rekey'[p] = NoteMessage(r)
      /\ closed' = closed
      /\ \A q \in Endpoints \ {p} :
             /\ sent'[q] = sent[q] /\ sendCipher'[q] = sendCipher[q]
             /\ rekey'[q] = rekey[q] /\ closed'[q] = closed[q]
  BY <1>1 DEF EncryptPlain, TypeOK
<1>5. Advance(c).k = c.k
  BY <1>2, AdvanceType
<1>6. r.count < MaxMessages /\ r.count \in Nat /\ NoteMessage(r).count = r.count + 1
  BY <1>1, <1>2 DEF Due, Policies, NoteMessage
<1>7. /\ Len(t) = Len(s) + 1 /\ t[Len(s) + 1] = f
      /\ \A i \in 1 .. Len(s) : t[i] = s[i]
  BY <1>2
<1>8. \A i \in 1 .. Len(s) : Data(s, i, c.k) => Len(s) - r.count < i
  BY <1>1 DEF CountInStep
<1> HIDE DEF s, c, r, f, t
<1>9. UsageBounded(t)
  <2> SUFFICES ASSUME NEW k \in Nat
               PROVE  \E b \in Int : \A i \in 1 .. Len(t) :
                          Data(t, i, k) => b < i /\ i <= b + MaxMessages
    BY DEF UsageBounded
  <2>1. CASE k = c.k
    <3>1. Len(s) - r.count \in Int
      BY <1>2, <1>6
    <3>2. ASSUME NEW i \in 1 .. Len(t), Data(t, i, k)
          PROVE  Len(s) - r.count < i /\ i <= Len(s) - r.count + MaxMessages
      <4>1. CASE i \in 1 .. Len(s)
        BY <1>2, <1>6, <1>7, <1>8, <2>1, <3>2, <4>1 DEF Data
      <4>2. CASE i = Len(s) + 1
        BY <1>2, <1>6, <1>8, <4>2
      <4>3. QED BY <1>2, <1>7, <4>1, <4>2
    <3>3. QED BY <3>1, <3>2
  <2>2. CASE k # c.k
    <3>1. PICK b \in Int : \A i \in 1 .. Len(s) :
                               Data(s, i, k) => b < i /\ i <= b + MaxMessages
      BY <1>1 DEF UsageBounded
    <3>2. \A i \in 1 .. Len(t) : Data(t, i, k) => i \in 1 .. Len(s) /\ Data(s, i, k)
      BY <1>2, <1>3, <1>7, <2>2 DEF Data
    <3>3. QED BY <3>1, <3>2
  <2>3. QED BY <2>1, <2>2
<1>10. CountInStep(p)'
  <2>1. \A i \in 1 .. Len(t) : Data(t, i, c.k) => Len(t) - (r.count + 1) < i
    <3>1. ASSUME NEW i \in 1 .. Len(t), Data(t, i, c.k)
          PROVE  Len(t) - (r.count + 1) < i
      <4>1. CASE i \in 1 .. Len(s)
        BY <1>2, <1>6, <1>7, <1>8, <3>1, <4>1 DEF Data
      <4>2. CASE i = Len(s) + 1
        BY <1>2, <1>6, <1>7, <4>2
      <4>3. QED BY <1>2, <1>7, <4>1, <4>2
    <3>2. QED BY <3>1
  <2>2. QED BY <1>4, <1>5, <1>6, <2>1 DEF CountInStep
<1>11. KeysRise(p)'
  <2>1. \A i \in 1 .. Len(t) : t[i].k <= c.k
    BY <1>1, <1>2, <1>3, <1>7 DEF KeysRise, s, c
  <2>2. QED BY <1>4, <1>5, <2>1 DEF KeysRise
<1>12. QED BY <1>1, <1>4, <1>9, <1>10, <1>11, UsageStep

LEMMA EncryptAfterRekeyUsage ==
    ASSUME SessionInv, UsageInv, NEW p \in Endpoints, NEW m \in Msgs, EncryptAfterRekey(p, m)
    PROVE  UsageInv'
<1> DEFINE s == sent[p]
           c == sendCipher[p]
           d == Ratchet(Advance(c))
           f == Emit("REKEY", sendSeq[p], c, NoMsg)
           g == Emit("TRANSPORT", sendSeq[p] + 1, d, m)
           u == Append(Append(s, f), g)
<1>1. /\ TypeOK /\ c.n < MaxNonce /\ CanEmit(sendSeq[p] + 1, d.n)
      /\ UsageBounded(s) /\ KeysRise(p)
  BY DEF EncryptAfterRekey, CanEmit, SessionInv, UsageInv
<1>2. /\ s \in Seq(Frames) /\ c \in Ciphers /\ c.n + 1 \in 0 .. MaxNonce
      /\ Len(s) \in Nat /\ c.k \in Nat
  BY <1>1 DEF TypeOK, Ciphers
<1>3. d \in Ciphers /\ d.k = c.k + 1
  <2>1. Advance(c) \in Ciphers /\ Advance(c).k = c.k
    BY <1>2, AdvanceType
  <2>2. QED BY <2>1, RatchetType
<1>4. /\ sent'[p] = u /\ sendCipher'[p] = Advance(d) /\ rekey'[p] = NoteMessage(Reset)
      /\ closed' = closed
      /\ \A q \in Endpoints \ {p} :
             /\ sent'[q] = sent[q] /\ sendCipher'[q] = sendCipher[q]
             /\ rekey'[q] = rekey[q] /\ closed'[q] = closed[q]
  BY <1>1 DEF EncryptAfterRekey, TypeOK
<1> HIDE DEF d
<1>5. Advance(d).k = d.k
  <2>1. d.n + 1 \in 0 .. MaxNonce
    BY <1>1, <1>3 DEF CanEmit, Ciphers
  <2>2. QED BY <1>3, <2>1, AdvanceType
<1>6. f.type = "REKEY" /\ f.k = c.k /\ g.type = "TRANSPORT" /\ g.k = d.k
  BY DEF Emit
<1>7. NoteMessage(Reset).count = 1
  BY DEF NoteMessage, Reset
<1> HIDE DEF f, g
<1>8. /\ Len(u) = Len(s) + 2 /\ u[Len(s) + 1] = f /\ u[Len(s) + 2] = g
      /\ \A i \in 1 .. Len(s) : u[i] = s[i]
  <2>1. /\ Len(Append(s, f)) = Len(s) + 1 /\ Append(s, f)[Len(s) + 1] = f
        /\ \A i \in 1 .. Len(s) : Append(s, f)[i] = s[i]
    BY <1>2
  <2>2. QED BY <1>2, <2>1
<1>9. \A i \in 1 .. Len(s) : s[i].k <= c.k /\ s[i].k \in Int
  <2>1. \A i \in 1 .. Len(s) : s[i].k <= c.k
    BY <1>1 DEF KeysRise
  <2> HIDE DEF s
  <2>2. \A i \in 1 .. Len(s) : s[i] \in Frames
    BY <1>2
  <2>3. \A fr \in Frames : fr.k \in Int
    BY DEF Frames, NoKey
  <2>4. QED BY <2>1, <2>2, <2>3
<1> HIDE DEF s, c, u
<1>10. \A i \in 1 .. Len(u) : Data(u, i, d.k) => i = Len(s) + 2
  BY <1>2, <1>3, <1>6, <1>8, <1>9 DEF Data
<1>11. UsageBounded(u)
  <2> SUFFICES ASSUME NEW k \in Nat
               PROVE  \E b \in Int : \A i \in 1 .. Len(u) :
                          Data(u, i, k) => b < i /\ i <= b + MaxMessages
    BY DEF UsageBounded
  <2>1. CASE k = d.k
    <3>1. \A i \in 1 .. Len(u) :
              Data(u, i, k) => Len(s) + 1 < i /\ i <= Len(s) + 1 + MaxMessages
      BY <1>2, <1>10, <2>1
    <3>2. Len(s) + 1 \in Int
      BY <1>2
    <3>3. QED BY <3>1, <3>2
  <2>2. CASE k # d.k
    <3>1. PICK b \in Int : \A i \in 1 .. Len(s) :
                               Data(s, i, k) => b < i /\ i <= b + MaxMessages
      BY <1>1 DEF UsageBounded
    <3>2. \A i \in 1 .. Len(u) : Data(u, i, k) => i \in 1 .. Len(s) /\ Data(s, i, k)
      BY <1>2, <1>6, <1>8, <2>2 DEF Data
    <3>3. QED BY <3>1, <3>2
  <2>3. QED BY <2>1, <2>2
<1>12. CountInStep(p)'
  <2>1. \A i \in 1 .. Len(u) : Data(u, i, d.k) => Len(u) - 1 < i
    BY <1>2, <1>8, <1>10
  <2>2. QED BY <1>4, <1>5, <1>7, <2>1 DEF CountInStep
<1>13. KeysRise(p)'
  <2>1. \A i \in 1 .. Len(u) : u[i].k <= d.k
    BY <1>2, <1>3, <1>6, <1>8, <1>9
  <2>2. QED BY <1>4, <1>5, <2>1 DEF KeysRise
<1>14. QED BY <1>1, <1>4, <1>11, <1>12, <1>13, UsageStep

LEMMA CloseFrameUsage ==
    ASSUME SessionInv, UsageInv, NEW p \in Endpoints, CloseFrame(p)
    PROVE  UsageInv'
<1> DEFINE s == sent[p]
           c == sendCipher[p]
           f == Emit("CLOSE", sendSeq[p], c, NoMsg)
           t == Append(s, f)
<1>1. TypeOK /\ c.n < MaxNonce /\ UsageBounded(s) /\ KeysRise(p)
  BY DEF CloseFrame, CanEmit, SessionInv, UsageInv
<1>2. /\ s \in Seq(Frames) /\ c \in Ciphers /\ c.n + 1 \in 0 .. MaxNonce
      /\ Len(s) \in Nat /\ c.k \in Nat
  BY <1>1 DEF TypeOK, Ciphers
<1>3. /\ sent'[p] = t /\ sendCipher'[p] = Advance(c) /\ closed'[p]
      /\ \A q \in Endpoints \ {p} :
             /\ sent'[q] = sent[q] /\ sendCipher'[q] = sendCipher[q]
             /\ rekey'[q] = rekey[q] /\ closed'[q] = closed[q]
  BY <1>1 DEF CloseFrame, TypeOK
<1>4. Advance(c).k = c.k
  BY <1>2, AdvanceType
<1>5. f.type = "CLOSE" /\ f.k = c.k
  BY DEF Emit
<1>6. /\ Len(t) = Len(s) + 1 /\ t[Len(s) + 1] = f
      /\ \A i \in 1 .. Len(s) : t[i] = s[i]
  BY <1>2
<1>7. \A i \in 1 .. Len(s) : s[i].k <= c.k
  BY <1>1 DEF KeysRise
<1> HIDE DEF s, c, f, t
<1>8. \A k \in Nat : \A i \in 1 .. Len(t) : Data(t, i, k) => i \in 1 .. Len(s) /\ Data(s, i, k)
  BY <1>2, <1>5, <1>6 DEF Data
<1>9. UsageBounded(t)
  BY <1>1, <1>8 DEF UsageBounded
<1>10. CountInStep(p)'
  BY <1>3 DEF CountInStep
<1>11. KeysRise(p)'
  <2>1. \A i \in 1 .. Len(t) : t[i].k <= c.k
    BY <1>2, <1>5, <1>6, <1>7
  <2>2. QED BY <1>3, <1>4, <2>1 DEF KeysRise
<1>12. QED BY <1>1, <1>3, <1>9, <1>10, <1>11, UsageStep

\* A failed call sends nothing; one that fails after its rekey has used the
\* last nonce, after which the count no longer matters.
LEMMA EncryptFailsAfterRekeyUsage ==
    ASSUME SessionInv, UsageInv, NEW p \in Endpoints, EncryptFailsAfterRekey(p)
    PROVE  UsageInv'
<1> DEFINE s == sent[p]
           c == sendCipher[p]
           d == Ratchet(Advance(c))
<1>1. /\ TypeOK /\ ~closed[p] /\ CanEmit(sendSeq[p], c.n)
      /\ ~CanEmit(sendSeq[p] + 1, c.n + 1)
      /\ UsageBounded(s) /\ KeysRise(p) /\ SenderInStep(p)
  BY DEF EncryptFailsAfterRekey, SessionInv, EndpointInv, UsageInv
<1>2. /\ s \in Seq(Frames) /\ c \in Ciphers /\ c.n + 1 \in 0 .. MaxNonce
      /\ c.k \in Nat
  BY <1>1 DEF TypeOK, Ciphers, CanEmit
<1>3. d.k = c.k + 1 /\ d.n = c.n + 1
  <2>1. /\ Advance(c) \in Ciphers /\ Advance(c).k = c.k
        /\ Advance(c).n = c.n + 1
    BY <1>2, AdvanceType
  <2>2. QED BY <2>1, RatchetType
<1>4. /\ sent' = sent /\ closed' = closed /\ sendCipher'[p] = d
      /\ \A q \in Endpoints \ {p} :
             /\ sent'[q] = sent[q] /\ sendCipher'[q] = sendCipher[q]
             /\ rekey'[q] = rekey[q] /\ closed'[q] = closed[q]
  BY <1>1 DEF EncryptFailsAfterRekey, TypeOK
<1>5. UsageBounded(sent'[p])
  BY <1>1, <1>4
<1>6. CountInStep(p)'
  <2>1. sendSeq[p] \in 0 .. RetryBound + 1
    BY <1>1 DEF TypeOK
  <2>2. c.n + 1 = MaxNonce
    BY <1>1, <1>2, <2>1 DEF CanEmit, SenderInStep, RetryBound
  <2>3. QED BY <1>3, <1>4, <2>2 DEF CountInStep
<1>7. KeysRise(p)'
  <2>1. \A i \in 1 .. Len(s) : s[i].k <= c.k
    BY <1>1 DEF KeysRise
  <2> HIDE DEF s, c, d
  <2>2. \A i \in 1 .. Len(s) : s[i] \in Frames
    BY <1>2
  <2>3. \A fr \in Frames : fr.k \in Int
    BY DEF Frames, NoKey
  <2>4. \A i \in 1 .. Len(s) : s[i].k <= d.k
    BY <1>2, <1>3, <2>1, <2>2, <2>3
  <2>5. QED BY <1>4, <2>4 DEF KeysRise, s
<1>8. QED BY <1>1, <1>4, <1>5, <1>6, <1>7, UsageStep

\* Everything else leaves the frames, the sending key and the count alone,
\* and never reopens a channel.
LEMMA QuietUsage ==
    ASSUME TypeOK, UsageInv, UNCHANGED <<sent, sendCipher>>,
           \A p \in Endpoints : rekey'[p].count = rekey[p].count,
           \A p \in Endpoints : closed[p] => closed'[p]
    PROVE  UsageInv'
<1>1. ASSUME NEW p \in Endpoints
      PROVE  UsageBounded(sent'[p]) /\ CountInStep(p)' /\ KeysRise(p)'
  BY <1>1 DEF UsageInv, CountInStep, KeysRise
<1>2. QED BY <1>1 DEF UsageInv

LEMMA TickUsage ==
    ASSUME TypeOK, UsageInv, NEW p \in Endpoints, Tick(p)
    PROVE  UsageInv'
<1>1. \A q \in Endpoints : rekey'[q].count = rekey[q].count
  BY DEF Tick, TypeOK, Elapse, Policies
<1>2. QED BY <1>1, QuietUsage DEF Tick

LEMMA DecryptUsage ==
    ASSUME TypeOK, UsageInv, NEW p \in Endpoints, NEW f \in Network(p),
           DecryptAccepts(p, f)
    PROVE  UsageInv'
<1>1. \A q \in Endpoints : closed[q] => closed'[q]
  BY DEF DecryptAccepts, Accepts, TypeOK
<1>2. QED BY <1>1, QuietUsage DEF DecryptAccepts, sender

LEMMA NothingYetUsed == NothingYet => UsageInv
<1> SUFFICES ASSUME NothingYet, NEW p \in Endpoints
             PROVE  UsageBounded(sent[p]) /\ CountInStep(p) /\ KeysRise(p)
  BY DEF UsageInv
<1>1. sent[p] = <<>> /\ Len(sent[p]) = 0
  BY DEF NothingYet
<1>2. \A i \in 1 .. Len(sent[p]) : FALSE
  BY <1>1
<1>3. 0 \in Int
  OBVIOUS
<1>4. UsageBounded(sent[p])
  BY <1>2, <1>3 DEF UsageBounded
<1>5. QED BY <1>1, <1>2, <1>4 DEF CountInStep, KeysRise

LEMMA InitUsage == Init => UsageInv
<1>1. Init => NothingYet
  BY DEF Init, NothingYet
<1>2. QED BY <1>1, NothingYetUsed

LEMMA NextUsage == SessionInv /\ UsageInv /\ [Next]_vars => UsageInv'
<1> SUFFICES ASSUME SessionInv, UsageInv, [Next]_vars
             PROVE  UsageInv'
  OBVIOUS
<1>0. TypeOK
  BY DEF SessionInv
<1>1. ASSUME NEW p \in Endpoints, NEW m \in Msgs, EncryptPlain(p, m)
      PROVE  UsageInv'
  BY <1>1, EncryptPlainUsage
<1>2. ASSUME NEW p \in Endpoints, NEW m \in Msgs, EncryptAfterRekey(p, m)
      PROVE  UsageInv'
  BY <1>2, EncryptAfterRekeyUsage
<1>3. ASSUME NEW p \in Endpoints, EmitFails(p) PROVE UsageInv'
  BY <1>0, <1>3, QuietUsage DEF EmitFails
<1>4. ASSUME NEW p \in Endpoints, EncryptFailsAfterRekey(p) PROVE UsageInv'
  BY <1>4, EncryptFailsAfterRekeyUsage
<1>5. ASSUME NEW p \in Endpoints, CloseFrame(p) PROVE UsageInv'
  BY <1>5, CloseFrameUsage
<1>6. ASSUME NEW p \in Endpoints, Tick(p) PROVE UsageInv'
  BY <1>0, <1>6, TickUsage
<1>7. ASSUME NEW p \in Endpoints, NEW f \in Network(p), DecryptAccepts(p, f)
      PROVE  UsageInv'
  BY <1>0, <1>7, DecryptUsage
<1>8. CASE UNCHANGED vars
  BY <1>0, <1>8, QuietUsage DEF vars, sender
<1>9. QED
  BY <1>1, <1>2, <1>3, <1>4, <1>5, <1>6, <1>7, <1>8 DEF Next, Decrypt, DecryptRaises

\* MaxMessages consecutive positions hold at most MaxMessages messages.
LEMMA BoundedCount ==
    ASSUME NEW s \in Seq(Frames), UsageBounded(s), NEW k \in Nat
    PROVE  Cardinality({i \in DOMAIN s : s[i].type = "TRANSPORT" /\ s[i].k = k})
               <= MaxMessages
<1> DEFINE used == {i \in DOMAIN s : s[i].type = "TRANSPORT" /\ s[i].k = k}
<1>1. PICK b \in Int : \A i \in 1 .. Len(s) :
                           Data(s, i, k) => b < i /\ i <= b + MaxMessages
  BY DEF UsageBounded
<1>2. used \subseteq (b + 1) .. (b + MaxMessages)
  BY <1>1 DEF Data
<1>3. b + 1 \in Int /\ b + MaxMessages \in Int /\ MaxMessages \in Nat
      /\ b + 1 <= b + MaxMessages /\ (b + MaxMessages) - (b + 1) + 1 = MaxMessages
  BY <1>1
<1>4. /\ IsFiniteSet((b + 1) .. (b + MaxMessages))
      /\ Cardinality((b + 1) .. (b + MaxMessages)) = MaxMessages
  BY <1>3, FS_Interval
<1>5. Cardinality(used) <= Cardinality((b + 1) .. (b + MaxMessages))
  BY <1>2, <1>4, FS_Subset
<1>6. QED BY <1>4, <1>5

LEMMA SessionUsage == SessionInv /\ UsageInv => KeyUsageBounded
<1> SUFFICES ASSUME SessionInv, UsageInv, NEW p \in Endpoints, NEW k \in 0 .. MaxSeq
             PROVE  Cardinality({i \in DOMAIN sent[p] :
                        sent[p][i].type = "TRANSPORT" /\ sent[p][i].k = k})
                            <= MaxMessages
  BY DEF KeyUsageBounded
<1>1. sent[p] \in Seq(Frames) /\ UsageBounded(sent[p]) /\ k \in Nat
  BY DEF SessionInv, TypeOK, UsageInv
<1>2. QED BY <1>1, BoundedCount

(* One key never encrypts more than max_messages application messages.     *)
THEOREM KeyUsage == Spec => []KeyUsageBounded
<1>1. Init => SessionInv /\ UsageInv
  BY SessionInitInv, InitUsage
<1>2. SessionInv /\ UsageInv /\ [Next]_vars => (SessionInv /\ UsageInv)'
  BY SessionNextInv, NextUsage
<1>3. QED BY <1>1, <1>2, SessionUsage, PTL DEF Spec
-----------------------------------------------------------------------------
(* Sessions in a row.  What a session inherits is the client's window and  *)
(* its policy.  SessionInv says nothing of a window and UsageInv asks      *)
(* nothing of a policy that has sent nothing yet, so both hold again as    *)
(* soon as the next session has begun; the window's part of the invariant  *)
(* is WindowInv.                                                           *)

(* A session that was not handed an advanced window has windows in step;   *)
(* the client's window refuses number 0 from its first commit on; and one  *)
(* that was handed on after that has let nothing through.                  *)
WindowInv ==
    /\ spent \in BOOLEAN
    /\ WindowInStep("responder")
    /\ ~spent => WindowInStep("initiator")
    /\ window["initiator"] = EmptyWindow \/ ~Check(window["initiator"], 0)
    /\ spent => /\ ~Check(window["initiator"], 0)
                /\ accepted["initiator"] = <<>>

RInv == SessionInv /\ UsageInv /\ WindowInv

LEMMA ReconnectInitInv == ReconnectInit => RInv
<1> SUFFICES ASSUME ReconnectInit PROVE RInv
  OBVIOUS
<1>1. IInv /\ UsageInv
  BY InitInv, InitUsage DEF ReconnectInit
<1>2. WindowInv
  BY <1>1 DEF ReconnectInit, Init, WindowInv, IInv, Endpoints
<1>3. QED BY <1>1, <1>2 DEF RInv, IInv

\* A step of the session's own.
LEMMA WithinSession ==
    ASSUME RInv, [Next]_vars, UNCHANGED spent
    PROVE  RInv'
<1>1. SessionInv /\ UsageInv /\ WindowInv /\ TypeOK
  BY DEF RInv, SessionInv
<1>2. SessionInv' /\ UsageInv'
  BY <1>1, SessionNextInv, NextUsage
<1> DEFINE w == window["initiator"]
           a == accepted["initiator"]
<1>3. w \in Windows /\ a \in Seq(Frames) /\ 0 \in SeqNumbers
  BY <1>1 DEF TypeOK, Endpoints, SeqNumbers
<1>4. WindowInStep("responder")' /\ (~spent => WindowInStep("initiator")')
  BY <1>1, WindowStaysInStep DEF WindowInv, Endpoints
<1>5. CASE window'["initiator"] = w /\ accepted'["initiator"] = a
  BY <1>1, <1>2, <1>4, <1>5 DEF RInv, WindowInv, Check
<1>6. CASE ~(window'["initiator"] = w /\ accepted'["initiator"] = a)
  <2>1. /\ Len(a) \in SeqNumbers
        /\ Check(w, Len(a))
        /\ window'["initiator"] = Commit(w, Len(a))
    BY <1>1, <1>6, WindowMoves DEF Endpoints
  <2>2. ~spent
    <3>1. SUFFICES ASSUME spent PROVE FALSE
      OBVIOUS
    <3>2. ~Check(w, 0) /\ Len(a) = 0
      BY <1>1, <3>1 DEF WindowInv
    <3>3. QED BY <2>1, <3>2
  <2>3. ~Check(Commit(w, Len(a)), 0)
    <3>1. CASE w = EmptyWindow
      <4>1. Len(a) = 0
        BY <1>1, <1>3, <2>2, <3>1 DEF WindowInv, WindowInStep, EmptyWindow
      <4>2. QED BY <1>3, <4>1, CommittedIsRefused
    <3>2. CASE ~Check(w, 0)
      BY <1>3, <2>1, <3>2, RefusedStaysRefused
    <3>3. QED BY <1>1, <3>1, <3>2 DEF WindowInv
  <2>4. ~Check(window["initiator"], 0)'
    BY <2>1, <2>3 DEF Check
  <2>5. QED BY <1>1, <1>2, <1>4, <2>2, <2>4 DEF RInv, WindowInv
<1>7. QED BY <1>5, <1>6

\* The next session.
LEMMA ConnectKeeps ==
    ASSUME RInv, NEW sameWindow \in BOOLEAN, NEW samePolicy \in BOOLEAN,
           Connect(sameWindow, samePolicy)
    PROVE  RInv'
<1>1. TypeOK /\ WindowInv
  BY DEF RInv, SessionInv
<1>2. [k |-> 0, n |-> 0] \in Ciphers /\ <<>> \in Seq(Frames) /\ 0 \in 0 .. RetryBound + 1
  BY DEF Ciphers, RetryBound
<1>3. WindowGiven(sameWindow) \in Windows /\ EmptyWindow \in Windows
  BY <1>1 DEF TypeOK, WindowGiven, Endpoints, EmptyWindow, Windows, Mask
<1>4. PolicyGiven(samePolicy) \in Policies /\ Reset \in Policies
  BY <1>1, PolicyType DEF TypeOK, PolicyGiven, Endpoints
<1>5. TypeOK'
  BY <1>2, <1>3, <1>4 DEF Connect, TypeOK
<1>6. NothingYet'
  BY DEF Connect, NothingYet
<1>7. TypeOK' /\ NothingYet' => SessionInv'
  BY NothingYetInv, PTL
<1>8. NothingYet' => UsageInv'
  BY NothingYetUsed, PTL
<1>9. WindowInv'
  <2>1. /\ window'["responder"] = EmptyWindow
        /\ window'["initiator"] = WindowGiven(sameWindow)
        /\ accepted'["responder"] = <<>> /\ accepted'["initiator"] = <<>>
        /\ spent' = (sameWindow /\ window["initiator"] # EmptyWindow)
    BY DEF Connect, Endpoints
  <2>2. WindowInStep("responder")'
    BY <2>1 DEF WindowInStep, EmptyWindow
  <2>3. ~spent' => window'["initiator"] = EmptyWindow
    BY <2>1 DEF WindowGiven
  <2>4. ~spent' => WindowInStep("initiator")'
    BY <2>1, <2>3 DEF WindowInStep, EmptyWindow
  <2>5. spent' => ~Check(window["initiator"], 0)'
    <3>1. SUFFICES ASSUME spent' PROVE ~Check(window'["initiator"], 0)
      BY DEF Check
    <3>2. window'["initiator"] = window["initiator"]
      BY <2>1, <3>1 DEF WindowGiven
    <3>3. QED BY <1>1, <2>1, <3>1, <3>2 DEF WindowInv
  <2>6. QED BY <2>1, <2>2, <2>3, <2>4, <2>5 DEF WindowInv
<1>10. QED BY <1>5, <1>6, <1>7, <1>8, <1>9 DEF RInv

LEMMA ReconnectNextInv == RInv /\ [ReconnectNext]_reconnectVars => RInv'
<1> SUFFICES ASSUME RInv, [ReconnectNext]_reconnectVars PROVE RInv'
  OBVIOUS
<1>1. CASE Next /\ UNCHANGED <<session, spent>>
  BY <1>1, WithinSession
<1>2. ASSUME NEW sameWindow \in BOOLEAN, NEW samePolicy \in BOOLEAN,
             Connect(sameWindow, samePolicy)
      PROVE  RInv'
  BY <1>2, ConnectKeeps
<1>3. CASE UNCHANGED reconnectVars
  BY <1>3, WithinSession DEF reconnectVars
<1>4. QED BY <1>1, <1>2, <1>3 DEF ReconnectNext

LEMMA ReconnectInvHolds == ReconnectSpec => []RInv
BY ReconnectInitInv, ReconnectNextInv, PTL DEF ReconnectSpec

(* In every session of a client that connects again and again, whatever it *)
(* hands on, what is accepted is a prefix of what the peer of this session *)
(* encrypted, no nonce is used twice and no key too often, and an accepted *)
(* CLOSE is the end of all the peer said (transport.py connect).           *)
THEOREM EverySessionIsOrderly ==
    ReconnectSpec => []/\ TypeOK
                       /\ InOrderPrefix
                       /\ NonceNeverReused
                       /\ CloseMeansComplete
                       /\ KeyUsageBounded
<1>1. RInv => /\ TypeOK
              /\ InOrderPrefix
              /\ NonceNeverReused
              /\ CloseMeansComplete
              /\ KeyUsageBounded
  BY SessionInOrder, SessionNonces, SessionCloses, SessionUsage DEF RInv, SessionInv
<1>2. QED BY <1>1, ReconnectInvHolds, PTL

(* A session whose client brought a window that had not advanced, or none, *)
(* accepts the next frame at both ends whenever it is presented.           *)
THEOREM OwnWindowAlwaysDelivers == ReconnectSpec => []OwnWindowDelivers
<1>1. RInv => OwnWindowDelivers
  <2> SUFFICES ASSUME RInv, ~spent, NEW p \in Endpoints, ~closed[p],
                      Len(accepted[p]) < Len(sent[Peer(p)])
               PROVE  Accepts(p, sent[Peer(p)][Len(accepted[p]) + 1])
    BY DEF OwnWindowDelivers, NextFrameAccepted
  <2>1. SessionInv /\ WindowInStep(p)
    BY DEF RInv, WindowInv, Endpoints
  <2>2. QED BY <2>1, NextAccepted
<1>2. QED BY <1>1, ReconnectInvHolds, PTL

(* A session whose client brought a window that had advanced accepts       *)
(* nothing at that end, for good: reuse shows at once, and is not a        *)
(* session that starts with a gap (transport.py connect, replay_window).   *)
THEOREM SpentWindowNeverOpens == ReconnectSpec => []SpentWindowShutsOut
<1>1. RInv => SpentWindowShutsOut
  BY DEF RInv, WindowInv, SpentWindowShutsOut
<1>2. QED BY <1>1, ReconnectInvHolds, PTL
-----------------------------------------------------------------------------
(* The message stream.  A recursive function of a log is followed from one *)
(* frame to the next: that it exists, is unique and only ever gets longer  *)
(* is part of the invariant.                                               *)

Texts == Msgs \cup {NoMsg}

With(texts, f) == IF f.type = "TRANSPORT" THEN Append(texts, f.msg) ELSE texts

\* P has what is carried up to each frame of s.
Unrolls(s, P) ==
    /\ P = [i \in 0 .. Len(s) |-> P[i]]
    /\ P[0] = <<>>
    /\ \A i \in 1 .. Len(s) : P[i] = With(P[i - 1], s[i])

Lengthens(s, P) == \A i \in 0 .. Len(s) :
    /\ P[i] \in Seq(Texts)
    /\ Len(P[i]) <= Len(P[Len(s)])
    /\ \A n \in 1 .. Len(P[i]) : P[Len(s)][n] = P[i][n]

Followed(s) == \E P : /\ Unrolls(s, P) /\ Lengthens(s, P)
                      /\ \A Q : Unrolls(s, Q) => Q = P

LEMMA PayloadsOf ==
    ASSUME NEW s \in Seq(Frames), NEW P, Unrolls(s, P),
           \A Q : Unrolls(s, Q) => Q = P
    PROVE  Payloads(s) = P[Len(s)]
<1> DEFINE Body(Q) == [i \in 0 .. Len(s) |->
                         IF i = 0 THEN <<>>
                         ELSE IF s[i].type = "TRANSPORT" THEN Append(Q[i - 1], s[i].msg)
                         ELSE Q[i - 1]]
<1>1. ASSUME NEW Q, Q = Body(Q) PROVE Unrolls(s, Q)
  <2>1. Len(s) \in Nat
    OBVIOUS
  <2>2. \A i \in 0 .. Len(s) : Q[i] = Body(Q)[i]
    BY <1>1
  <2>3. Q = [i \in 0 .. Len(s) |-> Q[i]]
    BY <1>1
  <2>4. Q[0] = <<>>
    <3>1. 0 \in 0 .. Len(s)
      BY <2>1
    <3>2. QED BY <2>2, <3>1
  <2>5. ASSUME NEW i \in 1 .. Len(s) PROVE Q[i] = With(Q[i - 1], s[i])
    <3>1. i \in 0 .. Len(s) /\ i # 0
      BY <2>1
    <3>2. QED BY <2>2, <3>1 DEF With
  <2> HIDE DEF Body
  <2>6. QED BY <2>3, <2>4, <2>5 DEF Unrolls
<1>2. P = Body(P)
  <2>1. Len(s) \in Nat
    OBVIOUS
  <2>2. ASSUME NEW i \in 0 .. Len(s) PROVE P[i] = Body(P)[i]
    <3>1. CASE i = 0
      BY <3>1 DEF Unrolls
    <3>2. CASE i # 0
      <4>1. i \in 1 .. Len(s)
        BY <3>2
      <4>2. QED BY <3>2, <4>1 DEF Unrolls, With
    <3>3. QED BY <3>1, <3>2
  <2>3. P = [i \in 0 .. Len(s) |-> P[i]]
    BY DEF Unrolls
  <2> HIDE DEF Body
  <2>4. [i \in 0 .. Len(s) |-> P[i]] = [i \in 0 .. Len(s) |-> Body(P)[i]]
    BY <2>2
  <2>5. Body(P) = [i \in 0 .. Len(s) |-> Body(P)[i]]
    BY DEF Body
  <2>6. QED BY <2>3, <2>4, <2>5
<1>3. \A Q : Q = Body(Q) => Q = P
  BY <1>1
<1>4. (CHOOSE Q : Q = Body(Q)) = P
  <2> HIDE DEF Body
  <2>1. QED BY <1>2, <1>3
<1>5. Payloads(s) = (CHOOSE Q : Q = Body(Q))[Len(s)]
  BY DEF Payloads
<1>6. QED BY <1>4, <1>5

LEMMA NoPayloads ==
    ASSUME NEW s \in Seq(Frames), Len(s) = 0
    PROVE  Payloads(s) = <<>> /\ Followed(s)
<1> DEFINE P == [i \in 0 .. 0 |-> <<>>]
<1>1. Unrolls(s, P)
  BY DEF Unrolls
<1>2. ASSUME NEW Q, Unrolls(s, Q) PROVE Q = P
  <2>1. Q[0] = <<>> /\ Q = [i \in 0 .. 0 |-> Q[i]]
    BY <1>2 DEF Unrolls
  <2>2. \A i \in 0 .. 0 : Q[i] = <<>>
    BY <2>1
  <2>3. QED BY <2>1, <2>2
<1>3. Lengthens(s, P)
  BY EmptySeq DEF Lengthens
<1>4. P[Len(s)] = <<>>
  OBVIOUS
<1> HIDE DEF P
<1>5. Payloads(s) = P[Len(s)]
  BY <1>1, <1>2, PayloadsOf
<1>6. QED BY <1>1, <1>2, <1>3, <1>4, <1>5 DEF Followed

LEMMA WithType ==
    ASSUME NEW texts \in Seq(Texts), NEW f \in Frames
    PROVE  /\ With(texts, f) \in Seq(Texts)
           /\ Len(texts) <= Len(With(texts, f))
           /\ \A n \in 1 .. Len(texts) : With(texts, f)[n] = texts[n]
           /\ f.type = "TRANSPORT" => /\ Len(With(texts, f)) = Len(texts) + 1
                                      /\ With(texts, f)[Len(texts) + 1] = f.msg
<1>1. f.msg \in Texts /\ Len(texts) \in Nat
  BY DEF Frames, Texts
<1>2. /\ Append(texts, f.msg) \in Seq(Texts)
      /\ Len(Append(texts, f.msg)) = Len(texts) + 1
      /\ Append(texts, f.msg)[Len(texts) + 1] = f.msg
      /\ \A n \in 1 .. Len(texts) : Append(texts, f.msg)[n] = texts[n]
  BY <1>1, AppendProperties
<1>3. QED BY <1>1, <1>2 DEF With

\* The function of a log and the one of a longer log agree where both are
\* defined.
LEMMA UnrollsPrefix ==
    ASSUME NEW a \in Seq(Frames), NEW s \in Seq(Frames), Len(a) <= Len(s),
           \A i \in 1 .. Len(a) : a[i] = s[i], NEW P, Unrolls(s, P)
    PROVE  Unrolls(a, [i \in 0 .. Len(a) |-> P[i]])
<1>1. Len(a) \in Nat /\ Len(s) \in Nat
  OBVIOUS
<1>2. \A i \in 1 .. Len(a) : i \in 1 .. Len(s) /\ i - 1 \in 0 .. Len(a) /\ i \in 0 .. Len(a)
  BY <1>1
<1> DEFINE A == [i \in 0 .. Len(a) |-> P[i]]
<1>3. A = [i \in 0 .. Len(a) |-> A[i]] /\ \A i \in 0 .. Len(a) : A[i] = P[i]
  OBVIOUS
<1>4. P[0] = <<>> /\ \A i \in 1 .. Len(s) : P[i] = With(P[i - 1], s[i])
  BY DEF Unrolls
<1> HIDE DEF A
<1>5. A[0] = <<>>
  BY <1>1, <1>3, <1>4
<1>6. ASSUME NEW i \in 1 .. Len(a) PROVE A[i] = With(A[i - 1], a[i])
  <2>1. i \in 1 .. Len(s) /\ i - 1 \in 0 .. Len(a) /\ i \in 0 .. Len(a)
    BY <1>2
  <2>2. A[i] = P[i] /\ A[i - 1] = P[i - 1] /\ a[i] = s[i]
    BY <1>3, <2>1
  <2>3. P[i] = With(P[i - 1], s[i])
    BY <1>4, <2>1
  <2>4. QED BY <2>2, <2>3
<1>7. Unrolls(a, A)
  BY <1>3, <1>5, <1>6 DEF Unrolls
<1>8. QED BY <1>7 DEF A

\* One more frame, one more message if it is a TRANSPORT frame.
LEMMA PayloadsAppend ==
    ASSUME NEW s \in Seq(Frames), NEW f \in Frames, Followed(s)
    PROVE  Followed(Append(s, f)) /\ Payloads(Append(s, f)) = With(Payloads(s), f)
<1> DEFINE t == Append(s, f)
           l == Len(s)
<1>1. /\ t \in Seq(Frames) /\ Len(t) = l + 1 /\ l \in Nat
      /\ \A i \in 1 .. l : s[i] = t[i]
      /\ t[l + 1] = f
  OBVIOUS
<1> HIDE DEF t
<1>2. PICK P : /\ Unrolls(s, P) /\ Lengthens(s, P)
               /\ \A Q : Unrolls(s, Q) => Q = P
  BY DEF Followed
<1> DEFINE new == With(P[l], f)
           R == [i \in 0 .. l + 1 |-> IF i = l + 1 THEN new ELSE P[i]]
<1>3. /\ R = [i \in 0 .. l + 1 |-> R[i]] /\ R[l + 1] = new
      /\ \A i \in 0 .. l : R[i] = P[i]
  BY <1>1
<1> HIDE DEF R
<1>4. Unrolls(t, R)
  <2>1. R[0] = <<>>
    <3>1. 0 \in 0 .. l
      BY <1>1
    <3>2. QED BY <1>2, <1>3, <3>1 DEF Unrolls
  <2>2. ASSUME NEW i \in 1 .. l + 1 PROVE R[i] = With(R[i - 1], t[i])
    <3>1. CASE i = l + 1
      BY <1>1, <1>3, <3>1
    <3>2. CASE i # l + 1
      <4>1. i \in 1 .. l /\ i - 1 \in 0 .. l /\ i \in 0 .. l
        BY <1>1, <3>2
      <4>2. QED BY <1>1, <1>2, <1>3, <4>1 DEF Unrolls
    <3>3. QED BY <3>1, <3>2
  <2>3. QED BY <1>1, <1>3, <2>1, <2>2 DEF Unrolls
<1>5. ASSUME NEW Q, Unrolls(t, Q) PROVE Q = R
  <2>1. [i \in 0 .. l |-> Q[i]] = P
    <3>1. s \in Seq(Frames) /\ t \in Seq(Frames) /\ Len(s) <= Len(t)
      BY <1>1
    <3>2. Unrolls(s, [i \in 0 .. Len(s) |-> Q[i]])
      BY <1>1, <1>5, <3>1, UnrollsPrefix
    <3>3. QED BY <1>2, <3>2
  <2>2. \A i \in 0 .. l : Q[i] = P[i]
    BY <2>1
  <2>3. /\ Q[l + 1] = With(Q[(l + 1) - 1], f)
        /\ Q = [i \in 0 .. l + 1 |-> Q[i]]
    <3>1. l + 1 \in 1 .. l + 1
      BY <1>1
    <3>2. QED BY <1>1, <1>5, <3>1 DEF Unrolls
  <2>4. Q[l + 1] = new
    <3>1. (l + 1) - 1 = l /\ l \in 0 .. l
      BY <1>1
    <3>2. Q[l] = P[l]
      BY <2>2, <3>1
    <3>3. QED BY <2>3, <3>1, <3>2
  <2>5. ASSUME NEW i \in 0 .. l + 1 PROVE Q[i] = R[i]
    <3>1. CASE i = l + 1
      BY <1>3, <2>4, <3>1
    <3>2. CASE i # l + 1
      <4>1. i \in 0 .. l
        BY <1>1, <3>2
      <4>2. QED BY <1>3, <2>2, <4>1
    <3>3. QED BY <3>1, <3>2
  <2>6. QED BY <1>3, <2>3, <2>5
<1>6. Payloads(s) = P[l]
  BY <1>2, PayloadsOf
<1>7. Payloads(t) = new
  BY <1>1, <1>3, <1>4, <1>5, PayloadsOf
<1>8. Lengthens(t, R)
  <2>1. /\ P[l] \in Seq(Texts) /\ new \in Seq(Texts) /\ Len(P[l]) <= Len(new)
        /\ \A n \in 1 .. Len(P[l]) : new[n] = P[l][n]
    <3>1. l \in 0 .. l
      BY <1>1
    <3>2. P[l] \in Seq(Texts)
      BY <1>2, <3>1 DEF Lengthens
    <3>3. QED BY <3>2, WithType
  <2>2. ASSUME NEW i \in 0 .. l + 1
        PROVE  /\ R[i] \in Seq(Texts) /\ Len(R[i]) <= Len(new)
               /\ \A n \in 1 .. Len(R[i]) : new[n] = R[i][n]
    <3>1. CASE i = l + 1
      BY <1>3, <2>1, <3>1
    <3>2. CASE i # l + 1
      <4> DEFINE x == P[i]
                 y == P[l]
      <4>1. /\ i \in 0 .. l /\ x \in Seq(Texts) /\ Len(x) <= Len(y)
            /\ \A n \in 1 .. Len(x) : y[n] = x[n]
        BY <1>1, <1>2, <3>2 DEF Lengthens
      <4>2. y \in Seq(Texts) /\ new \in Seq(Texts) /\ Len(y) <= Len(new)
            /\ \A n \in 1 .. Len(y) : new[n] = y[n]
        BY <2>1
      <4>3. R[i] = x
        BY <1>3, <4>1
      <4> HIDE DEF x, y, new
      <4>4. QED BY <4>1, <4>2, <4>3
    <3>3. QED BY <3>1, <3>2
  <2>3. QED BY <1>1, <1>3, <2>2 DEF Lengthens
<1>9. QED BY <1>4, <1>5, <1>6, <1>7, <1>8 DEF Followed, t

\* What comes next behind a prefix.
LEMMA PayloadNext ==
    ASSUME NEW a \in Seq(Frames), NEW s \in Seq(Frames), Len(a) < Len(s),
           \A i \in 1 .. Len(a) : a[i] = s[i],
           s[Len(a) + 1].type = "TRANSPORT", Followed(a), Followed(s)
    PROVE  /\ Len(Payloads(a)) < Len(Payloads(s))
           /\ Payloads(s)[Len(Payloads(a)) + 1] = s[Len(a) + 1].msg
<1> DEFINE l == Len(a)
           f == s[l + 1]
<1>1. l \in Nat /\ Len(s) \in Nat /\ l + 1 \in 1 .. Len(s) /\ f \in Frames
  OBVIOUS
<1>2. PICK P : /\ Unrolls(s, P) /\ Lengthens(s, P)
               /\ \A Q : Unrolls(s, Q) => Q = P
  BY DEF Followed
<1>3. PICK A : Unrolls(a, A) /\ \A Q : Unrolls(a, Q) => Q = A
  BY DEF Followed
<1>4. A = [i \in 0 .. l |-> P[i]]
  <2>1. Len(a) <= Len(s)
    BY <1>1
  <2>2. Unrolls(a, [i \in 0 .. Len(a) |-> P[i]])
    BY <1>2, <2>1, UnrollsPrefix
  <2>3. QED BY <1>3, <2>2
<1> DEFINE x == P[l]
           y == P[l + 1]
           z == P[Len(s)]
<1>5. Payloads(a) = x /\ Payloads(s) = z
  <2>1. Payloads(a) = A[l] /\ Payloads(s) = z
    BY <1>2, <1>3, PayloadsOf
  <2>2. QED BY <1>1, <1>4, <2>1
<1>6. y = With(x, f)
  <2>1. (l + 1) - 1 = l
    BY <1>1
  <2>2. QED BY <1>1, <1>2, <2>1 DEF Unrolls
<1>7. /\ x \in Seq(Texts) /\ y \in Seq(Texts) /\ z \in Seq(Texts)
      /\ Len(y) <= Len(z) /\ \A n \in 1 .. Len(y) : z[n] = y[n]
  BY <1>1, <1>2 DEF Lengthens
<1>8. Len(y) = Len(x) + 1 /\ y[Len(x) + 1] = f.msg
  <2>1. x \in Seq(Texts) /\ f \in Frames /\ f.type = "TRANSPORT"
    BY <1>1, <1>7
  <2> HIDE DEF x, f
  <2>2. QED BY <1>6, <2>1, WithType
<1> HIDE DEF x, y, z
<1>9. QED BY <1>5, <1>7, <1>8

\* What a prefix carries is a prefix of what is carried.
LEMMA PayloadsGrow ==
    ASSUME NEW a \in Seq(Frames), NEW s \in Seq(Frames), Len(a) <= Len(s),
           \A i \in 1 .. Len(a) : a[i] = s[i], Followed(a), Followed(s)
    PROVE  /\ Payloads(a) \in Seq(Texts) /\ Payloads(s) \in Seq(Texts)
           /\ Len(Payloads(a)) <= Len(Payloads(s))
           /\ \A n \in 1 .. Len(Payloads(a)) : Payloads(s)[n] = Payloads(a)[n]
<1> DEFINE l == Len(a)
<1>1. l \in 0 .. Len(s) /\ Len(s) \in 0 .. Len(s) /\ l \in 0 .. l
  OBVIOUS
<1>2. PICK P : /\ Unrolls(s, P) /\ Lengthens(s, P)
               /\ \A Q : Unrolls(s, Q) => Q = P
  BY DEF Followed
<1>3. PICK A : Unrolls(a, A) /\ \A Q : Unrolls(a, Q) => Q = A
  BY DEF Followed
<1>4. A = [i \in 0 .. l |-> P[i]]
  <2>1. Unrolls(a, [i \in 0 .. l |-> P[i]])
    BY <1>2, UnrollsPrefix
  <2>2. QED BY <1>3, <2>1
<1> DEFINE x == P[l]
           z == P[Len(s)]
<1>5. Payloads(a) = x /\ Payloads(s) = z
  <2>1. Payloads(a) = A[l] /\ Payloads(s) = z
    BY <1>2, <1>3, PayloadsOf
  <2>2. QED BY <1>1, <1>4, <2>1
<1>6. /\ x \in Seq(Texts) /\ z \in Seq(Texts) /\ Len(x) <= Len(z)
      /\ \A n \in 1 .. Len(x) : z[n] = x[n]
  BY <1>1, <1>2 DEF Lengthens
<1> HIDE DEF x, z
<1>7. QED BY <1>5, <1>6

\* The messages of a log of frames per endpoint, and where a CLOSE is in it.
Carried(log) == [p \in Endpoints |-> Payloads(log[p])]
Ends(log, p) == \E i \in DOMAIN log[p] : log[p][i].type = "CLOSE"

\* One more frame of one endpoint.
Grown(log, p, f) == [log EXCEPT ![p] = Append(@, f)]

LEMMA OneMore ==
    ASSUME NEW log \in [Endpoints -> Seq(Frames)],
           \A q \in Endpoints : Followed(log[q]),
           NEW p \in Endpoints, NEW f \in Frames,
           NEW new, new = Grown(log, p, f)
    PROVE  /\ new \in [Endpoints -> Seq(Frames)]
           /\ \A q \in Endpoints : Followed(new[q])
           /\ f.type = "TRANSPORT" =>
                Carried(new) = [Carried(log) EXCEPT ![p] = Append(@, f.msg)]
           /\ f.type # "TRANSPORT" => Carried(new) = Carried(log)
           /\ \A q \in Endpoints :
                Ends(new, q) <=> Ends(log, q) \/ (q = p /\ f.type = "CLOSE")
<1> DEFINE s == log[p]
           t == Append(s, f)
<1>1. /\ s \in Seq(Frames) /\ new[p] = t /\ new \in [Endpoints -> Seq(Frames)]
      /\ \A q \in Endpoints : q # p => new[q] = log[q]
  BY DEF Grown
<1>2. t \in Seq(Frames) /\ Len(t) = Len(s) + 1 /\ Len(s) \in Nat
      /\ (\A i \in 1 .. Len(s) : t[i] = s[i]) /\ t[Len(s) + 1] = f
  OBVIOUS
<1>3. Followed(t) /\ Payloads(t) = With(Payloads(s), f)
  <2>1. Followed(s)
    OBVIOUS
  <2> HIDE DEF s
  <2>2. QED BY <1>1, <2>1, PayloadsAppend
<1>4. ASSUME NEW q \in Endpoints PROVE Followed(new[q])
  <2> HIDE DEF t
  <2>1. CASE q = p
    BY <1>1, <1>3, <2>1
  <2>2. CASE q # p
    <3>1. new[q] = log[q] /\ Followed(log[q])
      BY <1>1, <2>2
    <3>2. QED BY <3>1
  <2>3. QED BY <2>1, <2>2
<1>5. Ends(new, p) <=> Ends(log, p) \/ f.type = "CLOSE"
  <2>1. DOMAIN new[p] = 1 .. Len(s) + 1 /\ DOMAIN log[p] = 1 .. Len(s)
    BY <1>1, <1>2
  <2>2. new[p][Len(s) + 1] = f /\ \A i \in 1 .. Len(s) : new[p][i] = log[p][i]
    BY <1>1, <1>2
  <2>3. 1 .. Len(s) + 1 = (1 .. Len(s)) \cup {Len(s) + 1}
    BY <1>2
  <2>4. QED BY <2>1, <2>2, <2>3 DEF Ends
<1>6. \A q \in Endpoints : Ends(new, q) <=> Ends(log, q) \/ (q = p /\ f.type = "CLOSE")
  BY <1>1, <1>5 DEF Ends
<1> HIDE DEF t
<1>7. \A q \in Endpoints : Carried(new)[q] = [Carried(log) EXCEPT ![p] = With(@, f)][q]
  BY <1>1, <1>3 DEF Carried
<1>8. Carried(new) = [q \in Endpoints |-> Payloads(new[q])]
      /\ Carried(log) = [q \in Endpoints |-> Payloads(log[q])]
  BY DEF Carried
<1>9. Carried(new) = [Carried(log) EXCEPT ![p] = With(@, f)]
  BY <1>7, <1>8
<1>10. f.type = "TRANSPORT" =>
         Carried(new) = [Carried(log) EXCEPT ![p] = Append(@, f.msg)]
  BY <1>9 DEF With
<1>11. f.type # "TRANSPORT" => Carried(new) = Carried(log)
  BY <1>8, <1>9 DEF With
<1>12. QED BY <1>1, <1>4, <1>6, <1>10, <1>11

\* Part of the invariant: what each log carries can be followed.
LogsFollowed == \A p \in Endpoints : Followed(sent[p]) /\ Followed(accepted[p])

\* How the session has ended at each endpoint, as the stream sees it.
EndOf == [p \in Endpoints |->
            IF ~closed[p] THEN "open" ELSE IF Ends(sent, p) THEN "said" ELSE "heard"]

\* The actions of the stream, in terms of the channels.
StreamSends(p, m) ==
    /\ EndOf[p] = "open"
    /\ Carried(sent') = [Carried(sent) EXCEPT ![p] = Append(@, m)]
    /\ Carried(accepted') = Carried(accepted) /\ EndOf' = EndOf

StreamDelivers(p) ==
    LET got == Payloads(accepted[p])
        stream == Payloads(sent[Peer(p)])
    IN  /\ EndOf[p] = "open"
        /\ Len(got) < Len(stream)
        /\ Carried(accepted') = [Carried(accepted) EXCEPT
                                    ![p] = Append(@, stream[Len(got) + 1])]
        /\ Carried(sent') = Carried(sent) /\ EndOf' = EndOf

StreamEnds(p, how) ==
    /\ EndOf[p] = "open"
    /\ EndOf' = [EndOf EXCEPT ![p] = how]
    /\ Carried(accepted') = Carried(accepted) /\ Carried(sent') = Carried(sent)

StreamStutters ==
    /\ Carried(sent') = Carried(sent) /\ Carried(accepted') = Carried(accepted)
    /\ EndOf' = EndOf

LEMMA StreamMoves ==
    ASSUME NEW p \in Endpoints
    PROVE  /\ \A m \in Msgs : StreamSends(p, m) => Stream!Next
           /\ StreamDelivers(p) => Stream!Next
           /\ StreamEnds(p, "said") => Stream!Next
           /\ /\ StreamEnds(p, "heard")
              /\ EndOf[Peer(p)] = "said" /\ Payloads(accepted[p]) = Payloads(sent[Peer(p)])
              => Stream!Next
           /\ StreamStutters => UNCHANGED Stream!vars
<1> USE DEF Carried, EndOf, SaidClose, Ends
<1>1. ASSUME NEW m \in Msgs, StreamSends(p, m) PROVE Stream!Next
  <2>1. Stream!Send(p, m)
    BY <1>1 DEF StreamSends, Stream!Send
  <2>2. QED BY <2>1 DEF Stream!Next
<1>2. ASSUME StreamDelivers(p) PROVE Stream!Next
  <2>1. Stream!Deliver(p)
    BY <1>2, PeerType DEF StreamDelivers, Stream!Deliver
  <2>2. QED BY <2>1 DEF Stream!Next
<1>3. ASSUME StreamEnds(p, "said") PROVE Stream!Next
  <2>1. Stream!SayEnd(p)
    BY <1>3 DEF StreamEnds, Stream!SayEnd
  <2>2. QED BY <2>1 DEF Stream!Next
<1>4. ASSUME StreamEnds(p, "heard"), EndOf[Peer(p)] = "said",
             Payloads(accepted[p]) = Payloads(sent[Peer(p)])
      PROVE  Stream!Next
  <2>1. Stream!HearEnd(p)
    BY <1>4, PeerType DEF StreamEnds, Stream!HearEnd
  <2>2. QED BY <2>1 DEF Stream!Next
<1>5. ASSUME StreamStutters PROVE UNCHANGED Stream!vars
  BY <1>5 DEF StreamStutters, Stream!vars
<1>6. QED BY <1>1, <1>2, <1>3, <1>4, <1>5

(* Every step of the channels is a step of the stream or leaves it alone.  *)

LEMMA QuietStream ==
    ASSUME LogsFollowed, UNCHANGED <<sent, accepted, closed>>
    PROVE  LogsFollowed' /\ StreamStutters
<1>1. sent' = sent /\ accepted' = accepted /\ closed' = closed
  OBVIOUS
<1>2. LogsFollowed'
  BY <1>1 DEF LogsFollowed
<1>3. QED BY <1>1, <1>2 DEF StreamStutters, EndOf

LEMMA EncryptPlainStream ==
    ASSUME TypeOK, LogsFollowed, NEW p \in Endpoints, NEW m \in Msgs, EncryptPlain(p, m)
    PROVE  LogsFollowed' /\ StreamSends(p, m)
<1> DEFINE f == Emit("TRANSPORT", sendSeq[p], sendCipher[p], m)
<1>1. /\ sent \in [Endpoints -> Seq(Frames)] /\ sendSeq[p] \in Nat
      /\ sendCipher[p] \in Ciphers /\ CanEmit(sendSeq[p], sendCipher[p].n)
  BY DEF TypeOK, EncryptPlain, RetryBound
<1>2. f \in Frames /\ f.type = "TRANSPORT" /\ f.msg = m
  <2>1. f \in Frames
    BY <1>1, EmitType DEF MessageType
  <2>2. QED BY <2>1 DEF Emit
<1>3. sent' = [sent EXCEPT ![p] = Append(@, f)] /\ accepted' = accepted
      /\ closed' = closed /\ ~closed[p]
  BY DEF EncryptPlain, receiver
<1>4. \A q \in Endpoints : Followed(sent[q]) /\ Followed(accepted[q])
  BY DEF LogsFollowed
<1> HIDE DEF f
<1>5. /\ \A q \in Endpoints : Followed(sent'[q])
      /\ Carried(sent') = [Carried(sent) EXCEPT ![p] = Append(@, m)]
      /\ \A q \in Endpoints : Ends(sent', q) <=> Ends(sent, q)
  <2>1. sent' = Grown(sent, p, f)
    BY <1>3 DEF Grown
  <2>2. \A q \in Endpoints : Followed(sent[q])
    BY <1>4
  <2>3. QED BY <1>1, <1>2, <2>1, <2>2, OneMore
<1>6. LogsFollowed'
  BY <1>3, <1>4, <1>5 DEF LogsFollowed
<1>7. QED BY <1>3, <1>5, <1>6 DEF StreamSends, EndOf

LEMMA EncryptAfterRekeyStream ==
    ASSUME TypeOK, LogsFollowed, NEW p \in Endpoints, NEW m \in Msgs, EncryptAfterRekey(p, m)
    PROVE  LogsFollowed' /\ StreamSends(p, m)
<1> DEFINE seq == sendSeq[p]
           old == sendCipher[p]
           mid == Advance(old)
           new == Ratchet(mid)
           r == Emit("REKEY", seq, old, NoMsg)
           f == Emit("TRANSPORT", seq + 1, new, m)
           log == Grown(sent, p, r)
<1>1. /\ sent \in [Endpoints -> Seq(Frames)] /\ seq \in Nat /\ old \in Ciphers
      /\ CanEmit(seq, old.n) /\ CanEmit(seq + 1, new.n)
  BY DEF TypeOK, EncryptAfterRekey, RetryBound
<1>2. r \in Frames /\ mid \in Ciphers /\ new \in Ciphers
  BY <1>1, EmitType, AdvanceType, RatchetType DEF MessageType
<1>3. f \in Frames
  <2> HIDE DEF new, seq
  <2>1. seq + 1 \in Nat
    BY <1>1
  <2>2. QED BY <1>1, <1>2, <2>1, EmitType DEF MessageType
<1>4. r.type = "REKEY" /\ f.type = "TRANSPORT" /\ f.msg = m
  BY DEF Emit
<1>5. sent' = [sent EXCEPT ![p] = Append(Append(@, r), f)] /\ accepted' = accepted
      /\ closed' = closed /\ ~closed[p]
  BY DEF EncryptAfterRekey, receiver
<1>6. \A q \in Endpoints : Followed(sent[q]) /\ Followed(accepted[q])
  BY DEF LogsFollowed
<1> HIDE DEF f, r, seq, old, mid, new
<1>7. sent' = Grown(log, p, f)
  BY <1>1, <1>5 DEF Grown
<1> HIDE DEF log
<1>8. /\ log \in [Endpoints -> Seq(Frames)]
      /\ \A q \in Endpoints : Followed(log[q])
      /\ Carried(log) = Carried(sent)
      /\ \A q \in Endpoints : Ends(log, q) <=> Ends(sent, q)
  <2>1. log = Grown(sent, p, r) /\ \A q \in Endpoints : Followed(sent[q])
    BY <1>6 DEF log
  <2>2. QED BY <1>1, <1>2, <1>4, <2>1, OneMore
<1>9. /\ \A q \in Endpoints : Followed(sent'[q])
      /\ Carried(sent') = [Carried(sent) EXCEPT ![p] = Append(@, m)]
      /\ \A q \in Endpoints : Ends(sent', q) <=> Ends(sent, q)
  BY <1>3, <1>4, <1>7, <1>8, OneMore
<1>10. LogsFollowed'
  BY <1>5, <1>6, <1>9 DEF LogsFollowed
<1>11. QED BY <1>5, <1>9, <1>10 DEF StreamSends, EndOf

LEMMA CloseFrameStream ==
    ASSUME TypeOK, LogsFollowed, NEW p \in Endpoints, CloseFrame(p)
    PROVE  LogsFollowed' /\ StreamEnds(p, "said")
<1> DEFINE f == Emit("CLOSE", sendSeq[p], sendCipher[p], NoMsg)
<1>1. /\ sent \in [Endpoints -> Seq(Frames)] /\ sendSeq[p] \in Nat
      /\ sendCipher[p] \in Ciphers /\ CanEmit(sendSeq[p], sendCipher[p].n)
      /\ closed \in [Endpoints -> BOOLEAN]
  BY DEF TypeOK, CloseFrame, RetryBound
<1>2. f \in Frames /\ f.type = "CLOSE"
  <2>1. f \in Frames
    BY <1>1, EmitType DEF MessageType
  <2>2. QED BY <2>1 DEF Emit
<1>3. sent' = Grown(sent, p, f) /\ accepted' = accepted
      /\ closed' = [closed EXCEPT ![p] = TRUE] /\ ~closed[p]
  BY DEF CloseFrame, receiver, Grown
<1>4. \A q \in Endpoints : Followed(sent[q]) /\ Followed(accepted[q])
  BY DEF LogsFollowed
<1> HIDE DEF f
<1>5. /\ \A q \in Endpoints : Followed(sent'[q])
      /\ Carried(sent') = Carried(sent)
      /\ \A q \in Endpoints : Ends(sent', q) <=> Ends(sent, q) \/ q = p
  BY <1>1, <1>2, <1>3, <1>4, OneMore
<1>6. LogsFollowed'
  BY <1>3, <1>4, <1>5 DEF LogsFollowed
<1>7. EndOf' = [EndOf EXCEPT ![p] = "said"]
  BY <1>1, <1>3, <1>5 DEF EndOf
<1>8. QED BY <1>3, <1>5, <1>6, <1>7 DEF StreamEnds, EndOf

\* A TRANSPORT frame that is accepted delivers the next message of the peer's
\* stream; a CLOSE frame is the last, and all messages came before it.
LEMMA DecryptStream ==
    ASSUME SessionInv, LogsFollowed, NEW p \in Endpoints, NEW f \in Network(p),
           DecryptAccepts(p, f)
    PROVE  /\ LogsFollowed'
           /\ \/ StreamDelivers(p) \/ StreamStutters
              \/ /\ StreamEnds(p, "heard")
                 /\ EndOf[Peer(p)] = "said"
                 /\ Payloads(accepted[p]) = Payloads(sent[Peer(p)])
<1> DEFINE q == Peer(p)
           s == sent[q]
           a == accepted[p]
           n == Len(a)
<1>1. /\ TypeOK /\ q \in Endpoints /\ AcceptedPrefix(p) /\ CloseLast(p) /\ CloseLast(q)
      /\ s \in Seq(Frames) /\ a \in Seq(Frames) /\ n \in Nat /\ Len(s) \in Nat
      /\ accepted \in [Endpoints -> Seq(Frames)] /\ closed \in [Endpoints -> BOOLEAN]
  BY PeerType DEF SessionInv, TypeOK, EndpointInv
<1>2. /\ ~closed[p] /\ accepted' = Grown(accepted, p, f) /\ sent' = sent
      /\ closed' = [closed EXCEPT ![p] = (f.type = "CLOSE")]
  BY DEF DecryptAccepts, Accepts, sender, Grown
<1>3. n < Len(s) /\ f = s[n + 1] /\ f \in Frames /\ n + 1 \in 1 .. Len(s)
  BY <1>1, NetworkType, OpensIsNext DEF DecryptAccepts, Accepts
<1>4. \A i \in 1 .. n : a[i] = s[i]
  BY <1>1 DEF AcceptedPrefix
<1>5. \A r \in Endpoints : Followed(sent[r]) /\ Followed(accepted[r])
  BY DEF LogsFollowed
<1>6. /\ \A r \in Endpoints : Followed(accepted'[r])
      /\ f.type = "TRANSPORT" =>
            Carried(accepted') = [Carried(accepted) EXCEPT ![p] = Append(@, f.msg)]
      /\ f.type # "TRANSPORT" => Carried(accepted') = Carried(accepted)
  <2>1. \A r \in Endpoints : Followed(accepted[r])
    BY <1>5
  <2>2. f \in Frames /\ accepted' = Grown(accepted, p, f)
    BY <1>2, <1>3
  <2>3. accepted \in [Endpoints -> Seq(Frames)]
    BY <1>1
  <2>4. QED BY <2>1, <2>2, <2>3, OneMore
<1>7. LogsFollowed'
  BY <1>2, <1>5, <1>6 DEF LogsFollowed
<1>8. Carried(sent') = Carried(sent) /\ EndOf[p] = "open"
  BY <1>2 DEF EndOf
<1>9. f.type # "CLOSE" => EndOf' = EndOf
  <2>1. SUFFICES ASSUME f.type # "CLOSE" PROVE EndOf' = EndOf
    OBVIOUS
  <2>2. closed' = closed
    BY <1>1, <1>2, <2>1
  <2>3. QED BY <1>2, <2>2 DEF EndOf
<1>10. CASE f.type = "TRANSPORT"
  <2>1. /\ Len(Payloads(a)) < Len(Payloads(s))
        /\ Payloads(s)[Len(Payloads(a)) + 1] = f.msg
    <3>1. Followed(a) /\ Followed(s)
      BY <1>1, <1>5
    <3>2. s[Len(a) + 1].type = "TRANSPORT" /\ Len(a) < Len(s)
      BY <1>3, <1>10
    <3> HIDE DEF a, s
    <3>3. /\ Len(Payloads(a)) < Len(Payloads(s))
          /\ Payloads(s)[Len(Payloads(a)) + 1] = s[Len(a) + 1].msg
      BY <1>1, <1>4, <3>1, <3>2, PayloadNext
    <3>4. QED BY <1>3, <3>3
  <2>2. Carried(accepted)[p] = Payloads(a)
    BY DEF Carried
  <2>3. StreamDelivers(p)
    BY <1>6, <1>8, <1>9, <1>10, <2>1, <2>2 DEF StreamDelivers
  <2>4. QED BY <1>7, <2>3
<1>11. CASE f.type = "CLOSE"
  <2>1. n + 1 = Len(s) /\ closed[q]
    BY <1>1, <1>3, <1>11 DEF CloseLast
  <2>2. EndOf[q] = "said"
    BY <1>1, <1>3, <1>11, <2>1 DEF EndOf, Ends
  <2>3. s = Append(a, f)
    BY <1>1, <1>3, <1>4, <2>1
  <2>4. Payloads(s) = Payloads(a)
    <3>1. Followed(a)
      BY <1>5
    <3> HIDE DEF a, s
    <3>2. Payloads(Append(a, f)) = With(Payloads(a), f)
      BY <1>1, <1>3, <3>1, PayloadsAppend
    <3>3. QED BY <1>11, <2>3, <3>2 DEF With
  <2>5. ~Ends(sent, p)
    BY <1>1, <1>2 DEF Ends, CloseLast, TypeOK
  <2>6. EndOf' = [EndOf EXCEPT ![p] = "heard"]
    BY <1>1, <1>2, <1>11, <2>5 DEF EndOf
  <2>7. StreamEnds(p, "heard")
    BY <1>6, <1>8, <1>11, <2>6 DEF StreamEnds
  <2>8. QED BY <1>7, <2>2, <2>4, <2>7
<1>12. CASE f.type # "TRANSPORT" /\ f.type # "CLOSE"
  BY <1>6, <1>7, <1>8, <1>9, <1>12 DEF StreamStutters
<1>13. QED BY <1>10, <1>11, <1>12

LEMMA StreamStep ==
    ASSUME SessionInv, LogsFollowed, [Next]_vars
    PROVE  LogsFollowed' /\ [Stream!Next]_(Stream!vars)
<1>0. TypeOK
  BY DEF SessionInv
<1>1. ASSUME NEW p \in Endpoints, NEW m \in Msgs, EncryptPlain(p, m)
      PROVE  LogsFollowed' /\ Stream!Next
  BY <1>0, <1>1, EncryptPlainStream, StreamMoves
<1>2. ASSUME NEW p \in Endpoints, NEW m \in Msgs, EncryptAfterRekey(p, m)
      PROVE  LogsFollowed' /\ Stream!Next
  BY <1>0, <1>2, EncryptAfterRekeyStream, StreamMoves
<1>3. ASSUME NEW p \in Endpoints, CloseFrame(p) PROVE LogsFollowed' /\ Stream!Next
  BY <1>0, <1>3, CloseFrameStream, StreamMoves
<1>4. ASSUME UNCHANGED <<sent, accepted, closed>>
      PROVE  LogsFollowed' /\ UNCHANGED Stream!vars
  <2>1. "initiator" \in Endpoints
    BY DEF Endpoints
  <2>2. QED BY <1>4, <2>1, QuietStream, StreamMoves
<1>5. ASSUME NEW p \in Endpoints, NEW f \in Network(p), DecryptAccepts(p, f)
      PROVE  LogsFollowed' /\ [Stream!Next]_(Stream!vars)
  BY <1>5, DecryptStream, StreamMoves
<1>6. ASSUME NEW p \in Endpoints, EmitFails(p) \/ EncryptFailsAfterRekey(p) \/ Tick(p)
      PROVE  UNCHANGED <<sent, accepted, closed>>
  BY <1>6 DEF EmitFails, EncryptFailsAfterRekey, Tick, receiver
<1>7. CASE UNCHANGED vars
  BY <1>4, <1>7 DEF vars, sender, receiver
<1>8. ASSUME NEW p \in Endpoints, NEW f \in Network(p), DecryptRaises(p, f)
      PROVE  UNCHANGED vars
  BY <1>8 DEF DecryptRaises
<1>9. QED BY <1>1, <1>2, <1>3, <1>4, <1>5, <1>6, <1>7, <1>8 DEF Next, Decrypt

\* Sessions in a row: the next one starts the stream anew.
NothingSaid ==
    /\ LogsFollowed
    /\ Carried(sent) = [p \in Endpoints |-> <<>>]
    /\ Carried(accepted) = [p \in Endpoints |-> <<>>]

LEMMA NothingYetSaid == NothingYet => NothingSaid
<1> SUFFICES ASSUME NothingYet PROVE NothingSaid
  OBVIOUS
<1>1. ASSUME NEW s, s = <<>> PROVE Followed(s) /\ Payloads(s) = <<>>
  <2>1. s \in Seq(Frames) /\ Len(s) = 0
    BY <1>1
  <2>2. QED BY <2>1, NoPayloads
<1>2. \A p \in Endpoints : sent[p] = <<>> /\ accepted[p] = <<>>
  BY DEF NothingYet
<1>3. \A p \in Endpoints : /\ Followed(sent[p]) /\ Payloads(sent[p]) = <<>>
                           /\ Followed(accepted[p]) /\ Payloads(accepted[p]) = <<>>
  BY <1>1, <1>2
<1>4. QED BY <1>3 DEF NothingSaid, LogsFollowed, Carried

(* A client's sessions, one after the other, give their two users the      *)
(* message stream of MessageStream: messages arrive once, in order and     *)
(* complete, and an end that is heard comes after all of them, although    *)
(* the network loses, repeats, reorders and forges frames, and REKEY       *)
(* frames and failed calls come in between (channel.py, transport.py       *)
(* connect).                                                               *)
THEOREM SessionsImplementStream == ReconnectSpec => RefinesStream
<1>1. ReconnectInit => Stream!Init /\ LogsFollowed
  <2> SUFFICES ASSUME Init PROVE Stream!Init /\ LogsFollowed
    BY DEF ReconnectInit
  <2>1. NothingSaid
    BY NothingYetSaid DEF Init, NothingYet
  <2>2. closed = [p \in Endpoints |-> FALSE]
    BY DEF Init
  <2>3. QED BY <2>1, <2>2 DEF NothingSaid, Stream!Init, Carried
<1>2. RInv /\ LogsFollowed /\ [ReconnectNext]_reconnectVars
        => LogsFollowed' /\ [Stream!Next]_(Stream!vars)
  <2> SUFFICES ASSUME RInv, LogsFollowed, [ReconnectNext]_reconnectVars
               PROVE  LogsFollowed' /\ [Stream!Next]_(Stream!vars)
    OBVIOUS
  <2>1. CASE [Next]_vars
    BY <2>1, StreamStep DEF RInv
  <2>2. ASSUME NEW sameWindow \in BOOLEAN, NEW samePolicy \in BOOLEAN,
               Connect(sameWindow, samePolicy)
        PROVE  LogsFollowed' /\ Stream!Next
    <3>1. NothingYet' /\ closed' = [p \in Endpoints |-> FALSE]
      BY <2>2 DEF Connect, NothingYet
    <3>2. NothingYet' => NothingSaid'
      BY NothingYetSaid, PTL
    <3>3. Stream!NewSession
      BY <3>1, <3>2 DEF Stream!NewSession, NothingSaid, Carried
    <3>4. QED BY <3>1, <3>2, <3>3 DEF NothingSaid, Stream!Next
  <2>3. QED BY <2>1, <2>2 DEF ReconnectNext, reconnectVars
<1>3. QED BY <1>1, <1>2, ReconnectInvHolds, PTL DEF ReconnectSpec, RefinesStream, Stream!Spec
=============================================================================
