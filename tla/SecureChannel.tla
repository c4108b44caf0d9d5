--------------------------- MODULE SecureChannel ---------------------------
(***************************************************************************)
(* The two SecureChannel objects of one session (channel.py), from the end *)
(* of the handshake on, over a network that may lose, duplicate, reorder,  *)
(* reflect and alter frames at will.                                       *)
(*                                                                         *)
(* Encryption is symbolic.  A cipher state is [k, n]: k counts the rekeys  *)
(* applied to the key of that direction, n is the counter inside the Noise *)
(* CipherState.  A frame carries its header (type, seq), the k and n it    *)
(* was encrypted under, and the plaintext.  The header is the associated   *)
(* data, so a frame whose header or body was altered, that was reflected   *)
(* or that comes from another session is under no key the receiver holds:  *)
(* its k is NoKey.  The AEAD opens a frame iff k and n are the receiver's. *)
(*                                                                         *)
(* sent[p] is the sequence of frames p's channel has returned to its       *)
(* caller, in order of encryption; the network may present any of them to  *)
(* the peer, any number of times, in any order, or never.                  *)
(***************************************************************************)
EXTENDS Integers, Sequences, FiniteSets, ReplayOps, RekeyOps

CONSTANTS
    Msgs,       \* plaintexts
    NoMsg       \* the empty payload of a control frame

Endpoints == {"initiator", "responder"}

Peer(p) == IF p = "initiator" THEN "responder" ELSE "initiator"

MessageType == {"HANDSHAKE", "TRANSPORT", "REKEY", "CLOSE"}

NoKey == -1

\* CipherState refuses to run at nonce 2^64 - 1, the largest sequence number.
MaxNonce == MaxSeq

VARIABLES
    sendSeq,    \* _send_seq
    sendCipher, \* _send_cipher
    recvCipher, \* _recv_cipher
    window,     \* _replay
    rekey,      \* _rekey
    closed,     \* _closed
    sent,       \* frames returned by encrypt() and close_frame()
    accepted    \* history: frames decrypt() authenticated, in that order

sender == <<sendSeq, sendCipher, rekey, sent>>
receiver == <<recvCipher, window, accepted>>
vars == <<sender, receiver, closed>>

Ciphers == [k : Nat, n : 0 .. MaxNonce]

Frames == [type : MessageType, seq : SeqNumbers, k : Nat \cup {NoKey},
           n : 0 .. MaxNonce, msg : Msgs \cup {NoMsg}]

\* SecureChannel.__init__ on both sides of one handshake.
Init ==
    /\ sendSeq = [p \in Endpoints |-> 0]
    /\ sendCipher = [p \in Endpoints |-> [k |-> 0, n |-> 0]]
    /\ recvCipher = [p \in Endpoints |-> [k |-> 0, n |-> 0]]
    /\ window = [p \in Endpoints |-> EmptyWindow]
    /\ rekey = [p \in Endpoints |-> Reset]
    /\ closed = [p \in Endpoints |-> FALSE]
    /\ sent = [p \in Endpoints |-> <<>>]
    /\ accepted = [p \in Endpoints |-> <<>>]
-----------------------------------------------------------------------------
(* Sending.                                                                *)

\* pack_header takes sequence numbers up to MAX_SEQ, the cipher nonces
\* below MAX_NONCE; past either, _emit_* raises.
CanEmit(seq, n) == seq <= MaxSeq /\ n < MaxNonce

\* Bound: how far a sequence number that _next_send_seq keeps advancing on
\* every failed call is followed once no frame can be emitted any more.
RetryBound == MaxSeq + 1

\* The cipher state after a successful encrypt_with_ad or decrypt_with_ad.
Advance(c) == [c EXCEPT !.n = @ + 1]

\* The cipher state after CipherState.rekey(): a new key, the same counter.
Ratchet(c) == [c EXCEPT !.k = @ + 1]

\* _emit_transport and _emit_control: the frame of the next sequence number.
Emit(type, seq, cipher, m) ==
    [type |-> type, seq |-> seq, k |-> cipher.k, n |-> cipher.n, msg |-> m]

\* encrypt() when no rekey is due: one TRANSPORT frame.
EncryptPlain(p, m) ==
    /\ ~closed[p]
    /\ ~Due(rekey[p])
    /\ CanEmit(sendSeq[p], sendCipher[p].n)
    /\ sent' = [sent EXCEPT ![p] =
                   Append(@, Emit("TRANSPORT", sendSeq[p], sendCipher[p], m))]
    /\ sendSeq' = [sendSeq EXCEPT ![p] = @ + 1]
    /\ sendCipher' = [sendCipher EXCEPT ![p] = Advance(@)]
    /\ rekey' = [rekey EXCEPT ![p] = NoteMessage(@)]
    /\ UNCHANGED <<receiver, closed>>

\* Seeded fault: the key is ratcheted from the cipher state as it was before
\* the REKEY frame.
EncryptAfterStaleRekey(p, m) ==
    LET seq == sendSeq[p]
        old == sendCipher[p]
        new == Ratchet(Advance(old))
    IN
    /\ ~closed[p]
    /\ Due(rekey[p])
    /\ CanEmit(seq, old.n)
    /\ CanEmit(seq + 1, new.n)
    /\ sent' = [sent EXCEPT ![p] =
                   Append(Append(@, Emit("REKEY", seq, old, NoMsg)),
                          Emit("TRANSPORT", seq + 1, new, m))]
    /\ sendSeq' = [sendSeq EXCEPT ![p] = @ + 2]
    /\ sendCipher' = [sendCipher EXCEPT ![p] = Advance(Ratchet(@))]
    /\ rekey' = [rekey EXCEPT ![p] = NoteMessage(Reset)]
    /\ UNCHANGED <<receiver, closed>>

\* encrypt() when a rekey is due: a REKEY frame under the old key, then the
\* ratchet, then the TRANSPORT frame under the new key.
EncryptAfterRekey(p, m) ==
    LET seq == sendSeq[p]
        old == sendCipher[p]
        new == Ratchet(Advance(old))
    IN
    /\ ~closed[p]
    /\ Due(rekey[p])
    /\ CanEmit(seq, old.n)
    /\ CanEmit(seq + 1, new.n)
    /\ sent' = [sent EXCEPT ![p] =
                   Append(Append(@, Emit("REKEY", seq, old, NoMsg)),
                          Emit("TRANSPORT", seq + 1, new, m))]
    /\ sendSeq' = [sendSeq EXCEPT ![p] = @ + 2]
    /\ sendCipher' = [sendCipher EXCEPT ![p] = Advance(new)]
    /\ rekey' = [rekey EXCEPT ![p] = NoteMessage(Reset)]
    /\ UNCHANGED <<receiver, closed>>

\* encrypt() or close_frame() raises on its first frame: the sequence number
\* is spent, nothing else has happened.
EmitFails(p) ==
    /\ ~closed[p]
    /\ sendSeq[p] <= RetryBound
    /\ ~CanEmit(sendSeq[p], sendCipher[p].n)
    /\ sendSeq' = [sendSeq EXCEPT ![p] = @ + 1]
    /\ UNCHANGED <<sendCipher, rekey, sent, receiver, closed>>

\* Seeded fault: the two numbers are given back, the cipher's nonce is not.
EncryptFailsAfterRekeyGivesBack(p) ==
    /\ ~closed[p]
    /\ Due(rekey[p])
    /\ CanEmit(sendSeq[p], sendCipher[p].n)
    /\ ~CanEmit(sendSeq[p] + 1, sendCipher[p].n + 1)
    /\ sendCipher' = [sendCipher EXCEPT ![p] = Ratchet(Advance(@))]
    /\ rekey' = [rekey EXCEPT ![p] = Reset]
    /\ UNCHANGED <<sendSeq, sent, receiver, closed>>

\* encrypt() raises on its second frame: the REKEY frame is dropped with the
\* exception, but the key has been ratcheted and the policy reset.
EncryptFailsAfterRekey(p) ==
    /\ ~closed[p]
    /\ Due(rekey[p])
    /\ CanEmit(sendSeq[p], sendCipher[p].n)
    /\ ~CanEmit(sendSeq[p] + 1, sendCipher[p].n + 1)
    /\ sendSeq' = [sendSeq EXCEPT ![p] = @ + 2]
    /\ sendCipher' = [sendCipher EXCEPT ![p] = Ratchet(Advance(@))]
    /\ rekey' = [rekey EXCEPT ![p] = Reset]
    /\ UNCHANGED <<sent, receiver, closed>>

\* Seeded fault: close_frame does not close the channel that says it.
CloseFrameLeavesOpen(p) ==
    /\ ~closed[p]
    /\ CanEmit(sendSeq[p], sendCipher[p].n)
    /\ sent' = [sent EXCEPT ![p] =
                   Append(@, Emit("CLOSE", sendSeq[p], sendCipher[p], NoMsg))]
    /\ sendSeq' = [sendSeq EXCEPT ![p] = @ + 1]
    /\ sendCipher' = [sendCipher EXCEPT ![p] = Advance(@)]
    /\ UNCHANGED <<rekey, receiver, closed>>

\* close_frame(): a CLOSE frame, whatever the rekey policy says, and the
\* channel is closed for both directions.
CloseFrame(p) ==
    /\ ~closed[p]
    /\ CanEmit(sendSeq[p], sendCipher[p].n)
    /\ sent' = [sent EXCEPT ![p] =
                   Append(@, Emit("CLOSE", sendSeq[p], sendCipher[p], NoMsg))]
    /\ sendSeq' = [sendSeq EXCEPT ![p] = @ + 1]
    /\ sendCipher' = [sendCipher EXCEPT ![p] = Advance(@)]
    /\ closed' = [closed EXCEPT ![p] = TRUE]
    /\ UNCHANGED <<rekey, receiver>>

\* The clock of p's rekey policy advances.
Tick(p) ==
    /\ rekey' = [rekey EXCEPT ![p] = Elapse(@)]
    /\ UNCHANGED <<sendSeq, sendCipher, sent, receiver, closed>>
-----------------------------------------------------------------------------
(* Receiving.                                                              *)

\* CipherState.decrypt_with_ad returns: the tag verifies under the receiver's
\* key, counter and the frame's header, and the counter is not exhausted.
Opens(cipher, f) == /\ cipher.n < MaxNonce
                    /\ f.k = cipher.k
                    /\ f.n = cipher.n

\* Seeded fault: a frame that does not authenticate is let through.
AcceptsUnverified(p, f) == ~closed[p] /\ Check(window[p], f.seq)

\* decrypt() gets past its checks: open, replay.check, the AEAD.
Accepts(p, f) ==
    /\ ~closed[p]
    /\ Check(window[p], f.seq)
    /\ Opens(recvCipher[p], f)

\* decrypt() of a frame that authenticates: commit, then act on its type.
\* The peer's channel produces no HANDSHAKE frame, for which decrypt would
\* raise ProtocolError after the commit.
DecryptAccepts(p, f) ==
    LET opened == Advance(recvCipher[p]) IN
    /\ Accepts(p, f)
    /\ window' = [window EXCEPT ![p] = Commit(@, f.seq)]
    /\ recvCipher' = [recvCipher EXCEPT ![p] =
                        IF f.type = "REKEY" THEN Ratchet(opened) ELSE opened]
    /\ closed' = [closed EXCEPT ![p] = (f.type = "CLOSE")]
    /\ accepted' = [accepted EXCEPT ![p] = Append(@, f)]
    /\ UNCHANGED sender

\* Seeded fault: the window is advanced before the tag is verified.
DecryptRaisesAfterCommit(p, f) ==
    /\ ~Accepts(p, f)
    /\ window' = [window EXCEPT ![p] = IF Check(@, f.seq) THEN Commit(@, f.seq) ELSE @]
    /\ UNCHANGED <<sender, closed, recvCipher, accepted>>

\* decrypt() raises ChannelClosedError, ReplayError, DecryptionError or the
\* cipher's own error: nothing is committed and the counter stays.
DecryptRaises(p, f) ==
    /\ ~Accepts(p, f)
    /\ UNCHANGED vars

Decrypt(p, f) == DecryptAccepts(p, f) \/ DecryptRaises(p, f)

\* What the network can present to p: the peer's frames, and frames with
\* any sequence number that were not made by the peer for this session; the
\* type in a header is not looked at before the tag has been verified.
Forged == [type : {"CLOSE"}, seq : SeqNumbers, k : {NoKey}, n : {0}, msg : {NoMsg}]

Network(p) == {sent[Peer(p)][i] : i \in DOMAIN sent[Peer(p)]} \cup Forged

Next == \E p \in Endpoints :
    \/ \E m \in Msgs : EncryptPlain(p, m) \/ EncryptAfterRekey(p, m)
    \/ EmitFails(p)
    \/ EncryptFailsAfterRekey(p)
    \/ CloseFrame(p)
    \/ Tick(p)
    \/ \E f \in Network(p) : Decrypt(p, f)

Spec == Init /\ [][Next]_vars
-----------------------------------------------------------------------------
(* Properties.                                                             *)

(* Every variable has its type; in particular the counters stop where the  *)
(* 64-bit header field and the cipher's nonce stop, and the policy's count *)
(* never passes MaxMessages.                                               *)
TypeOK ==
    /\ sendSeq \in [Endpoints -> 0 .. RetryBound + 1]
    /\ sendCipher \in [Endpoints -> Ciphers]
    /\ recvCipher \in [Endpoints -> Ciphers]
    /\ window \in [Endpoints -> Windows]
    /\ rekey \in [Endpoints -> Policies]
    /\ closed \in [Endpoints -> BOOLEAN]
    /\ sent \in [Endpoints -> Seq(Frames)]
    /\ accepted \in [Endpoints -> Seq(Frames)]

(* What decrypt() has accepted is a prefix of what the peer's channel has  *)
(* produced: whatever the network does, nothing is accepted twice, out of  *)
(* order, altered, or after a gap, across every rekey.                     *)
InOrderPrefix == \A p \in Endpoints :
    /\ Len(accepted[p]) <= Len(sent[Peer(p)])
    /\ \A i \in 1 .. Len(accepted[p]) : accepted[p][i] = sent[Peer(p)][i]

(* No two frames of one direction are encrypted under the same key and     *)
(* nonce: rekey() leaves the counter running, and a failed call that loses *)
(* its REKEY frame does not rewind it.                                     *)
NonceNeverReused == \A p \in Endpoints : \A i, j \in 1 .. Len(sent[p]) :
    i # j => <<sent[p][i].k, sent[p][i].n>> # <<sent[p][j].k, sent[p][j].n>>

(* The two layers agree.  The replay window and the receiving cipher are   *)
(* updated by different code from different numbers (the header's seq, the *)
(* cipher's own counter); an open channel nevertheless always accepts the  *)
(* peer's next frame, whatever forged, replayed or early frames it has     *)
(* been shown before, and up to the last nonce.                            *)
NextFrameAccepted == \A p \in Endpoints :
    ~closed[p] /\ Len(accepted[p]) < Len(sent[Peer(p)])
        => Accepts(p, sent[Peer(p)][Len(accepted[p]) + 1])

(* One key encrypts at most max_messages application messages              *)
(* (RekeyPolicy.due is asked before, note_message told after each).        *)
KeyUsageBounded == \A p \in Endpoints : \A k \in 0 .. MaxSeq :
    Cardinality({i \in DOMAIN sent[p] :
        sent[p][i].type = "TRANSPORT" /\ sent[p][i].k = k}) <= MaxMessages

(* An accepted CLOSE proves there was no truncation: everything the peer   *)
(* ever produced has been accepted before it.                              *)
CloseMeansComplete == \A p \in Endpoints : \A i \in DOMAIN accepted[p] :
    accepted[p][i].type = "CLOSE" => accepted[p] = sent[Peer(p)]

(* The two channels implement the message stream of MessageStream: its     *)
(* messages are the TRANSPORT frames, and control frames are invisible     *)
(* except for CLOSE.                                                       *)
Payloads(frames) ==
    LET upTo[i \in 0 .. Len(frames)] ==
          IF i = 0 THEN <<>>
          ELSE IF frames[i].type = "TRANSPORT" THEN Append(upTo[i - 1], frames[i].msg)
          ELSE upTo[i - 1]
    IN  upTo[Len(frames)]

SaidClose(p) == \E i \in DOMAIN sent[p] : sent[p][i].type = "CLOSE"

Stream == INSTANCE MessageStream WITH
    stream <- [p \in Endpoints |-> Payloads(sent[p])],
    got <- [p \in Endpoints |-> Payloads(accepted[p])],
    end <- [p \in Endpoints |->
              IF ~closed[p] THEN "open"
              ELSE IF SaidClose(p) THEN "said" ELSE "heard"]
RefinesStream == Stream!Spec
=============================================================================
