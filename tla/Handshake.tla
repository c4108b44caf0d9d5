----------------------------- MODULE Handshake -----------------------------
(***************************************************************************)
(* One run of connect() against one run of serve()'s _on_connection        *)
(* (transport.py, handshake.py), from the open WebSocket to the decision   *)
(* to accept the peer, and what the two sides can see of each other after. *)
(*                                                                         *)
(* The Noise XX pattern is symbolic.  Three messages alternate, starting   *)
(* with the initiator's.  The first is in the clear; the others open only  *)
(* for a reader whose transcript is the writer's.  A transcript is the     *)
(* sequence of messages a side has written or read, payloads included:     *)
(* what the handshake hash stands for.                                     *)
(*                                                                         *)
(* A step is what one side does between two awaits.  The trust decision is *)
(* a free choice here; Admission models how it is made.                    *)
(***************************************************************************)
EXTENDS Integers, Sequences

CONSTANTS
    MayAlter,   \* whether a message may be altered on its way
    MayStall,   \* whether a side may stop without closing its connection
    MayBreak    \* whether the TCP connection may break

ASSUME HandshakeFaultsAssumption ==
    MayAlter \in BOOLEAN /\ MayStall \in BOOLEAN /\ MayBreak \in BOOLEAN

Endpoints == {"initiator", "responder"}

Peer(p) == IF p = "initiator" THEN "responder" ELSE "initiator"

\* _XX_MESSAGE_COUNT
MessageCount == 3

\* Payloads: nothing, each side's own certificate, or bytes nobody here wrote.
Nothing == "nothing"
Payloads == {Nothing, "junk"} \cup Endpoints

VARIABLES
    certified,  \* the sides that were given a local_certificate
    timed,      \* the sides whose handshake_timeout is not None
    pc,         \* "start", "sending", "reading", "established" or "failed"
    why,        \* why a side failed
    hs,         \* _step, write_index, transcript, _remote_static, peer_cert
    wire,       \* WebSocket messages written and not yet read by the peer
    ws,         \* the side's WebSocket is "open" or "closed"
    stalled,    \* sides that have stopped
    altered     \* history: some message was altered

config == <<certified, timed>>
vars == <<config, pc, why, hs, wire, ws, stalled, altered>>

Message(p, i, payload) == [by |-> p, index |-> i, payload |-> payload, intact |-> TRUE]

\* A HANDSHAKE frame: the message, and the transcript it was encrypted under.
HandshakeFrame(m, before) == [type |-> "HANDSHAKE", message |-> m, before |-> before]

\* What the finished channels and ws.close() write; a frame decode() refuses.
Data == [type |-> "TRANSPORT"]
WsClose == [type |-> "WSCLOSE"]
Malformed == [type |-> "malformed"]

Init ==
    /\ certified \in SUBSET Endpoints
    /\ timed \in SUBSET Endpoints
    /\ pc = [p \in Endpoints |-> "start"]
    /\ why = [p \in Endpoints |-> "none"]
    /\ hs = [p \in Endpoints |-> [step |-> 0, writes |-> 0, transcript |-> <<>>,
                                  remoteStatic |-> Nothing, peerCert |-> Nothing]]
    /\ wire = [p \in Endpoints |-> <<>>]
    /\ ws = [p \in Endpoints |-> "open"]
    /\ stalled = {}
    /\ altered = FALSE
-----------------------------------------------------------------------------
(* NoiseXXHandshake.                                                       *)

\* Seeded fault: finished one message early.
IsCompleteEarly(h) == h.step >= MessageCount - 1

\* is_complete
IsComplete(h) == h.step >= MessageCount

\* Seeded fault: both sides think they go first.
NextIsWriteForBoth(p, h) == h.step % 2 = 0

\* next_is_write()
NextIsWrite(p, h) == (h.step % 2 = 0) <=> (p = "initiator")

\* The Noise library accepts the frame's payload as the next message.
Opens(h, f) ==
    \/ h.step = 0
    \/ /\ f.message.intact
       /\ f.message.index = h.step
       /\ f.before = h.transcript

\* Seeded faults: the certificate in the first message of either side; in the
\* second of either side.
CertWriteFirst(p, h) == h.writes = 0
CertWriteSecond(p, h) == h.writes = 1

\* cert_write: the first message of a side that is encrypted.
CertWrite(p, h) == h.writes = IF p = "initiator" THEN 1 ELSE 0

\* read_message and what the driver keeps of its payload. The static key
\* comes with the second and the third message.
AfterRead(h, m) ==
    [h EXCEPT !.step = @ + 1,
              !.transcript = Append(@, m),
              !.remoteStatic = IF m.index = 0 THEN @ ELSE m.by,
              !.peerCert = IF m.payload = Nothing THEN @ ELSE m.payload]

AfterWrite(h, m) == [h EXCEPT !.step = @ + 1, !.transcript = Append(@, m)]
-----------------------------------------------------------------------------
(* The driver and its callers.  w is the wire after what the step has read. *)

\* Seeded fault: the side that fails leaves its WebSocket open.
FailKeepsSocket(p, h, w, reason) ==
    /\ hs' = [hs EXCEPT ![p] = h]
    /\ pc' = [pc EXCEPT ![p] = "failed"]
    /\ why' = [why EXCEPT ![p] = reason]
    /\ wire' = w
    /\ UNCHANGED ws

\* An exception leaves connect() or _on_connection: the WebSocket is closed,
\* by their except clauses or, on the server, by the library after them.
Fail(p, h, w, reason) ==
    /\ hs' = [hs EXCEPT ![p] = h]
    /\ pc' = [pc EXCEPT ![p] = "failed"]
    /\ why' = [why EXCEPT ![p] = reason]
    /\ wire' = IF ws[p] = "open" THEN [w EXCEPT ![p] = Append(@, WsClose)] ELSE w
    /\ ws' = [ws EXCEPT ![p] = "closed"]

\* The handshake is over: the synchronous part that trusts the peer or not.
Conclude(p, h, w) ==
    \/ /\ hs' = [hs EXCEPT ![p] = h]
       /\ pc' = [pc EXCEPT ![p] = "established"]
       /\ wire' = w
       /\ UNCHANGED <<why, ws>>
    \/ Fail(p, h, w, "rejected")

\* write_message, and ws.send up to its await.
WriteNext(p, h, w) ==
    LET payload == IF CertWrite(p, h) /\ p \in certified THEN p ELSE Nothing
        m == Message(p, h.step, payload)
    IN
    \/ /\ ws[p] = "open"
       /\ hs' = [hs EXCEPT ![p] = AfterWrite(h, m)]
       /\ pc' = [pc EXCEPT ![p] = "sending"]
       /\ wire' = [w EXCEPT ![p] = Append(@, HandshakeFrame(m, h.transcript))]
       /\ UNCHANGED <<why, ws>>
    \/ /\ ws[p] = "closed"
       /\ Fail(p, AfterWrite(h, m), w, "closed")

\* From the top of the driver's loop to its next await.
Continue(p, h, w) ==
    \/ IsComplete(h) /\ Conclude(p, h, w)
    \/ ~IsComplete(h) /\ NextIsWrite(p, h) /\ WriteNext(p, h, w)
    \/ /\ ~IsComplete(h) /\ ~NextIsWrite(p, h)
       /\ hs' = [hs EXCEPT ![p] = h]
       /\ pc' = [pc EXCEPT ![p] = "reading"]
       /\ wire' = w
       /\ UNCHANGED <<why, ws>>

\* The handshake begins; the client may fail first on its cert_pin.
Start(p) ==
    /\ pc[p] = "start" /\ p \notin stalled
    /\ \/ Continue(p, hs[p], wire)
       \/ p = "initiator" /\ Fail(p, hs[p], wire, "rejected")
    /\ UNCHANGED <<config, stalled, altered>>

\* Seeded fault: the driver stops once its side has nothing more to write.
SendReturnsLast(p) ==
    LET h == [hs[p] EXCEPT !.writes = @ + 1] IN
    /\ pc[p] = "sending" /\ p \notin stalled
    /\ \/ IF h.step >= MessageCount - 1 THEN Conclude(p, h, wire) ELSE Continue(p, h, wire)
       \/ ws[p] = "closed" /\ Fail(p, hs[p], wire, "closed")
    /\ UNCHANGED <<config, stalled, altered>>

\* ws.send returns, or raises because the connection is gone.
SendReturns(p) ==
    /\ pc[p] = "sending" /\ p \notin stalled
    /\ \/ Continue(p, [hs[p] EXCEPT !.writes = @ + 1], wire)
       \/ ws[p] = "closed" /\ Fail(p, hs[p], wire, "closed")
    /\ UNCHANGED <<config, stalled, altered>>

\* ws.recv returns a message, or raises because there will be no more.
Read(p) ==
    LET f == Head(wire[Peer(p)])
        rest == [wire EXCEPT ![Peer(p)] = Tail(@)]
    IN
    /\ pc[p] = "reading" /\ p \notin stalled
    /\ \/ /\ wire[Peer(p)] # <<>> /\ f.type = "HANDSHAKE" /\ Opens(hs[p], f)
          /\ Continue(p, AfterRead(hs[p], f.message), rest)
       \/ /\ wire[Peer(p)] # <<>> /\ f # WsClose
          /\ f.type = "HANDSHAKE" => ~Opens(hs[p], f)
          /\ Fail(p, hs[p], rest, "refused")
       \/ /\ IF wire[Peer(p)] = <<>> THEN ws[p] = "closed" ELSE f = WsClose
          /\ Fail(p, hs[p], wire, "closed")
    /\ UNCHANGED <<config, stalled, altered>>

\* Seeded fault: only the reads are timed.
TimeoutReading(p) ==
    /\ pc[p] = "reading" /\ p \notin stalled /\ p \in timed
    /\ Fail(p, hs[p], wire, "timeout")
    /\ UNCHANGED <<config, stalled, altered>>

\* wait_for cancels the driver wherever it awaits.
Timeout(p) ==
    /\ pc[p] \in {"sending", "reading"} /\ p \notin stalled /\ p \in timed
    /\ Fail(p, hs[p], wire, "timeout")
    /\ UNCHANGED <<config, stalled, altered>>
-----------------------------------------------------------------------------
(* After the handshake: just enough of the session to see whether its      *)
(* messages and the handshake's can be taken for one another.              *)

\* Bound: unread messages of a session.
DataBound == 1

SendData(p) ==
    /\ pc[p] = "established" /\ p \notin stalled /\ ws[p] = "open"
    /\ Len(SelectSeq(wire[p], LAMBDA f : f = Data)) < DataBound
    /\ wire' = [wire EXCEPT ![p] = Append(@, Data)]
    /\ UNCHANGED <<config, pc, why, hs, ws, stalled, altered>>

ReadData(p) ==
    /\ pc[p] = "established" /\ p \notin stalled
    /\ wire[Peer(p)] # <<>> /\ Head(wire[Peer(p)]) # WsClose
    /\ wire' = [wire EXCEPT ![Peer(p)] = Tail(@)]
    /\ UNCHANGED <<config, pc, why, hs, ws, stalled, altered>>

\* The program closes the session as soon as it likes.
EndSession(p) ==
    /\ pc[p] = "established" /\ p \notin stalled /\ ws[p] = "open"
    /\ wire' = [wire EXCEPT ![p] = Append(@, WsClose)]
    /\ ws' = [ws EXCEPT ![p] = "closed"]
    /\ UNCHANGED <<config, pc, why, hs, stalled, altered>>
-----------------------------------------------------------------------------
(* The WebSocket and the world.                                            *)

PeerClosed(p) ==
    /\ ws[p] = "open" /\ p \notin stalled
    /\ \E i \in DOMAIN wire[Peer(p)] : wire[Peer(p)][i] = WsClose
    /\ ws' = [ws EXCEPT ![p] = "closed"]
    /\ UNCHANGED <<config, pc, why, hs, wire, stalled, altered>>

\* The connection breaks; messages that had not arrived are gone.
Break ==
    /\ MayBreak
    /\ \E p \in Endpoints : ws[p] = "open"
    /\ ws' = [p \in Endpoints |-> "closed"]
    /\ \E arrived \in [Endpoints -> 0 .. MessageCount + DataBound] :
         /\ \A p \in Endpoints : arrived[p] <= Len(wire[p])
         /\ wire' = [p \in Endpoints |-> SubSeq(wire[p], 1, arrived[p])]
    /\ UNCHANGED <<config, pc, why, hs, stalled, altered>>

\* A handshake message that is not the one written: other bytes of a good
\* length, to which a first message may add a payload, or no frame at all.
Alterations(f) ==
    {Malformed} \cup
    {[f EXCEPT !.message = [@ EXCEPT !.intact = FALSE, !.payload = x]] :
        x \in {Nothing, "junk"}}

Alter(p) ==
    /\ MayAlter
    /\ \E i \in DOMAIN wire[p] :
         /\ wire[p][i].type = "HANDSHAKE"
         /\ \E f \in Alterations(wire[p][i]) : wire' = [wire EXCEPT ![p][i] = f]
    /\ altered' = TRUE
    /\ UNCHANGED <<config, pc, why, hs, ws, stalled>>

\* A side stops: its process is suspended, or its network is gone.
Stall(p) ==
    /\ MayStall
    /\ stalled' = stalled \cup {p}
    /\ UNCHANGED <<config, pc, why, hs, wire, ws, altered>>

Next ==
    \/ Break
    \/ \E p \in Endpoints :
         \/ Start(p) \/ SendReturns(p) \/ Read(p) \/ Timeout(p)
         \/ SendData(p) \/ ReadData(p) \/ EndSession(p)
         \/ PeerClosed(p) \/ Alter(p) \/ Stall(p)

Spec == Init /\ [][Next]_vars

\* The event loop runs ready tasks and due timers, and the WebSocket hears
\* the peer's Close.  A send returns unless its peer has stopped reading, or
\* else when the connection is over.
Fairness == \A p \in Endpoints :
    /\ WF_vars(Start(p)) /\ WF_vars(Read(p)) /\ WF_vars(Timeout(p))
    /\ WF_vars((Peer(p) \notin stalled \/ ws[p] = "closed") /\ SendReturns(p))
    /\ WF_vars(PeerClosed(p))

FairSpec == Spec /\ Fairness
-----------------------------------------------------------------------------
(* Properties.                                                             *)

Finished(p) == pc[p] \in {"established", "failed"}

(* Whoever finishes the handshake agrees with the peer on all of it.  The  *)
(* initiator may be the only one to have finished, but then its last       *)
(* message is all the responder lacks; the responder never finishes alone. *)
(* An alteration of even the first, unencrypted message ends in no session *)
(* at all (result(), handshake_hash and safety_number rest on this).       *)
Agreement ==
    /\ IsComplete(hs["responder"]) =>
         hs["responder"].transcript = hs["initiator"].transcript
    /\ IsComplete(hs["initiator"]) =>
         hs["responder"].transcript \in
            {hs["initiator"].transcript, SubSeq(hs["initiator"].transcript, 1, 2)}

(* The key and the certificate that the trust decision is about are the    *)
(* peer's own: what the first message's unauthenticated payload put in     *)
(* peer_cert never survives to a completed handshake.                      *)
PeerIsGenuine == \A p \in Endpoints : IsComplete(hs[p]) =>
    /\ hs[p].remoteStatic = Peer(p)
    /\ hs[p].peerCert = IF Peer(p) \in certified THEN Peer(p) ELSE Nothing

(* No certificate travels in the first message, which is not encrypted.    *)
CertificateEncrypted == \A p \in Endpoints : \A i \in DOMAIN wire[p] :
    /\ wire[p][i].type = "HANDSHAKE"
    /\ wire[p][i].message.payload \in Endpoints
    => wire[p][i].message.index > 0

(* The handshake reads handshake messages only and the session the         *)
(* session's only, although the initiator sends data without waiting for   *)
(* the responder to finish and both share one WebSocket.                   *)
InPhase == \A p \in Endpoints :
    wire[Peer(p)] # <<>> =>
        /\ pc[p] = "reading" =>
             Head(wire[Peer(p)]).type \in {"HANDSHAKE", "WSCLOSE", "malformed"}
        /\ pc[p] = "established" => Head(wire[Peer(p)]) \in {Data, WsClose}

(* A side refuses a message only if one was altered: timeouts, breaks and  *)
(* early closes never make the two drivers lose step.                      *)
RefusalMeansAltered == \A p \in Endpoints : why[p] = "refused" => altered

(* A side with a timeout is never held up for good by its peer, whether it *)
(* waits for a message or for its own to be taken.                         *)
HandshakeEnds == \A p \in Endpoints :
    p \in timed ~> Finished(p) \/ p \in stalled

(* A side that gives up takes the other with it: one still in the          *)
(* handshake ends even without a timeout of its own, and one that already  *)
(* has a session (the initiator, when the responder rejects it) finds its  *)
(* WebSocket closed.                                                       *)
FailureReachesPeer == \A p \in Endpoints :
    pc[p] = "failed" ~> \/ Peer(p) \in stalled
                        \/ Finished(Peer(p)) /\ ws[Peer(p)] = "closed"
=============================================================================
