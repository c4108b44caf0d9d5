-------------------------- MODULE SecureConnection --------------------------
(***************************************************************************)
(* The two SecureConnection objects of one session (transport.py), each    *)
(* used by one reading task and some sending tasks of its asyncio program, *)
(* over one WebSocket.  It extends the model of the two channels: every    *)
(* call of encrypt, close_frame and decrypt is a step of SecureChannel.    *)
(*                                                                         *)
(* A task runs until it awaits, so a step here is what happens between two *)
(* awaits.  send() awaits once per frame of encrypt(): ws.send(f) takes    *)
(* the WebSocket's lock (first come, first served), writes f, and holds    *)
(* the lock until the write buffer has drained.  While the lock is free    *)
(* and the buffer has room, none of this switches tasks.                   *)
(***************************************************************************)
EXTENDS SecureChannel

CONSTANTS
    InitiatorTasks,     \* sending tasks of the initiator's program
    ResponderTasks,     \* and of the responder's
    NoTask,
    Capacity,           \* frames the write buffer takes before it blocks
    MayCancel,          \* whether tasks get cancelled (a wait_for, a shutdown)
    MayLoseConnection   \* whether the TCP connection may break

ASSUME TasksAssumption == /\ InitiatorTasks \cap ResponderTasks = {}
                          /\ NoTask \notin InitiatorTasks \cup ResponderTasks
ASSUME CapacityAssumption == Capacity \in Nat
ASSUME FaultsAssumption == MayCancel \in BOOLEAN /\ MayLoseConnection \in BOOLEAN

Tasks == InitiatorTasks \cup ResponderTasks
Owner(t) == IF t \in InitiatorTasks THEN "initiator" ELSE "responder"

VARIABLES
    pc,         \* per task: "idle", inside "send" or "close", or "closed" (close returned)
    outbox,     \* per task: frames its call has still to write
    holder,     \* per endpoint: the task draining a write under the lock
    backlog,    \* per endpoint: tasks waiting for the lock, in order
    wire,       \* per endpoint: frames written and not yet read by the peer
    ws          \* per endpoint: the WebSocket is "open" or "closed"

connVars == <<pc, outbox, holder, backlog, wire, ws>>
allVars == <<vars, connVars>>

\* The WebSocket Close frame that ws.close() writes.
WsClose == [type |-> "WSCLOSE"]

ConnInit ==
    /\ Init
    /\ pc = [t \in Tasks |-> "idle"]
    /\ outbox = [t \in Tasks |-> <<>>]
    /\ holder = [p \in Endpoints |-> NoTask]
    /\ backlog = [p \in Endpoints |-> <<>>]
    /\ wire = [p \in Endpoints |-> <<>>]
    /\ ws = [p \in Endpoints |-> "open"]
-----------------------------------------------------------------------------
(* The WebSocket's send and close.                                         *)

\* Where a task stands once ConnectionClosed is raised inside its call:
\* send() lets it through; close() swallows it, and ws.close() returns.
Raised(call) == IF call = "send" THEN "idle" ELSE "closed"

\* How many of frames are written before the write buffer is full: a drain
\* that finds room returns without a switch of tasks.
Burst(p, frames) ==
    LET room == Capacity - Len(wire[p])
        n == IF room < 0 THEN 1 ELSE room + 1
    IN  IF n >= Len(frames) THEN Len(frames) ELSE n

\* Task t has the lock, inside call, with these frames to write.  It ends up
\* with ConnectionClosed, waiting for the buffer to drain, or with all written.
Write(t, call, frames) ==
    LET p == Owner(t)
        n == Burst(p, frames)
        written == wire[p] \o SubSeq(frames, 1, n)
        ending == WsClose \in {frames[i] : i \in 1 .. n}
    IN
    \/ /\ ws[p] = "closed"
       /\ pc' = [pc EXCEPT ![t] = Raised(call)]
       /\ outbox' = [outbox EXCEPT ![t] = <<>>]
       /\ holder' = [holder EXCEPT ![p] = NoTask]
       /\ UNCHANGED <<wire, ws>>
    \/ /\ ws[p] = "open"
       /\ ~ending
       /\ Len(written) > Capacity
       /\ wire' = [wire EXCEPT ![p] = written]
       /\ pc' = [pc EXCEPT ![t] = call]
       /\ outbox' = [outbox EXCEPT ![t] = SubSeq(frames, n + 1, Len(frames))]
       /\ holder' = [holder EXCEPT ![p] = t]
       /\ UNCHANGED ws
    \/ /\ ws[p] = "open"
       /\ ending \/ Len(written) <= Capacity
       /\ wire' = [wire EXCEPT ![p] = written]
       /\ ws' = [ws EXCEPT ![p] = IF ending THEN "closed" ELSE @]
       /\ pc' = [pc EXCEPT ![t] = IF ending THEN "closed" ELSE "idle"]
       /\ outbox' = [outbox EXCEPT ![t] = <<>>]
       /\ holder' = [holder EXCEPT ![p] = NoTask]

\* Task t asks for the lock, giving it up first if it has it; it waits its
\* turn unless nobody else holds it or waits for it.
Acquire(t, call, frames) ==
    LET p == Owner(t) IN
    IF holder[p] \in {NoTask, t} /\ backlog[p] = <<>>
      THEN Write(t, call, frames) /\ UNCHANGED backlog
      ELSE /\ backlog' = [backlog EXCEPT ![p] = Append(@, t)]
           /\ holder' = [holder EXCEPT ![p] = IF @ = t THEN NoTask ELSE @]
           /\ pc' = [pc EXCEPT ![t] = call]
           /\ outbox' = [outbox EXCEPT ![t] = frames]
           /\ UNCHANGED <<wire, ws>>

\* The lock goes to the task that has waited longest.
Grant(p) ==
    /\ holder[p] = NoTask
    /\ backlog[p] # <<>>
    /\ backlog' = [backlog EXCEPT ![p] = Tail(@)]
    /\ LET t == Head(backlog[p]) IN Write(t, pc[t], outbox[t])
    /\ UNCHANGED vars
-----------------------------------------------------------------------------
(* SecureConnection.                                                       *)

\* Seeded faults: the frames of one encrypt() in the wrong order; only the
\* first of them.
ReturnedReversed(p) ==
    [i \in 1 .. Len(sent'[p]) - Len(sent[p]) |-> sent'[p][Len(sent'[p]) + 1 - i]]
ReturnedFirst(p) == <<sent'[p][Len(sent[p]) + 1]>>

\* The frames a step of the channel has returned to its caller.
Returned(p) == SubSeq(sent'[p], Len(sent[p]) + 1, Len(sent'[p]))

\* send(data): encrypt, and ws.send of its first frame.
Send(t, m) ==
    LET p == Owner(t) IN
    /\ pc[t] = "idle"
    /\ EncryptPlain(p, m) \/ EncryptAfterRekey(p, m)
    /\ Acquire(t, "send", Returned(p))

\* send(data) raises in encrypt: nothing to write. (With the channel closed
\* nothing changes at all.)
SendRaises(t) ==
    /\ pc[t] = "idle"
    /\ EmitFails(Owner(t)) \/ EncryptFailsAfterRekey(Owner(t))
    /\ UNCHANGED connVars

\* Seeded faults: the socket is closed before the CLOSE frame is sent; no
\* CLOSE frame is sent at all.
CloseFramesSwapped(p) == <<WsClose>> \o Returned(p)
CloseFramesSocketOnly(p) == <<WsClose>>

\* What close() of an open channel has to write: the CLOSE frame, then the
\* WebSocket's own Close.
CloseFrames(p) == Append(Returned(p), WsClose)

\* close() of an open channel: close_frame, ws.send of it, then ws.close().
Close(t) ==
    /\ pc[t] = "idle"
    /\ CloseFrame(Owner(t))
    /\ Acquire(t, "close", CloseFrames(Owner(t)))

\* close() when the channel is closed, or when close_frame raises an error
\* of this library (the sequence number no longer fits the header): only
\* ws.close().
CloseSocketOnly(t) ==
    /\ pc[t] = "idle"
    /\ \/ closed[Owner(t)] /\ UNCHANGED vars
       \/ sendSeq[Owner(t)] > MaxSeq /\ EmitFails(Owner(t))
    /\ Acquire(t, "close", <<WsClose>>)

\* close() when the cipher is out of nonces: the Noise library's own error
\* leaves close() before it has closed anything.
CloseRaises(t) ==
    /\ pc[t] = "idle"
    /\ sendSeq[Owner(t)] <= MaxSeq
    /\ EmitFails(Owner(t))
    /\ UNCHANGED connVars

\* Seeded fault: the lock is not given back after the last frame.
DrainDoneKeepsLock(t) ==
    LET p == Owner(t) IN
    /\ holder[p] = t
    /\ Len(wire[p]) <= Capacity \/ ws[p] = "closed"
    /\ IF outbox[t] # <<>>
         THEN Acquire(t, pc[t], outbox[t])
         ELSE /\ pc' = [pc EXCEPT ![t] = "idle"]
              /\ UNCHANGED <<outbox, holder, backlog, wire, ws>>
    /\ UNCHANGED vars

\* The write of t's frame has drained (or failed, the connection being
\* closed): ws.send returns, and t goes on to its next frame or is done.
DrainDone(t) ==
    LET p == Owner(t) IN
    /\ holder[p] = t
    /\ Len(wire[p]) <= Capacity \/ ws[p] = "closed"
    /\ IF outbox[t] # <<>>
         THEN Acquire(t, pc[t], outbox[t])
         ELSE /\ holder' = [holder EXCEPT ![p] = NoTask]
              /\ pc' = [pc EXCEPT ![t] = "idle"]
              /\ UNCHANGED <<outbox, backlog, wire, ws>>
    /\ UNCHANGED vars

\* The lock's queue once t no longer waits for it.
Without(queue, t) ==
    IF \E i \in DOMAIN queue : queue[i] = t
      THEN LET i == CHOOSE i \in DOMAIN queue : queue[i] = t
           IN  SubSeq(queue, 1, i - 1) \o SubSeq(queue, i + 1, Len(queue))
      ELSE queue

\* t is cancelled inside send() or close(): CancelledError is caught nowhere
\* here, and what t had not written is never written.
Cancel(t) ==
    LET p == Owner(t) IN
    /\ MayCancel
    /\ pc[t] \in {"send", "close"}
    /\ pc' = [pc EXCEPT ![t] = "idle"]
    /\ outbox' = [outbox EXCEPT ![t] = <<>>]
    /\ holder' = [holder EXCEPT ![p] = IF @ = t THEN NoTask ELSE @]
    /\ backlog' = [backlog EXCEPT ![p] = Without(@, t)]
    /\ UNCHANGED <<vars, wire, ws>>

\* One turn of recv's loop. The program reads on after an error of decrypt.
Recv(p) ==
    LET f == Head(wire[Peer(p)]) IN
    /\ wire[Peer(p)] # <<>>
    /\ f # WsClose
    /\ Decrypt(p, f)
    /\ wire' = [wire EXCEPT ![Peer(p)] = Tail(@)]
    /\ UNCHANGED <<pc, outbox, holder, backlog, ws>>

\* The peer's WebSocket Close has arrived; frames before it can still be read.
PeerClosed(p) ==
    /\ ws[p] = "open"
    /\ \E i \in DOMAIN wire[Peer(p)] : wire[Peer(p)][i] = WsClose
    /\ ws' = [ws EXCEPT ![p] = "closed"]
    /\ UNCHANGED <<vars, pc, outbox, holder, backlog, wire>>

\* The TCP connection breaks; frames that had not arrived are gone.
ConnectionLost ==
    /\ MayLoseConnection
    /\ \E p \in Endpoints : ws[p] = "open"
    /\ ws' = [p \in Endpoints |-> "closed"]
    /\ \E arrived \in [Endpoints -> 0 .. MaxSeq + 1] :
         /\ \A p \in Endpoints : arrived[p] <= Len(wire[p])
         /\ wire' = [p \in Endpoints |-> SubSeq(wire[p], 1, arrived[p])]
    /\ UNCHANGED <<vars, pc, outbox, holder, backlog>>

\* The clock of a program that never sends is not observable.
PolicyClock == /\ \E t \in Tasks : Tick(Owner(t))
               /\ UNCHANGED connVars

System ==
    \/ \E t \in Tasks : DrainDone(t)
    \/ \E p \in Endpoints : Grant(p) \/ Recv(p) \/ PeerClosed(p)

ConnNext ==
    \/ System
    \/ \E t \in Tasks : \/ \E m \in Msgs : Send(t, m)
                        \/ SendRaises(t)
                        \/ Close(t)
                        \/ CloseSocketOnly(t)
                        \/ CloseRaises(t)
                        \/ Cancel(t)
    \/ ConnectionLost
    \/ PolicyClock

ConnSpec == ConnInit /\ [][ConnNext]_allVars

\* Each program's event loop runs the tasks that are ready, its WebSocket
\* writes and reads, and its reading task keeps calling recv().  No task is
\* obliged to send or to close.
Fairness ==
    /\ \A t \in Tasks : WF_allVars(DrainDone(t))
    /\ \A p \in Endpoints : WF_allVars(Grant(p)) /\ WF_allVars(Recv(p))
                                                 /\ WF_allVars(PeerClosed(p))

FairSpec == ConnSpec /\ Fairness
-----------------------------------------------------------------------------
(* Properties.                                                             *)

(* Types of the connection's own state; the channels keep theirs.          *)
ConnTypeOK ==
    /\ TypeOK
    /\ pc \in [Tasks -> {"idle", "send", "close", "closed"}]
    /\ outbox \in [Tasks -> Seq(Frames \cup {WsClose})]
    /\ holder \in [Endpoints -> Tasks \cup {NoTask}]
    /\ backlog \in [Endpoints -> Seq(Tasks)]
    /\ wire \in [Endpoints -> Seq(Frames \cup {WsClose})]
    /\ ws \in [Endpoints -> {"open", "closed"}]

(* A frame the WebSocket delivers to an open channel is accepted by it.    *)
(* Nobody tampers with this wire, so decrypt() has no reason to raise      *)
(* DecryptionError, whose text says "tampered or truncated".               *)
DeliveredFrameAccepted == \A p \in Endpoints :
    /\ ~closed[p]
    /\ wire[Peer(p)] # <<>>
    /\ Head(wire[Peer(p)]) # WsClose
    => Accepts(p, Head(wire[Peer(p)]))

(* When the socket ends under an open channel, the reader cannot tell a    *)
(* truncation from an orderly end.  Without faults that never happens:     *)
(* close() has the CLOSE frame written before the WebSocket's own Close,   *)
(* unless its channel was past its last sequence number.                   *)
EndIsAuthenticated == \A p \in Endpoints :
    /\ ~closed[p]
    /\ wire[Peer(p)] # <<>>
    /\ Head(wire[Peer(p)]) = WsClose
    => sendSeq[Peer(p)] > MaxSeq

(* Every frame encrypt() returned is accepted by the peer in the end,      *)
(* unless the session is closed on either side first.                      *)
Delivery == \A p \in Endpoints : \A i \in 1 .. MaxSeq :
    Len(sent[p]) >= i ~> \/ Len(accepted[Peer(p)]) >= i
                         \/ closed[Peer(p)]
                         \/ ws[p] = "closed"

(* A call of send() or close() always ends, one way or another: a task     *)
(* that raises or is cancelled leaves the lock to the next.                *)
CallsEnd == \A t \in Tasks : pc[t] \in {"send", "close"} ~> pc[t] \in {"idle", "closed"}

(* close() ends the session for the peer too: once it has begun, the       *)
(* peer's channel is closed in the end, unless the peer had run out of     *)
(* sequence numbers and dropped the socket without a CLOSE of its own.     *)
CloseReachesPeer == \A p \in Endpoints :
    SaidClose(p) ~> closed[Peer(p)] \/ sendSeq[Peer(p)] > MaxSeq

(* close() leaves the socket open when the Noise library's own error ends  *)
(* it, but one side's close() does so once only: the sequence number it    *)
(* has spent was the last that fits a header, so from then on close()      *)
(* meets its own library's error, swallows it and closes the socket.  The  *)
(* channel's number and the cipher's nonce have to run out together,       *)
(* whichever call fails first, and in whichever of its frames.             *)
CloseFailsOnce == [][\A t \in Tasks :
    CloseRaises(t) => sendSeq'[Owner(t)] > MaxSeq]_allVars

(* A frame that was encrypted and can no longer reach the wire: its send() *)
(* was cancelled, or the socket closed.                                    *)
InTransit(p, f) ==
    \/ \E i \in DOMAIN wire[p] : wire[p][i] = f
    \/ \E t \in Tasks : Owner(t) = p /\ \E i \in DOMAIN outbox[t] : outbox[t][i] = f

(* The next frame p waits for is lost.                                     *)
Wedged(p) ==
    /\ Len(accepted[p]) < Len(sent[Peer(p)])
    /\ ~InTransit(Peer(p), sent[Peer(p)][Len(accepted[p]) + 1])

(* The price of strict nonces: after one lost frame a direction is dead.   *)
(* No later frame is ever accepted, not even the CLOSE, so a loss can      *)
(* never be taken for an orderly end.                                      *)
LossIsNeverSilent == [][\A p \in Endpoints :
    Wedged(p) => accepted'[p] = accepted[p] /\ Wedged(p)']_allVars
=============================================================================
