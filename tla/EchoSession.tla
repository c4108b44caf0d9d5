---------------------------- MODULE EchoSession ----------------------------
(***************************************************************************)
(* The two example programs facing each other: the client sends a message  *)
(* and waits for its echo before it sends the next (examples/client.py,    *)
(* and the two demo clients), the server iterates over the connection and  *)
(* sends every message back (examples/server.py).  Unlike the reading      *)
(* tasks of SecureConnection, each program reads only between its sends,   *)
(* so a full write buffer on either side can hold up both.                 *)
(***************************************************************************)
EXTENDS SecureConnection

CONSTANTS
    Client, Server, \* the one task of each program
    Script          \* the messages the client sends

ASSUME ScriptAssumption == Script \in Seq(Msgs)

\* What an instance has to be like, and a theorem about it assumes.  Running
\* out of sequence numbers is SecureConnection's subject, not this one's.
OneTaskPerProgram == InitiatorTasks = {Client} /\ ResponderTasks = {Server}
EnoughNumbers == MaxSeq > 2 * Len(Script) + 1

VARIABLES
    asking,     \* messages the client has still to send
    replies,    \* what the client's recv() has returned
    clientAt,   \* where main() stands
    serverAt    \* where echo() stands

programs == <<asking, replies, clientAt, serverAt>>
echoVars == <<allVars, programs>>

EchoInit ==
    /\ ConnInit
    /\ asking = Script /\ replies = <<>>
    /\ clientAt = "ask" /\ serverAt = "read"

\* The frame that recv() of p has just accepted, if there is one.
JustAccepted(p) == {accepted'[p][i] : i \in Len(accepted[p]) + 1 .. Len(accepted'[p])}

\* recv() of p raises ConnectionClosed: the socket is closed and all is read.
NothingToRead(p) ==
    /\ ws[p] = "closed"
    /\ Head(Append(wire[Peer(p)], WsClose)) = WsClose
-----------------------------------------------------------------------------
(* The client.                                                             *)

\* Seeded fault: all messages are sent before the first reply is read.
AfterAskPipelined == IF Len(asking) > 1 THEN "ask" ELSE "wait"

\* What await conn.send(text) is followed by.
AfterAsk == "wait"

ClientAsks ==
    /\ clientAt = "ask" /\ asking # <<>>
    /\ Send(Client, Head(asking))
    /\ asking' = Tail(asking)
    /\ clientAt' = AfterAsk
    /\ UNCHANGED <<replies, serverAt>>

\* Seeded fault: recv() returns whatever the next frame decrypts to.
ReplyInFirst(frames) == [f \in frames |-> f.msg]

\* recv() loops over frames that carry no message.
ReplyIn(frames) == [f \in {g \in frames : g.type = "TRANSPORT"} |-> f.msg]

\* One turn of recv() once send() has returned.
ClientReads ==
    /\ clientAt = "wait" /\ pc[Client] = "idle"
    /\ Recv("initiator")
    /\ LET reply == ReplyIn(JustAccepted("initiator")) IN
         IF DOMAIN reply = {}
           THEN UNCHANGED <<replies, clientAt>>
           ELSE /\ \E f \in DOMAIN reply : replies' = Append(replies, reply[f])
                /\ clientAt' = "ask"
    /\ UNCHANGED <<asking, serverAt>>

\* send() or recv() raises ConnectionClosed.
ClientFails ==
    /\ clientAt = "wait" /\ pc[Client] = "idle"
    /\ NothingToRead("initiator")
    /\ clientAt' = "close"
    /\ UNCHANGED <<allVars, asking, replies, serverAt>>

\* finally: await conn.close(), after the last reply or an exception.
ClientCloses ==
    /\ clientAt = "close" \/ (clientAt = "ask" /\ asking = <<>>)
    /\ pc[Client] = "idle"
    /\ Close(Client)
    /\ clientAt' = "done"
    /\ UNCHANGED <<asking, replies, serverAt>>
-----------------------------------------------------------------------------
(* The server.                                                             *)

\* async for: one turn of recv() in __anext__; a message is answered next, and
\* the peer's CLOSE (ChannelClosedError) ends the iteration.
ServerReads ==
    /\ serverAt = "read" /\ pc[Server] = "idle"
    /\ Recv("responder")
    /\ serverAt' =
         CASE \E f \in JustAccepted("responder") : f.type = "TRANSPORT" -> "answer"
           [] \E f \in JustAccepted("responder") : f.type = "CLOSE" -> "done"
           [] OTHER -> "read"
    /\ UNCHANGED <<asking, replies, clientAt>>

\* await conn.send(message)
ServerAnswers ==
    /\ serverAt = "answer"
    /\ Send(Server, accepted["responder"][Len(accepted["responder"])].msg)
    /\ serverAt' = "read"
    /\ UNCHANGED <<asking, replies, clientAt>>

\* ConnectionClosed ends the iteration (and out of send(), echo() itself).
ServerFails ==
    /\ serverAt = "read" /\ pc[Server] = "idle"
    /\ NothingToRead("responder")
    /\ serverAt' = "done"
    /\ UNCHANGED <<allVars, asking, replies, clientAt>>

\* echo() has returned: the WebSocket server closes the socket.
ServerCloses ==
    /\ serverAt = "done"
    /\ Acquire(Server, "close", <<WsClose>>)
    /\ serverAt' = "gone"
    /\ UNCHANGED <<vars, asking, replies, clientAt>>
-----------------------------------------------------------------------------
\* A program's only task never waits for the lock, so there is no Grant.
EchoNext ==
    \/ ClientAsks \/ ClientReads \/ ClientFails \/ ClientCloses
    \/ ServerReads \/ ServerAnswers \/ ServerFails \/ ServerCloses
    \/ \E t \in Tasks : DrainDone(t) /\ UNCHANGED programs
    \/ \E p \in Endpoints : PeerClosed(p) /\ UNCHANGED programs
    \/ ConnectionLost /\ UNCHANGED programs
    \/ PolicyClock /\ UNCHANGED programs

\* Both event loops run what is ready; the clock and the network do as they like.
EchoFairness ==
    /\ WF_echoVars(ClientAsks) /\ WF_echoVars(ClientReads)
    /\ WF_echoVars(ClientFails) /\ WF_echoVars(ClientCloses)
    /\ WF_echoVars(ServerReads) /\ WF_echoVars(ServerAnswers)
    /\ WF_echoVars(ServerFails) /\ WF_echoVars(ServerCloses)
    /\ \A t \in Tasks : WF_echoVars(DrainDone(t) /\ UNCHANGED programs)
    /\ \A p \in Endpoints : WF_echoVars(PeerClosed(p) /\ UNCHANGED programs)

EchoSpec == EchoInit /\ [][EchoNext]_echoVars /\ EchoFairness
-----------------------------------------------------------------------------
(* Properties.                                                             *)

(* When the server has heard a CLOSE, the client has had every reply, each *)
(* to its own message, though frames without a message came in between:    *)
(* the connection may have broken since, but the session was complete.     *)
CloseMeansAnswered == closed["responder"] => replies = Script

(* Both programs end, whatever the buffer's size and the clock, whether or *)
(* not the connection breaks: they are never both stuck in a send() that   *)
(* only the other's recv() could release.                                  *)
SessionEnds == <>(clientAt = "done" /\ pc[Client] = "closed" /\ serverAt = "gone")
=============================================================================
