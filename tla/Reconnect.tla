----------------------------- MODULE Reconnect -----------------------------
(***************************************************************************)
(* A client that connects again and again (transport.py, connect): every   *)
(* session has new keys and channels on both sides, but the client may     *)
(* hand connect() the ReplayWindow and the RekeyPolicy of the session      *)
(* before.  Frames of earlier sessions can still be presented: to the new  *)
(* one they are forged.                                                    *)
(***************************************************************************)
EXTENDS SecureChannel

CONSTANT MaxSessions    \* bound: sessions in a row

VARIABLES
    session,    \* number of the session
    spent       \* history: the client's window had advanced when it was handed on

reconnectVars == <<vars, session, spent>>

ReconnectInit == Init /\ session = 1 /\ spent = FALSE

\* Seeded fault: one default window for all channels.
WindowGivenShared(given) == window["initiator"]

\* The client's window and policy in the next session: those of this session
\* if it passes them on, else new ones.
WindowGiven(given) == IF given THEN window["initiator"] ELSE EmptyWindow
PolicyGiven(given) == IF given THEN rekey["initiator"] ELSE Reset

\* connect() once more; the server always starts from new objects.
Connect(sameWindow, samePolicy) ==
    /\ session < MaxSessions
    /\ session' = session + 1
    /\ sendSeq' = [p \in Endpoints |-> 0]
    /\ sendCipher' = [p \in Endpoints |-> [k |-> 0, n |-> 0]]
    /\ recvCipher' = [p \in Endpoints |-> [k |-> 0, n |-> 0]]
    /\ window' = [p \in Endpoints |->
                    IF p = "initiator" THEN WindowGiven(sameWindow) ELSE EmptyWindow]
    /\ rekey' = [p \in Endpoints |->
                   IF p = "initiator" THEN PolicyGiven(samePolicy) ELSE Reset]
    /\ closed' = [p \in Endpoints |-> FALSE]
    /\ sent' = [p \in Endpoints |-> <<>>]
    /\ accepted' = [p \in Endpoints |-> <<>>]
    /\ spent' = (sameWindow /\ window["initiator"] # EmptyWindow)

ReconnectNext ==
    \/ Next /\ UNCHANGED <<session, spent>>
    \/ \E sameWindow, samePolicy \in BOOLEAN : Connect(sameWindow, samePolicy)

ReconnectSpec == ReconnectInit /\ [][ReconnectNext]_reconnectVars
-----------------------------------------------------------------------------
(* Properties.  SecureChannel's hold in every session, whatever the policy *)
(* and the window that the client hands on, with one exception.            *)

(* With a window of its own every session delivers; in particular the      *)
(* default window is not shared between sessions.                          *)
OwnWindowDelivers == ~spent => NextFrameAccepted

(* A window that has advanced in an earlier session never accepts anything *)
(* in this one: it refuses the numbers it knows, and the cipher, stuck at  *)
(* its first nonce, refuses all others.  Reuse is an error that shows, not *)
(* a session with a gap at its start.                                      *)
SpentWindowShutsOut == spent => accepted["initiator"] = <<>>
=============================================================================
