--------------------------- MODULE MessageStream ---------------------------
(***************************************************************************)
(* What a session promises its two users, with no frames, keys or sequence *)
(* numbers in it: one reliable FIFO stream of messages each way, and an    *)
(* orderly end.  An endpoint that hears the end of the session from its    *)
(* peer has been given everything the peer ever sent.  A new session has   *)
(* nothing of the one before.                                              *)
(***************************************************************************)
EXTENDS Naturals, Sequences

CONSTANTS Endpoints, Peer(_), Msgs

VARIABLES
    stream,     \* messages each endpoint's user has sent
    got,        \* messages each endpoint's user has been given
    end         \* "open", "said" (ended it first) or "heard" (from the peer)

vars == <<stream, got, end>>

Init ==
    /\ stream = [p \in Endpoints |-> <<>>]
    /\ got = [p \in Endpoints |-> <<>>]
    /\ end = [p \in Endpoints |-> "open"]

Send(p, m) ==
    /\ end[p] = "open"
    /\ stream' = [stream EXCEPT ![p] = Append(@, m)]
    /\ UNCHANGED <<got, end>>

Deliver(p) ==
    /\ end[p] = "open"
    /\ Len(got[p]) < Len(stream[Peer(p)])
    /\ got' = [got EXCEPT ![p] = Append(@, stream[Peer(p)][Len(@) + 1])]
    /\ UNCHANGED <<stream, end>>

SayEnd(p) ==
    /\ end[p] = "open"
    /\ end' = [end EXCEPT ![p] = "said"]
    /\ UNCHANGED <<stream, got>>

HearEnd(p) ==
    /\ end[p] = "open"
    /\ end[Peer(p)] = "said"
    /\ got[p] = stream[Peer(p)]
    /\ end' = [end EXCEPT ![p] = "heard"]
    /\ UNCHANGED <<stream, got>>

NewSession ==
    /\ stream' = [p \in Endpoints |-> <<>>]
    /\ got' = [p \in Endpoints |-> <<>>]
    /\ end' = [p \in Endpoints |-> "open"]

Next ==
    \/ \E p \in Endpoints :
         \/ \E m \in Msgs : Send(p, m)
         \/ Deliver(p)
         \/ SayEnd(p)
         \/ HearEnd(p)
    \/ NewSession

Spec == Init /\ [][Next]_vars
=============================================================================
