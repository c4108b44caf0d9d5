----------------------- MODULE SecureConnectionProofs -----------------------
(***************************************************************************)
(* What holds of two SecureConnections for any number of tasks, any buffer *)
(* and any channel parameters, what one task on each side adds, and what   *)
(* the two example programs say to each other over them.                   *)
(***************************************************************************)
EXTENDS EchoSession, SecureChannelProofs, SequenceTheorems

USE MaxSeqAssumption, WindowSizeAssumption, MaxMessagesAssumption,
    MaxSecondsAssumption DEF MaxNonce

LEMMA OwnerType == \A t \in Tasks : Owner(t) \in Endpoints
BY DEF Owner, Endpoints

LEMMA CloseIsNoFrame == WsClose \notin Frames
BY DEF WsClose, Frames, MessageType

\* What p's program can put on the wire.
Out(p) == {sent[p][i] : i \in DOMAIN sent[p]} \cup {WsClose}

FromSender ==
    /\ \A p \in Endpoints : wire[p] \in Seq(Out(p))
    /\ \A t \in Tasks : outbox[t] \in Seq(Out(Owner(t)))

\* No step takes a frame back.
Grows(s, t) == Len(s) <= Len(t) /\ \A i \in 1 .. Len(s) : t[i] = s[i]

LEMMA SentGrows ==
    ASSUME TypeOK, TypeOK', [Next]_vars
    PROVE  \A p \in Endpoints : Grows(sent[p], sent'[p])
<1> USE DEF TypeOK, Grows
<1>1. ASSUME NEW p \in Endpoints, NEW m \in Msgs, EncryptPlain(p, m)
      PROVE  \A q \in Endpoints : Grows(sent[q], sent'[q])
  <2>1. PICK f : sent' = [sent EXCEPT ![p] = Append(@, f)]
    BY <1>1 DEF EncryptPlain
  <2>2. QED
    BY <2>1
<1>2. ASSUME NEW p \in Endpoints, NEW m \in Msgs, EncryptAfterRekey(p, m)
      PROVE  \A q \in Endpoints : Grows(sent[q], sent'[q])
  <2>1. PICK f, g : sent' = [sent EXCEPT ![p] = Append(Append(@, f), g)]
    BY <1>2 DEF EncryptAfterRekey
  <2>2. QED
    BY <2>1
<1>3. ASSUME NEW p \in Endpoints, CloseFrame(p)
      PROVE  \A q \in Endpoints : Grows(sent[q], sent'[q])
  <2>1. PICK f : sent' = [sent EXCEPT ![p] = Append(@, f)]
    BY <1>3 DEF CloseFrame
  <2>2. QED
    BY <2>1
<1>4. CASE UNCHANGED sent
  BY <1>4
<1>5. QED
  BY <1>1, <1>2, <1>3, <1>4
    DEF Next, EmitFails, EncryptFailsAfterRekey, Tick, Decrypt, DecryptAccepts,
        DecryptRaises, vars, sender

LEMMA OutGrows ==
    ASSUME TypeOK, TypeOK', NEW p \in Endpoints, Grows(sent[p], sent'[p])
    PROVE  Out(p) \subseteq Out(p)'
<1>1. sent[p] \in Seq(Frames) /\ sent'[p] \in Seq(Frames)
  BY DEF TypeOK
<1>2. QED
  BY <1>1 DEF Out, Grows

LEMMA OutType ==
    ASSUME TypeOK, NEW p \in Endpoints PROVE Out(p) \subseteq Frames \cup {WsClose}
<1>1. sent[p] \in Seq(Frames)
  BY DEF TypeOK
<1>2. QED
  BY <1>1 DEF Out

\* The frames of one call.
LEMMA ReturnedType ==
    ASSUME TypeOK, TypeOK', NEW p \in Endpoints, Grows(sent[p], sent'[p])
    PROVE  /\ Returned(p) \in Seq(Out(p)')
           /\ Len(Returned(p)) = Len(sent'[p]) - Len(sent[p])
           /\ \A i \in 1 .. Len(Returned(p)) : Returned(p)[i] = sent'[p][Len(sent[p]) + i]
<1> DEFINE a == Len(sent[p])
           s == sent'[p]
<1>1. s \in Seq(Frames) /\ a \in Nat /\ a <= Len(s)
  BY DEF TypeOK, Grows
<1>2. \A i \in 1 .. Len(s) : s[i] \in Out(p)'
  BY <1>1 DEF Out
<1>3. /\ SubSeq(s, a + 1, Len(s)) \in Seq(Out(p)')
      /\ Len(SubSeq(s, a + 1, Len(s))) = Len(s) - a
      /\ \A i \in 1 .. Len(s) - a : SubSeq(s, a + 1, Len(s))[i] = s[a + i]
  <2> HIDE DEF a, s
  <2> DEFINE m == a + 1
             n == Len(s)
             S == Out(p)'
  <2>1. m \in Int /\ n \in Int /\ \A i \in m .. n : s[i] \in S
    BY <1>1, <1>2
  <2> HIDE DEF m, n, S
  <2>2. /\ SubSeq(s, m, n) \in Seq(S)
        /\ Len(SubSeq(s, m, n)) = IF m <= n THEN n - m + 1 ELSE 0
        /\ \A i \in 1 .. n - m + 1 : SubSeq(s, m, n)[i] = s[m + i - 1]
    BY <2>1, SubSeqProperties
  <2>3. QED
    BY <1>1, <2>2 DEF m, n, S
<1>4. QED
  BY <1>3 DEF Returned
-----------------------------------------------------------------------------
\* What asking for the lock, or being granted it, does to the connection.
Queued(t, call, frames) ==
    LET p == Owner(t) IN
    /\ backlog' = [backlog EXCEPT ![p] = Append(@, t)]
    /\ holder' \in {holder, [holder EXCEPT ![p] = NoTask]}
    /\ pc' = [pc EXCEPT ![t] = call]
    /\ outbox' = [outbox EXCEPT ![t] = frames]
    /\ UNCHANGED <<wire, ws>>

Wrote(t, call, frames, n) ==
    LET p == Owner(t) IN
    /\ wire' = [wire EXCEPT ![p] = @ \o SubSeq(frames, 1, n)]
    /\ \E rest \in {<<>>, SubSeq(frames, n + 1, Len(frames))} :
         outbox' = [outbox EXCEPT ![t] = rest]
    /\ \E h \in {t, NoTask} : holder' = [holder EXCEPT ![p] = h]
    /\ \E c \in {"idle", "closed", call} : pc' = [pc EXCEPT ![t] = c]
    /\ \E s \in {"open", "closed"} : ws' = [ws EXCEPT ![p] = s]

LEMMA WriteEffect ==
    ASSUME CapacityAssumption, ConnTypeOK, NEW t \in Tasks, NEW call, NEW S, NEW frames \in Seq(S),
           Write(t, call, frames)
    PROVE  \E n \in 0 .. Len(frames) : Wrote(t, call, frames, n)
<1> DEFINE p == Owner(t)
<1>0. p \in Endpoints /\ wire[p] \in Seq(Frames \cup {WsClose}) /\ ws[p] \in {"open", "closed"}
  BY OwnerType DEF ConnTypeOK
<1>1. CASE ws[p] = "closed"
  <2>1. wire[p] \o SubSeq(frames, 1, 0) = wire[p]
    BY <1>0
  <2>2. Wrote(t, call, frames, 0)
    BY <1>0, <1>1, <2>1 DEF Write, Wrote, Raised, ConnTypeOK
  <2>3. QED
    BY <2>2
<1>2. CASE ws[p] = "open"
  <2> DEFINE n == Burst(p, frames)
  <2>1. n \in 0 .. Len(frames)
    BY <1>0, CapacityAssumption DEF Burst
  <2> HIDE DEF n
  <2>2. Wrote(t, call, frames, n)
    BY <1>0, <1>2, <2>1 DEF Write, Wrote, ConnTypeOK, n
  <2>3. QED
    BY <2>1, <2>2
<1>3. QED
  BY <1>0, <1>1, <1>2

\* Part of a sequence, and a sequence with part of another behind it.
LEMMA PartType ==
    ASSUME NEW S, NEW s \in Seq(S), NEW r \in Seq(S), NEW n \in 0 .. Len(r)
    PROVE  /\ SubSeq(r, 1, n) \in Seq(S) /\ Len(SubSeq(r, 1, n)) = n
           /\ \A i \in 1 .. n : SubSeq(r, 1, n)[i] = r[i]
           /\ SubSeq(r, n + 1, Len(r)) \in Seq(S)
           /\ Len(SubSeq(r, n + 1, Len(r))) = Len(r) - n
           /\ \A i \in 1 .. Len(r) - n : SubSeq(r, n + 1, Len(r))[i] = r[n + i]
           /\ s \o SubSeq(r, 1, n) \in Seq(S)
           /\ Len(s \o SubSeq(r, 1, n)) = Len(s) + n
           /\ \A i \in 1 .. Len(s) + n : (s \o SubSeq(r, 1, n))[i] =
                 IF i <= Len(s) THEN s[i] ELSE r[i - Len(s)]
<1>1. /\ Len(r) \in Nat /\ Len(s) \in Nat /\ n \in Nat
      /\ \A i \in 1 .. Len(r) : r[i] \in S
  OBVIOUS
<1> DEFINE a == SubSeq(r, 1, n)
<1>2. /\ a \in Seq(S) /\ Len(a) = n /\ \A i \in 1 .. n : a[i] = r[i]
  <2>1. \A i \in 1 .. n : r[i] \in S
    BY <1>1
  <2>2. /\ a \in Seq(S)
        /\ Len(a) = IF 1 <= n THEN n - 1 + 1 ELSE 0
        /\ \A i \in 1 .. n - 1 + 1 : a[i] = r[1 + i - 1]
    BY <2>1, <1>1, SubSeqProperties
  <2> HIDE DEF a
  <2>3. QED
    BY <1>1, <2>2
<1> DEFINE m == n + 1
           l == Len(r)
           b == SubSeq(r, m, l)
<1>3. b \in Seq(S) /\ Len(b) = l - n /\ \A i \in 1 .. l - n : b[i] = r[n + i]
  <2>1. m \in Int /\ l \in Int /\ \A i \in m .. l : r[i] \in S
    BY <1>1
  <2> HIDE DEF m, l
  <2>2. /\ b \in Seq(S)
        /\ Len(b) = IF m <= l THEN l - m + 1 ELSE 0
        /\ \A i \in 1 .. l - m + 1 : b[i] = r[m + i - 1]
    BY <2>1, SubSeqProperties
  <2> HIDE DEF b
  <2>3. QED
    BY <1>1, <2>2 DEF m, l
<1> HIDE DEF a, b
<1>4. /\ s \o a \in Seq(S) /\ Len(s \o a) = Len(s) + Len(a)
      /\ \A i \in 1 .. Len(s) + Len(a) : (s \o a)[i] =
            IF i <= Len(s) THEN s[i] ELSE a[i - Len(s)]
  BY <1>2, ConcatProperties
<1>5. \A i \in 1 .. Len(s) + n : (s \o a)[i] =
            IF i <= Len(s) THEN s[i] ELSE r[i - Len(s)]
  BY <1>1, <1>2, <1>4
<1>6. QED
  BY <1>2, <1>3, <1>4, <1>5 DEF a, b

LEMMA JoinedType ==
    ASSUME NEW S, NEW T, NEW s \in Seq(S), NEW r \in Seq(T), NEW n \in 0 .. Len(r)
    PROVE  /\ s \o SubSeq(r, 1, n) \in Seq(S \cup T)
           /\ Len(s \o SubSeq(r, 1, n)) = Len(s) + n
           /\ \A i \in 1 .. Len(s) + n : (s \o SubSeq(r, 1, n))[i] =
                 IF i <= Len(s) THEN s[i] ELSE r[i - Len(s)]
<1> DEFINE U == S \cup T
<1>1. s \in Seq(U) /\ r \in Seq(U)
  BY SeqMonotonic
<1> HIDE DEF U
<1>2. QED
  BY <1>1, PartType DEF U

\* A waiter's leaving the queue makes no other queue.
LEMMA WithoutType ==
    ASSUME NEW S, NEW s \in Seq(S), NEW t PROVE Without(s, t) \in Seq(S)
<1>1. CASE ~\E i \in DOMAIN s : s[i] = t
  BY <1>1 DEF Without
<1>2. CASE \E i \in DOMAIN s : s[i] = t
  <2> DEFINE i == CHOOSE i \in DOMAIN s : s[i] = t
  <2>1. i \in 1 .. Len(s)
    BY <1>2
  <2> HIDE DEF i
  <2>2. SubSeq(s, 1, i - 1) \in Seq(S)
    BY <2>1, PartType
  <2>3. SubSeq(s, i + 1, Len(s)) \in Seq(S)
    BY <2>1, PartType
  <2>4. SubSeq(s, 1, i - 1) \o SubSeq(s, i + 1, Len(s)) \in Seq(S)
    BY <2>2, <2>3, ConcatProperties
  <2>5. QED
    BY <1>2, <2>4 DEF Without, i
<1>3. QED
  BY <1>1, <1>2

Calls == {"idle", "send", "close", "closed"}

\* What the connection's variables have to be after a step of the channels.
Settled ==
    /\ ConnTypeOK /\ FromSender
    /\ TypeOK'
    /\ \A p \in Endpoints : Out(p) \subseteq Out(p)'

LEMMA OutboxLarger ==
    ASSUME Settled, NEW p \in Endpoints
    PROVE  /\ wire[p] \in Seq(Out(p)')
           /\ \A t \in Tasks : Owner(t) = p => outbox[t] \in Seq(Out(p)')
BY SeqMonotonic DEF Settled, FromSender

LEMMA WiresTyped ==
    ASSUME TypeOK', FromSender',
           wire' = [q \in Endpoints |-> wire'[q]],
           outbox' = [u \in Tasks |-> outbox'[u]]
    PROVE  /\ wire' \in [Endpoints -> Seq(Frames \cup {WsClose})]
           /\ outbox' \in [Tasks -> Seq(Frames \cup {WsClose})]
<1>1. ASSUME NEW q \in Endpoints PROVE Out(q)' \subseteq Frames \cup {WsClose}
  <2>1. sent'[q] \in Seq(Frames)
    BY DEF TypeOK
  <2>2. QED
    BY <2>1 DEF Out
<1>2. ASSUME NEW q \in Endpoints PROVE wire'[q] \in Seq(Frames \cup {WsClose})
  BY <1>1, SeqMonotonic DEF FromSender
<1>3. ASSUME NEW u \in Tasks PROVE outbox'[u] \in Seq(Frames \cup {WsClose})
  <2>1. Out(Owner(u))' \subseteq Frames \cup {WsClose}
    BY <1>1, OwnerType
  <2>2. QED
    BY <2>1, SeqMonotonic DEF FromSender
<1>4. QED
  BY <1>2, <1>3

LEMMA WroteTyped ==
    ASSUME Settled, NEW t \in Tasks, NEW call \in Calls,
           NEW frames \in Seq(Out(Owner(t))'), NEW n \in 0 .. Len(frames),
           Wrote(t, call, frames, n),
           backlog' \in [Endpoints -> Seq(Tasks)]
    PROVE  ConnTypeOK' /\ FromSender'
<1> DEFINE p == Owner(t)
<1>1. p \in Endpoints
  BY OwnerType
<1>2. ASSUME NEW q \in Endpoints PROVE wire'[q] \in Seq(Out(q)')
  <2>1. wire[q] \in Seq(Out(q)')
    BY OutboxLarger
  <2>2. CASE q # p
    BY <2>1, <2>2 DEF Wrote, Settled, ConnTypeOK
  <2>3. CASE q = p
    <3>1. wire'[p] = wire[p] \o SubSeq(frames, 1, n)
      BY <1>1 DEF Wrote, Settled, ConnTypeOK
    <3>2. QED
      BY <2>1, <2>3, <3>1, PartType
  <2>4. QED
    BY <2>2, <2>3
<1>3. ASSUME NEW u \in Tasks PROVE outbox'[u] \in Seq(Out(Owner(u))')
  <2>1. outbox[u] \in Seq(Out(Owner(u))')
    BY OutboxLarger, OwnerType
  <2>2. CASE u # t
    BY <2>1, <2>2 DEF Wrote, Settled, ConnTypeOK
  <2>3. CASE u = t
    <3>1. outbox'[t] \in {<<>>, SubSeq(frames, n + 1, Len(frames))}
      BY DEF Wrote, Settled, ConnTypeOK
    <3>2. SubSeq(frames, n + 1, Len(frames)) \in Seq(Out(Owner(t))')
      BY PartType
    <3>3. <<>> \in Seq(Out(Owner(t))')
      OBVIOUS
    <3>4. QED
      BY <2>3, <3>1, <3>2, <3>3
  <2>4. QED
    BY <2>2, <2>3
<1>4. FromSender'
  BY <1>2, <1>3 DEF FromSender
<1>5. /\ wire' = [q \in Endpoints |-> wire'[q]]
      /\ outbox' = [u \in Tasks |-> outbox'[u]]
      /\ DOMAIN wire' = Endpoints /\ DOMAIN outbox' = Tasks
  BY DEF Wrote, Settled, ConnTypeOK
<1>6. /\ wire' \in [Endpoints -> Seq(Frames \cup {WsClose})]
      /\ outbox' \in [Tasks -> Seq(Frames \cup {WsClose})]
  BY <1>4, <1>5, WiresTyped DEF Settled
<1>7. /\ pc' \in [Tasks -> Calls]
      /\ holder' \in [Endpoints -> Tasks \cup {NoTask}]
      /\ ws' \in [Endpoints -> {"open", "closed"}]
  BY <1>1 DEF Wrote, Settled, ConnTypeOK, Calls
<1>8. QED
  BY <1>4, <1>6, <1>7 DEF ConnTypeOK, Settled, Calls

LEMMA QueuedTyped ==
    ASSUME Settled, NEW t \in Tasks, NEW call \in Calls,
           NEW frames \in Seq(Out(Owner(t))'),
           Queued(t, call, frames)
    PROVE  ConnTypeOK' /\ FromSender'
<1>1. Owner(t) \in Endpoints
  BY OwnerType
<1>2. \A q \in Endpoints : wire'[q] \in Seq(Out(q)')
  BY OutboxLarger DEF Queued
<1>3. ASSUME NEW u \in Tasks PROVE outbox'[u] \in Seq(Out(Owner(u))')
  <2>1. outbox[u] \in Seq(Out(Owner(u))')
    BY OutboxLarger, OwnerType
  <2>2. QED
    BY <2>1 DEF Queued, Settled, ConnTypeOK
<1>4. FromSender'
  BY <1>2, <1>3 DEF FromSender
<1>5. /\ wire' = [q \in Endpoints |-> wire'[q]]
      /\ outbox' = [u \in Tasks |-> outbox'[u]]
  BY DEF Queued, Settled, ConnTypeOK
<1>6. /\ wire' \in [Endpoints -> Seq(Frames \cup {WsClose})]
      /\ outbox' \in [Tasks -> Seq(Frames \cup {WsClose})]
  BY <1>4, <1>5, WiresTyped DEF Settled
<1>7. /\ pc' \in [Tasks -> Calls]
      /\ ws' \in [Endpoints -> {"open", "closed"}]
  BY DEF Queued, Settled, ConnTypeOK, Calls
<1>8. holder' \in [Endpoints -> Tasks \cup {NoTask}]
  BY DEF Queued, Settled, ConnTypeOK
<1>9. backlog' \in [Endpoints -> Seq(Tasks)]
  <2>1. Append(backlog[Owner(t)], t) \in Seq(Tasks)
    BY <1>1, AppendProperties DEF Settled, ConnTypeOK
  <2>2. QED
    BY <2>1 DEF Queued, Settled, ConnTypeOK
<1>10. QED
  BY <1>4, <1>6, <1>7, <1>8, <1>9 DEF ConnTypeOK, Settled, Calls

LEMMA QuietTyped ==
    ASSUME Settled, UNCHANGED connVars
    PROVE  ConnTypeOK' /\ FromSender'
<1>1. FromSender'
  BY OutboxLarger, OwnerType DEF FromSender, connVars
<1>2. QED
  BY <1>1 DEF ConnTypeOK, Settled, connVars

LEMMA AcquireTyped ==
    ASSUME CapacityAssumption, Settled, NEW t \in Tasks, NEW call \in Calls,
           NEW frames \in Seq(Out(Owner(t))'),
           Acquire(t, call, frames)
    PROVE  ConnTypeOK' /\ FromSender'
<1>1. CASE Write(t, call, frames) /\ UNCHANGED backlog
  <2>1. PICK n \in 0 .. Len(frames) : Wrote(t, call, frames, n)
    BY <1>1, WriteEffect DEF Settled
  <2>2. backlog' \in [Endpoints -> Seq(Tasks)]
    BY <1>1 DEF Settled, ConnTypeOK
  <2>3. QED
    BY <2>1, <2>2, WroteTyped
<1>2. CASE Queued(t, call, frames)
  BY <1>2, QueuedTyped
<1>3. Queued(t, call, frames) \/ (Write(t, call, frames) /\ UNCHANGED backlog)
  <2> DEFINE p == Owner(t)
  <2>1. holder = [holder EXCEPT ![p] = holder[p]]
    BY DEF Settled, ConnTypeOK
  <2>2. [holder EXCEPT ![p] = IF @ = t THEN NoTask ELSE @]
          \in {holder, [holder EXCEPT ![p] = NoTask]}
    BY <2>1
  <2>3. CASE holder[p] \in {NoTask, t} /\ backlog[p] = <<>>
    BY <2>3 DEF Acquire
  <2>4. CASE ~(holder[p] \in {NoTask, t} /\ backlog[p] = <<>>)
    <3>1. holder' \in {holder, [holder EXCEPT ![p] = NoTask]}
      BY <2>2, <2>4 DEF Acquire
    <3>2. /\ backlog' = [backlog EXCEPT ![p] = Append(@, t)]
          /\ pc' = [pc EXCEPT ![t] = call]
          /\ outbox' = [outbox EXCEPT ![t] = frames]
          /\ UNCHANGED <<wire, ws>>
      BY <2>4 DEF Acquire
    <3>3. QED
      BY <3>1, <3>2 DEF Queued
  <2>5. QED
    BY <2>3, <2>4
<1>4. QED
  BY <1>1, <1>2, <1>3

ConnInv == ConnTypeOK /\ FromSender

\* A step of a connection is a step of the channels, or one they do not see.
LEMMA ChannelStep ==
    ASSUME ConnInv, ConnNext
    PROVE  [Next]_vars
<1> USE DEF Next
<1>1. ASSUME NEW p \in Endpoints, Recv(p) PROVE [Next]_vars
  <2> DEFINE f == Head(wire[Peer(p)])
  <2>1. wire[Peer(p)] \in Seq(Out(Peer(p))) /\ wire[Peer(p)] # <<>> /\ f # WsClose
    BY <1>1, PeerType DEF Recv, ConnInv, FromSender
  <2>2. f \in Out(Peer(p))
    BY <2>1
  <2>3. f \in Network(p)
    BY <2>1, <2>2 DEF Out, Network
  <2>4. QED
    BY <1>1, <2>3 DEF Recv
<1>2. ASSUME NEW t \in Tasks, NEW m \in Msgs, Send(t, m) PROVE [Next]_vars
  BY <1>2, OwnerType DEF Send
<1>3. ASSUME NEW t \in Tasks, SendRaises(t) \/ CloseRaises(t) PROVE [Next]_vars
  BY <1>3, OwnerType DEF SendRaises, CloseRaises
<1>4. ASSUME NEW t \in Tasks, Close(t) \/ CloseSocketOnly(t) PROVE [Next]_vars
  BY <1>4, OwnerType DEF Close, CloseSocketOnly
<1>5. CASE PolicyClock
  BY <1>5, OwnerType DEF PolicyClock
<1>6. ASSUME NEW t \in Tasks, DrainDone(t) \/ Cancel(t) PROVE [Next]_vars
  BY <1>6 DEF DrainDone, Cancel
<1>7. ASSUME NEW p \in Endpoints, Grant(p) \/ PeerClosed(p) PROVE [Next]_vars
  BY <1>7 DEF Grant, PeerClosed
<1>8. CASE ConnectionLost
  BY <1>8 DEF ConnectionLost
<1>9. QED
  BY <1>1, <1>2, <1>3, <1>4, <1>5, <1>6, <1>7, <1>8 DEF ConnNext, System

LEMMA InitConn == ConnInit => ConnInv /\ IInv
<1> SUFFICES ASSUME ConnInit PROVE ConnInv /\ IInv
  OBVIOUS
<1>1. IInv
  BY InitInv DEF ConnInit
<1>2. ConnTypeOK
  BY <1>1, EmptySeq DEF ConnInit, ConnTypeOK, IInv, SessionInv
<1>3. FromSender
  BY OwnerType, EmptySeq DEF ConnInit, FromSender
<1>4. QED
  BY <1>1, <1>2, <1>3 DEF ConnInv

LEMMA StepConn ==
    ASSUME CapacityAssumption, ConnInv, IInv, [ConnNext]_allVars
    PROVE  ConnInv' /\ IInv'
<1>1. [Next]_vars
  BY ChannelStep DEF allVars
<1>2. IInv'
  BY <1>1, NextInv
<1>3. TypeOK /\ TypeOK' /\ \A p \in Endpoints : Grows(sent[p], sent'[p])
  BY <1>1, <1>2, SentGrows DEF IInv, SessionInv
<1>4. Settled
  BY <1>2, <1>3, OutGrows DEF Settled, ConnInv, IInv, SessionInv
<1> USE DEF ConnInv
<1>5. ASSUME NEW t \in Tasks, NEW m \in Msgs, Send(t, m) PROVE ConnInv'
  <2>1. Returned(Owner(t)) \in Seq(Out(Owner(t))')
    BY <1>3, OwnerType, ReturnedType
  <2>2. QED
    BY <1>4, <1>5, <2>1, AcquireTyped DEF Send, Calls
<1>6. ASSUME NEW t \in Tasks, Close(t) PROVE ConnInv'
  <2>1. Returned(Owner(t)) \in Seq(Out(Owner(t))')
    BY <1>3, OwnerType, ReturnedType
  <2>2. CloseFrames(Owner(t)) \in Seq(Out(Owner(t))')
    BY <2>1, AppendProperties DEF CloseFrames, Out
  <2>3. QED
    BY <1>4, <1>6, <2>2, AcquireTyped DEF Close, Calls
<1>7. ASSUME NEW t \in Tasks, CloseSocketOnly(t) PROVE ConnInv'
  <2>1. <<WsClose>> \in Seq(Out(Owner(t))')
    BY DEF Out
  <2>2. QED
    BY <1>4, <1>7, <2>1, AcquireTyped DEF CloseSocketOnly, Calls
<1>8. ASSUME NEW t \in Tasks, SendRaises(t) \/ CloseRaises(t) PROVE ConnInv'
  BY <1>4, <1>8, QuietTyped DEF SendRaises, CloseRaises
<1>9. ASSUME NEW t \in Tasks, DrainDone(t) PROVE ConnInv'
  <2>1. CASE outbox[t] # <<>>
    <3>1. outbox[t] \in Seq(Out(Owner(t))') /\ pc[t] \in Calls
      BY <1>4, OutboxLarger, OwnerType DEF Settled, ConnTypeOK, Calls
    <3>2. QED
      BY <1>4, <1>9, <2>1, <3>1, AcquireTyped DEF DrainDone
  <2>2. CASE outbox[t] = <<>>
    <3>1. UNCHANGED <<sent, outbox, backlog, wire, ws>>
      BY <1>9, <2>2 DEF DrainDone, vars, sender
    <3>2. FromSender'
      BY <3>1 DEF FromSender, Out
    <3>3. pc' = [pc EXCEPT ![t] = "idle"] /\ holder' = [holder EXCEPT ![Owner(t)] = NoTask]
      BY <1>9, <2>2 DEF DrainDone
    <3>4. QED
      BY <1>3, <3>1, <3>2, <3>3 DEF ConnTypeOK
  <2>3. QED
    BY <2>1, <2>2
<1>10. ASSUME NEW p \in Endpoints, Grant(p) PROVE ConnInv'
  <2>0. Head(backlog[p]) \in Tasks /\ backlog' \in [Endpoints -> Seq(Tasks)]
    BY <1>10 DEF Grant, ConnTypeOK
  <2> PICK t \in Tasks : t = Head(backlog[p])
    BY <2>0
  <2>1. t \in Tasks /\ backlog' \in [Endpoints -> Seq(Tasks)]
    BY <2>0
  <2>3. Write(t, pc[t], outbox[t])
    BY <1>10 DEF Grant
  <2>2. outbox[t] \in Seq(Out(Owner(t))') /\ pc[t] \in Calls
    <3>1. Owner(t) \in Endpoints
      BY <2>1, OwnerType
    <3>2. outbox[t] \in Seq(Out(Owner(t))')
      BY <1>4, <2>1, <3>1, OutboxLarger
    <3>3. QED
      BY <2>1, <3>2 DEF ConnTypeOK, Calls
  <2>4. PICK n \in 0 .. Len(outbox[t]) : Wrote(t, pc[t], outbox[t], n)
    BY <2>1, <2>2, <2>3, WriteEffect
  <2>5. ConnTypeOK' /\ FromSender'
    BY <1>4, <2>1, <2>2, <2>4, WroteTyped
  <2>6. QED
    BY <2>5
<1>11. ASSUME NEW t \in Tasks, Cancel(t) PROVE ConnInv'
  <2>1. Owner(t) \in Endpoints /\ UNCHANGED <<sent, wire, ws>>
    BY <1>11, OwnerType DEF Cancel, vars, sender
  <2>2. FromSender'
    <3>1. outbox' = [outbox EXCEPT ![t] = <<>>]
      BY <1>11 DEF Cancel
    <3>2. \A u \in Tasks : outbox'[u] \in Seq(Out(Owner(u)))
      BY <3>1, EmptySeq DEF FromSender, ConnTypeOK
    <3>3. QED
      BY <2>1, <3>2 DEF FromSender, Out
  <2>3. Without(backlog[Owner(t)], t) \in Seq(Tasks)
    BY <2>1, WithoutType DEF ConnTypeOK
  <2>4. backlog' \in [Endpoints -> Seq(Tasks)]
    BY <1>11, <2>3 DEF Cancel, ConnTypeOK
  <2>5. QED
    BY <1>3, <1>11, <2>1, <2>2, <2>4, EmptySeq DEF Cancel, ConnTypeOK
<1>12. ASSUME NEW p \in Endpoints, Recv(p) PROVE ConnInv'
  <2> DEFINE q == Peer(p)
  <2>1. q \in Endpoints /\ wire[q] \in Seq(Out(q)') /\ wire[q] # <<>>
    BY <1>4, <1>12, PeerType, OutboxLarger DEF Recv
  <2>2. wire' = [wire EXCEPT ![q] = Tail(@)] /\ UNCHANGED <<pc, outbox, holder, backlog, ws>>
    BY <1>12 DEF Recv
  <2>3. Tail(wire[q]) \in Seq(Out(q)')
    BY <2>1, HeadTailProperties
  <2>4. FromSender'
    BY <1>4, <2>1, <2>2, <2>3, OutboxLarger, OwnerType DEF FromSender, ConnTypeOK
  <2>5. QED
    BY <1>3, <2>2, <2>4, WiresTyped DEF ConnTypeOK
<1>13. ASSUME NEW p \in Endpoints, PeerClosed(p) PROVE ConnInv'
  <2>1. UNCHANGED <<sent, pc, outbox, holder, backlog, wire>>
    BY <1>13 DEF PeerClosed, vars, sender
  <2>2. FromSender'
    BY <2>1 DEF FromSender, Out
  <2>3. QED
    BY <1>3, <1>13, <2>1, <2>2 DEF PeerClosed, ConnTypeOK
<1>14. ASSUME ConnectionLost PROVE ConnInv'
  <2>1. UNCHANGED <<sent, pc, outbox, holder, backlog>>
    BY <1>14 DEF ConnectionLost, vars, sender
  <2>2. PICK arrived \in [Endpoints -> 0 .. MaxSeq + 1] :
          /\ \A p \in Endpoints : arrived[p] <= Len(wire[p])
          /\ wire' = [p \in Endpoints |-> SubSeq(wire[p], 1, arrived[p])]
    BY <1>14 DEF ConnectionLost
  <2>3. ASSUME NEW p \in Endpoints PROVE wire'[p] \in Seq(Out(p))
    <3>1. wire[p] \in Seq(Out(p)) /\ arrived[p] \in 0 .. Len(wire[p])
      BY <2>2, MaxSeqAssumption DEF FromSender
    <3>2. QED
      BY <2>2, <3>1, PartType
  <2>4. FromSender'
    BY <2>1, <2>3 DEF FromSender, Out
  <2>5. QED
    BY <1>3, <1>14, <2>1, <2>2, <2>4, WiresTyped DEF ConnectionLost, ConnTypeOK
<1>15. ASSUME PolicyClock PROVE ConnInv'
  BY <1>4, <1>15, QuietTyped DEF PolicyClock
<1>16. ASSUME UNCHANGED allVars PROVE ConnInv'
  BY <1>4, <1>16, QuietTyped DEF allVars
<1>17. QED
  BY <1>2, <1>5, <1>6, <1>7, <1>8, <1>9, <1>10, <1>11, <1>12, <1>13, <1>14, <1>15, <1>16
    DEF ConnNext, System

LEMMA ConnInvHolds == ConnSpec => [](ConnInv /\ IInv)
<1>1. ConnInv /\ IInv /\ [ConnNext]_allVars => (ConnInv /\ IInv)'
  BY CapacityAssumption, StepConn
<1>2. QED
  BY InitConn, <1>1, PTL DEF ConnSpec

(* The variables of the connections keep their types.                      *)
THEOREM ConnTypeCorrect == ConnSpec => []ConnTypeOK
<1>1. ConnInv => ConnTypeOK
  BY DEF ConnInv
<1>2. QED
  BY <1>1, ConnInvHolds, PTL

(* Whatever the tasks, locks, cancellations and the WebSocket do, the two  *)
(* channels see only what the channel model's network may do: everything   *)
(* proved of SecureChannel holds of the connections.                       *)
THEOREM ConnectionUsesChannel == ConnSpec => Spec
<1>1. ConnInit => Init
  BY DEF ConnInit
<1>2. ConnInv /\ [ConnNext]_allVars => [Next]_vars
  BY ChannelStep DEF allVars
<1>3. QED
  BY <1>1, <1>2, ConnInvHolds, PTL DEF ConnSpec, Spec

(* So what the peer's program gets is a prefix of what was encrypted for   *)
(* it, and a CLOSE is an orderly end, with any number of tasks, cancelled  *)
(* at any await, over a connection that breaks at any point.               *)
THEOREM ConnectionInOrder == ConnSpec => [](InOrderPrefix /\ CloseMeansComplete)
BY ConnectionUsesChannel, InOrder, CloseIsComplete, PTL
-----------------------------------------------------------------------------
(* What runs out first.                                                    *)

\* The nonce never gets ahead of the sequence number: failed calls spend
\* numbers of the channel, of the cipher at most as many.
NonceBehind == \A p \in Endpoints : sendCipher[p].n <= sendSeq[p]

LEMMA NonceStaysBehind == Spec => [](TypeOK /\ NonceBehind)
<1>1. Init => NonceBehind
  BY DEF Init, NonceBehind
<1>2. TypeOK /\ NonceBehind /\ [Next]_vars => NonceBehind'
  <2> SUFFICES ASSUME TypeOK, NonceBehind, [Next]_vars, NEW q \in Endpoints
               PROVE  sendCipher'[q].n <= sendSeq'[q]
    BY DEF NonceBehind
  <2>1. /\ sendSeq \in [Endpoints -> 0 .. RetryBound + 1]
        /\ sendCipher \in [Endpoints -> Ciphers]
        /\ sendSeq[q] \in Int /\ sendCipher[q].n \in Int
        /\ sendCipher[q].n <= sendSeq[q]
    BY DEF TypeOK, NonceBehind, Ciphers, RetryBound
  <2>2. ASSUME NEW p \in Endpoints, NEW m \in Msgs, EncryptPlain(p, m)
        PROVE  sendCipher'[q].n <= sendSeq'[q]
    BY <2>1, <2>2 DEF EncryptPlain, Advance, Ciphers
  <2>3. ASSUME NEW p \in Endpoints, NEW m \in Msgs, EncryptAfterRekey(p, m)
        PROVE  sendCipher'[q].n <= sendSeq'[q]
    BY <2>1, <2>3 DEF EncryptAfterRekey, Advance, Ratchet, Ciphers
  <2>4. ASSUME NEW p \in Endpoints, EmitFails(p)
        PROVE  sendCipher'[q].n <= sendSeq'[q]
    BY <2>1, <2>4 DEF EmitFails
  <2>5. ASSUME NEW p \in Endpoints, EncryptFailsAfterRekey(p)
        PROVE  sendCipher'[q].n <= sendSeq'[q]
    BY <2>1, <2>5 DEF EncryptFailsAfterRekey, Advance, Ratchet, Ciphers
  <2>6. ASSUME NEW p \in Endpoints, CloseFrame(p)
        PROVE  sendCipher'[q].n <= sendSeq'[q]
    BY <2>1, <2>6 DEF CloseFrame, Advance, Ciphers
  <2>7. CASE UNCHANGED <<sendSeq, sendCipher>>
    BY <2>1, <2>7
  <2>8. QED
    BY <2>2, <2>3, <2>4, <2>5, <2>6, <2>7
      DEF Next, Tick, Decrypt, DecryptAccepts, DecryptRaises, vars, sender
<1>3. QED BY <1>1, <1>2, ChannelTypeCorrect, PTL DEF Spec

(* A close() that ends in the Noise library's own error has spent the last *)
(* sequence number of its side: the next one closes the socket             *)
(* (transport.py close), however many calls have failed, in whichever of   *)
(* their frames, and wherever the limits lie.                              *)
THEOREM CloseFailsOnceOnly == ConnSpec => CloseFailsOnce
<1>1. ASSUME TypeOK, NonceBehind, NEW t \in Tasks, CloseRaises(t)
      PROVE  sendSeq'[Owner(t)] > MaxSeq
  <2> DEFINE p == Owner(t)
  <2>1. /\ p \in Endpoints
        /\ sendSeq[p] <= MaxSeq /\ ~CanEmit(sendSeq[p], sendCipher[p].n)
        /\ sendSeq' = [sendSeq EXCEPT ![p] = @ + 1]
    BY <1>1, OwnerType DEF CloseRaises, EmitFails
  <2>2. /\ sendSeq \in [Endpoints -> 0 .. RetryBound + 1]
        /\ sendSeq[p] \in Int /\ sendCipher[p].n \in Int
        /\ sendCipher[p].n <= sendSeq[p]
    BY <1>1, <2>1 DEF TypeOK, NonceBehind, Ciphers, RetryBound
  <2> HIDE DEF p
  <2>3. sendSeq'[p] = sendSeq[p] + 1 /\ ~(sendCipher[p].n < MaxSeq)
    BY <2>1, <2>2 DEF CanEmit
  <2>4. sendSeq'[p] > MaxSeq
    BY <2>2, <2>3
  <2>5. QED BY <2>4 DEF p
<1>2. TypeOK /\ NonceBehind /\ [ConnNext]_allVars =>
          [\A t \in Tasks : CloseRaises(t) => sendSeq'[Owner(t)] > MaxSeq]_allVars
  BY <1>1
<1>3. ConnSpec => [](TypeOK /\ NonceBehind)
  BY ConnectionUsesChannel, NonceStaysBehind
<1>4. QED BY <1>2, <1>3, PTL DEF ConnSpec, CloseFailsOnce
-----------------------------------------------------------------------------
(* A lost frame stays lost.                                                *)

Carries(s, f) == \E i \in DOMAIN s : s[i] = f

\* Where the members of a concatenation and of a part come from.
LEMMA CarriesParts ==
    ASSUME NEW S, NEW s \in Seq(S), NEW r \in Seq(S), NEW n \in 0 .. Len(r), NEW f
    PROVE  /\ Carries(s \o SubSeq(r, 1, n), f) => Carries(s, f) \/ Carries(r, f)
           /\ Carries(SubSeq(r, n + 1, Len(r)), f) => Carries(r, f)
<1> DEFINE w == s \o SubSeq(r, 1, n)
           v == SubSeq(r, n + 1, Len(r))
<1>1. /\ w \in Seq(S) /\ Len(w) = Len(s) + n
      /\ \A i \in 1 .. Len(s) + n : w[i] = IF i <= Len(s) THEN s[i] ELSE r[i - Len(s)]
      /\ v \in Seq(S) /\ Len(v) = Len(r) - n
      /\ \A i \in 1 .. Len(r) - n : v[i] = r[n + i]
  BY PartType
<1>2. Len(s) \in Nat /\ Len(r) \in Nat /\ n \in Nat /\ n <= Len(r)
  OBVIOUS
<1> HIDE DEF w, v
<1>3. ASSUME NEW i \in DOMAIN w, w[i] = f PROVE Carries(s, f) \/ Carries(r, f)
  <2>1. i \in 1 .. Len(s) + n
    BY <1>1
  <2>a. w[i] = IF i <= Len(s) THEN s[i] ELSE r[i - Len(s)]
    BY <1>1, <2>1
  <2>2. CASE i <= Len(s)
    <3>1. i \in DOMAIN s /\ w[i] = s[i]
      BY <1>2, <2>1, <2>a, <2>2
    <3>2. QED
      BY <1>3, <3>1 DEF Carries
  <2>3. CASE ~(i <= Len(s))
    <3>1. i - Len(s) \in 1 .. Len(r) /\ w[i] = r[i - Len(s)]
      BY <1>2, <2>1, <2>a, <2>3
    <3>2. i - Len(s) \in DOMAIN r
      BY <3>1
    <3>3. QED
      BY <1>3, <3>1, <3>2 DEF Carries
  <2>4. QED
    BY <2>2, <2>3
<1>4. ASSUME NEW i \in DOMAIN v, v[i] = f PROVE Carries(r, f)
  <2>1. n + i \in DOMAIN r /\ v[i] = r[n + i]
    BY <1>1, <1>2
  <2>2. QED
    BY <1>4, <2>1 DEF Carries
<1>5. QED
  BY <1>3, <1>4 DEF Carries, w, v

LEMMA WroteCarries ==
    ASSUME ConnTypeOK, NEW t \in Tasks, NEW call, NEW S, NEW frames \in Seq(S),
           NEW n \in 0 .. Len(frames), Wrote(t, call, frames, n),
           NEW q \in Endpoints, NEW f, InTransit(q, f)'
    PROVE  InTransit(q, f) \/ (Owner(t) = q /\ Carries(frames, f))
<1> DEFINE p == Owner(t)
           U == S \cup Frames \cup {WsClose}
<1>1. p \in Endpoints /\ wire[p] \in Seq(Frames \cup {WsClose})
  BY OwnerType DEF ConnTypeOK
<1>2. wire[p] \in Seq(U) /\ frames \in Seq(U)
  BY <1>1, SeqMonotonic
<1> HIDE DEF U
<1>3. CASE \E i \in DOMAIN wire'[q] : wire'[q][i] = f
  <2>1. CASE q # p
    BY <1>3, <2>1 DEF Wrote, ConnTypeOK, InTransit
  <2>2. CASE q = p
    <3>1. wire'[p] = wire[p] \o SubSeq(frames, 1, n)
      BY <1>1 DEF Wrote, ConnTypeOK
    <3>2. Carries(wire[p], f) \/ Carries(frames, f)
      <4>1. Carries(wire[p] \o SubSeq(frames, 1, n), f)
        BY <1>3, <2>2, <3>1 DEF Carries
      <4>2. QED
        BY <1>2, <4>1, CarriesParts
    <3>3. QED
      BY <2>2, <3>2 DEF Carries, InTransit
  <2>3. QED
    BY <2>1, <2>2
<1>4. CASE \E u \in Tasks : Owner(u) = q /\ \E i \in DOMAIN outbox'[u] : outbox'[u][i] = f
  <2>1. PICK u \in Tasks : Owner(u) = q /\ \E i \in DOMAIN outbox'[u] : outbox'[u][i] = f
    BY <1>4
  <2>2. CASE u # t
    BY <2>1, <2>2 DEF Wrote, ConnTypeOK, InTransit
  <2>3. CASE u = t
    <3>1. outbox'[t] \in {<<>>, SubSeq(frames, n + 1, Len(frames))}
      BY DEF Wrote, ConnTypeOK
    <3>2. Carries(SubSeq(frames, n + 1, Len(frames)), f)
      <4>1. Carries(outbox'[t], f)
        BY <2>1, <2>3 DEF Carries
      <4>2. ~Carries(<<>>, f)
        BY DEF Carries
      <4>3. QED
        BY <3>1, <4>1, <4>2
    <3>3. QED
      BY <1>2, <2>1, <2>3, <3>2, CarriesParts
  <2>4. QED
    BY <2>2, <2>3
<1>5. QED
  BY <1>3, <1>4 DEF InTransit

LEMMA AcquireCarries ==
    ASSUME CapacityAssumption, ConnTypeOK, NEW t \in Tasks, NEW call, NEW S,
           NEW frames \in Seq(S), Acquire(t, call, frames),
           NEW q \in Endpoints, NEW f, InTransit(q, f)'
    PROVE  InTransit(q, f) \/ (Owner(t) = q /\ Carries(frames, f))
<1>1. CASE Write(t, call, frames)
  <2>1. PICK n \in 0 .. Len(frames) : Wrote(t, call, frames, n)
    BY <1>1, WriteEffect
  <2>2. QED
    BY <2>1, WroteCarries
<1>2. CASE outbox' = [outbox EXCEPT ![t] = frames] /\ wire' = wire
  BY <1>2 DEF ConnTypeOK, InTransit, Carries
<1>3. QED
  BY <1>1, <1>2 DEF Acquire

\* What is under way after a step was so before, or was encrypted in it.
LEMMA Sources ==
    ASSUME CapacityAssumption, ConnInv, IInv, IInv', [ConnNext]_allVars,
           NEW q \in Endpoints, NEW f \in Frames, InTransit(q, f)'
    PROVE  \/ InTransit(q, f)
           \/ \E i \in Len(sent[q]) + 1 .. Len(sent'[q]) : f = sent'[q][i]
<1> USE DEF ConnInv
<1>0. f # WsClose
  BY CloseIsNoFrame
<1>1. [Next]_vars
  BY ChannelStep DEF allVars
<1>2. TypeOK /\ TypeOK' /\ \A p \in Endpoints : Grows(sent[p], sent'[p])
  BY <1>1, SentGrows DEF IInv, SessionInv
<1>3. ASSUME NEW t \in Tasks, Owner(t) = q, Carries(Returned(Owner(t)), f)
      PROVE  \E i \in Len(sent[q]) + 1 .. Len(sent'[q]) : f = sent'[q][i]
  <2>1. /\ Returned(q) \in Seq(Out(q)')
        /\ Len(Returned(q)) = Len(sent'[q]) - Len(sent[q])
        /\ \A i \in 1 .. Len(Returned(q)) : Returned(q)[i] = sent'[q][Len(sent[q]) + i]
    BY <1>2, ReturnedType
  <2>2. PICK i \in 1 .. Len(Returned(q)) : Returned(q)[i] = f
    BY <1>3, <2>1 DEF Carries
  <2>3. f = sent'[q][Len(sent[q]) + i]
    BY <2>1, <2>2
  <2>4. Len(sent[q]) \in Nat /\ Len(sent'[q]) \in Nat
    BY <1>2 DEF TypeOK
  <2>5. Len(sent[q]) + i \in Len(sent[q]) + 1 .. Len(sent'[q])
    <3> DEFINE a == Len(sent[q])
               b == Len(sent'[q])
               l == Len(Returned(q))
    <3>1. a \in Nat /\ b \in Nat /\ l = b - a /\ i \in 1 .. l
      BY <2>1, <2>4
    <3> HIDE DEF a, b, l
    <3>2. a + i \in a + 1 .. b
      BY <3>1
    <3>3. QED
      BY <3>2 DEF a, b
  <2>6. QED
    BY <2>3, <2>5
<1>4. ASSUME NEW t \in Tasks, NEW m \in Msgs, Send(t, m) PROVE
        \/ InTransit(q, f)
        \/ \E i \in Len(sent[q]) + 1 .. Len(sent'[q]) : f = sent'[q][i]
  <2>1. Returned(Owner(t)) \in Seq(Out(Owner(t))')
    BY <1>2, OwnerType, ReturnedType
  <2>2. Acquire(t, "send", Returned(Owner(t)))
    BY <1>4 DEF Send
  <2>3. InTransit(q, f) \/ (Owner(t) = q /\ Carries(Returned(Owner(t)), f))
    BY <2>1, <2>2, AcquireCarries
  <2>4. QED
    BY <1>3, <2>3
<1>5. ASSUME NEW t \in Tasks, Close(t) PROVE
        \/ InTransit(q, f)
        \/ \E i \in Len(sent[q]) + 1 .. Len(sent'[q]) : f = sent'[q][i]
  <2> DEFINE c == CloseFrames(Owner(t))
             S == Out(Owner(t))'
  <2>1. Returned(Owner(t)) \in Seq(S)
    BY <1>2, OwnerType, ReturnedType
  <2>2. WsClose \in S
    BY DEF Out
  <2>3. /\ c \in Seq(S) /\ Len(c) = Len(Returned(Owner(t))) + 1
        /\ \A i \in 1 .. Len(Returned(Owner(t))) : c[i] = Returned(Owner(t))[i]
        /\ c[Len(Returned(Owner(t))) + 1] = WsClose
    BY <2>1, <2>2, AppendProperties DEF CloseFrames
  <2>4. Acquire(t, "close", c)
    BY <1>5 DEF Close
  <2> HIDE DEF c, S
  <2>5. InTransit(q, f) \/ (Owner(t) = q /\ Carries(c, f))
    BY <2>3, <2>4, AcquireCarries
  <2>6. Carries(c, f) => Carries(Returned(Owner(t)), f)
    BY <1>0, <2>1, <2>3 DEF Carries
  <2>7. QED
    BY <1>3, <2>5, <2>6
<1>6. ASSUME NEW t \in Tasks, CloseSocketOnly(t) PROVE InTransit(q, f)
  <2>1. Acquire(t, "close", <<WsClose>>) /\ <<WsClose>> \in Seq({WsClose})
    BY <1>6 DEF CloseSocketOnly
  <2>2. InTransit(q, f) \/ (Owner(t) = q /\ Carries(<<WsClose>>, f))
    BY <2>1, AcquireCarries
  <2>3. QED
    BY <1>0, <2>2 DEF Carries
<1>7. ASSUME NEW t \in Tasks, DrainDone(t) PROVE InTransit(q, f)
  <2>1. CASE Acquire(t, pc[t], outbox[t])
    <3>1. outbox[t] \in Seq(Frames \cup {WsClose})
      BY DEF ConnTypeOK
    <3>2. InTransit(q, f) \/ (Owner(t) = q /\ Carries(outbox[t], f))
      BY <2>1, <3>1, AcquireCarries
    <3>3. QED
      BY <3>2 DEF Carries, InTransit
  <2>2. CASE UNCHANGED <<outbox, wire>>
    BY <2>2 DEF InTransit
  <2>3. QED
    BY <1>7, <2>1, <2>2 DEF DrainDone
<1>8. ASSUME NEW p \in Endpoints, Grant(p) PROVE InTransit(q, f)
  <2>0. Head(backlog[p]) \in Tasks
    BY <1>8 DEF Grant, ConnTypeOK
  <2> PICK t \in Tasks : t = Head(backlog[p])
    BY <2>0
  <2>1. outbox[t] \in Seq(Frames \cup {WsClose}) /\ Write(t, pc[t], outbox[t])
    BY <1>8 DEF Grant, ConnTypeOK
  <2>2. PICK n \in 0 .. Len(outbox[t]) : Wrote(t, pc[t], outbox[t], n)
    BY <2>1, WriteEffect
  <2>3. InTransit(q, f) \/ (Owner(t) = q /\ Carries(outbox[t], f))
    BY <2>1, <2>2, WroteCarries
  <2>4. QED
    BY <2>3 DEF Carries, InTransit
<1>9. ASSUME NEW t \in Tasks, Cancel(t) PROVE InTransit(q, f)
  <2>1. outbox' = [outbox EXCEPT ![t] = <<>>] /\ wire' = wire
    BY <1>9 DEF Cancel
  <2>2. QED
    BY <2>1 DEF InTransit, ConnTypeOK
<1>10. ASSUME NEW p \in Endpoints, Recv(p) PROVE InTransit(q, f)
  <2> DEFINE o == Peer(p)
  <2>1. /\ o \in Endpoints /\ wire[o] \in Seq(Frames \cup {WsClose}) /\ wire[o] # <<>>
        /\ wire' = [wire EXCEPT ![o] = Tail(@)] /\ outbox' = outbox
    BY <1>10, PeerType DEF Recv, ConnTypeOK
  <2>2. /\ Len(Tail(wire[o])) = Len(wire[o]) - 1
        /\ \A i \in 1 .. Len(Tail(wire[o])) : Tail(wire[o])[i] = wire[o][i + 1]
        /\ Tail(wire[o]) \in Seq(Frames \cup {WsClose})
    BY <2>1, HeadTailProperties
  <2>3. CASE q = o
    <3>1. ASSUME NEW i \in DOMAIN wire'[q], wire'[q][i] = f PROVE InTransit(q, f)
      <4>1. i + 1 \in DOMAIN wire[q] /\ wire[q][i + 1] = f
        BY <2>1, <2>2, <2>3, <3>1 DEF ConnTypeOK
      <4>2. QED
        BY <4>1 DEF InTransit
    <3>2. QED
      BY <2>1, <3>1 DEF InTransit
  <2>4. CASE q # o
    BY <2>1, <2>4 DEF InTransit, ConnTypeOK
  <2>5. QED
    BY <2>3, <2>4
<1>11. ASSUME ConnectionLost PROVE InTransit(q, f)
  <2>1. PICK arrived \in [Endpoints -> 0 .. MaxSeq + 1] :
          /\ \A p \in Endpoints : arrived[p] <= Len(wire[p])
          /\ wire' = [p \in Endpoints |-> SubSeq(wire[p], 1, arrived[p])]
    BY <1>11 DEF ConnectionLost
  <2>2. wire[q] \in Seq(Frames \cup {WsClose}) /\ arrived[q] \in 0 .. Len(wire[q])
    BY <2>1, MaxSeqAssumption DEF ConnTypeOK
  <2>3. /\ wire'[q] \in Seq(Frames \cup {WsClose}) /\ Len(wire'[q]) = arrived[q]
        /\ \A i \in 1 .. arrived[q] : wire'[q][i] = wire[q][i]
    BY <2>1, <2>2, PartType
  <2>4. QED
    BY <1>11, <2>2, <2>3 DEF InTransit, ConnectionLost
<1>12. ASSUME UNCHANGED <<outbox, wire>> PROVE InTransit(q, f)
  BY <1>12 DEF InTransit
<1>13. QED
  BY <1>4, <1>5, <1>6, <1>7, <1>8, <1>9, <1>10, <1>11, <1>12
    DEF ConnNext, System, SendRaises, CloseRaises, PeerClosed, PolicyClock, allVars, connVars

(* The price of strict nonces: once the next frame of a direction can no   *)
(* longer arrive, nothing of that direction is ever accepted again, not    *)
(* even a CLOSE, so that no loss is taken for an orderly end.              *)
THEOREM LossStaysVisible == ConnSpec => LossIsNeverSilent
<1>1. CapacityAssumption /\ ConnInv /\ IInv /\ ConnInv' /\ IInv' /\ [ConnNext]_allVars =>
        [\A p \in Endpoints :
           Wedged(p) => accepted'[p] = accepted[p] /\ Wedged(p)']_allVars
  <2> SUFFICES ASSUME CapacityAssumption, ConnInv, IInv, IInv', ConnNext,
                      NEW p \in Endpoints, Wedged(p)
               PROVE  accepted'[p] = accepted[p] /\ Wedged(p)'
    OBVIOUS
  <2> DEFINE q == Peer(p)
             n == Len(accepted[p])
             g == sent[q][n + 1]
  <2>1. [Next]_vars
    BY ChannelStep
  <2>2. TypeOK /\ TypeOK' /\ Grows(sent[q], sent'[q]) /\ q \in Endpoints
    BY <2>1, SentGrows, PeerType DEF IInv, SessionInv
  <2>3. /\ n \in Nat /\ n + 1 \in 1 .. Len(sent[q]) /\ g \in Frames
        /\ ~InTransit(q, g)
        /\ sent[q] \in Seq(Frames) /\ sent'[q] \in Seq(Frames)
    BY <2>2 DEF Wedged, TypeOK
  <2>4. accepted'[p] = accepted[p]
    <3>1. ASSUME NEW r \in Endpoints, Recv(r) PROVE accepted'[p] = accepted[p]
      <4> DEFINE f == Head(wire[Peer(r)])
      <4>1. CASE DecryptAccepts(r, f)
        <5>1. CASE r # p
          BY <4>1, <5>1, <2>2 DEF DecryptAccepts, TypeOK
        <5>2. CASE r = p
          <6>1. wire[q] \in Seq(Out(q)) /\ wire[q] # <<>> /\ f # WsClose
            BY <3>1, <5>2, <2>2 DEF Recv, ConnInv, FromSender
          <6>2. f \in Network(p) /\ \E i \in DOMAIN wire[q] : wire[q][i] = f
            BY <5>2, <6>1 DEF Out, Network
          <6>3. f = g
            BY <4>1, <5>2, <6>2, OpensIsNext DEF DecryptAccepts, Accepts, IInv
          <6>4. InTransit(q, g)
            BY <6>2, <6>3 DEF InTransit
          <6>5. QED
            BY <2>3, <6>4
        <5>3. QED
          BY <5>1, <5>2
      <4>2. CASE DecryptRaises(r, f)
        BY <4>2 DEF DecryptRaises, vars, receiver
      <4>3. QED
        BY <3>1, <4>1, <4>2 DEF Recv, Decrypt
    <3>2. CASE UNCHANGED receiver
      BY <3>2 DEF receiver
    <3>3. QED
      BY <3>1, <3>2 DEF ConnNext, System, Send, SendRaises, Close, CloseSocketOnly, CloseRaises,
           Cancel, DrainDone, Grant, PeerClosed, ConnectionLost, PolicyClock, EncryptPlain,
           EncryptAfterRekey, EmitFails, EncryptFailsAfterRekey, CloseFrame, Tick, vars
  <2>5. n + 1 <= Len(sent'[q]) /\ sent'[q][n + 1] = g
    BY <2>2, <2>3 DEF Grows
  <2> PICK f \in Frames : f = g
    BY <2>3
  <2>6. ~InTransit(q, f)'
    <3> SUFFICES ASSUME InTransit(q, f)' PROVE FALSE
      OBVIOUS
    <3>1. ~InTransit(q, f)
      BY <2>3
    <3>2. PICK i \in Len(sent[q]) + 1 .. Len(sent'[q]) : f = sent'[q][i]
      BY <2>2, <3>1, Sources
    <3>3. Numbered(sent'[q])
      BY <2>2 DEF IInv, SessionInv, EndpointInv
    <3>4. f.n = i - 1 /\ f.n = n
      BY <2>3, <2>5, <3>2, <3>3 DEF Numbered
    <3>5. QED
      BY <2>3, <3>2, <3>4
  <2>7. QED
    BY <2>3, <2>4, <2>5, <2>6 DEF Wedged
<1>2. QED
  BY <1>1, ConnInvHolds, CapacityAssumption, PTL DEF ConnSpec, LossIsNeverSilent
-----------------------------------------------------------------------------
(* One task on each side, not cancelled: nothing is lost before the wire,  *)
(* and the socket ends for a reason.                                       *)

OneTaskEach == \A t, u \in Tasks : Owner(t) = Owner(u) => t = u

\* The k-th frame from here of p's direction is f.
At(p, k, f) ==
    LET n == Len(accepted[Peer(p)]) IN n + k <= Len(sent[p]) /\ f = sent[p][n + k]

\* Why p's socket may be closed.
Over(p) == sendSeq[p] > MaxSeq \/ closed[Peer(p)] \/ SaidClose(p)

\* The WebSocket's Close is not a frame of the channel.
FrameCount(o) == IF Carries(o, WsClose) THEN Len(o) - 1 ELSE Len(o)

\* The frames o come after l others and are the last so far.
Follows(p, o, l) ==
    /\ \A k \in 1 .. Len(o) : o[k] = WsClose => k = Len(o) /\ Over(p)
    /\ ~closed[Peer(p)] =>
         /\ \A k \in 1 .. Len(o) : o[k] # WsClose => At(p, l + k, o[k])
         /\ Len(sent[p]) = Len(accepted[Peer(p)]) + l + FrameCount(o)

\* The wire has the next frames of the direction, without a gap, and the
\* WebSocket's Close behind the last of them.
OnWire(p) ==
    /\ \A k \in 1 .. Len(wire[p]) : wire[p][k] = WsClose =>
         /\ k = Len(wire[p]) /\ ws[p] = "closed" /\ Over(p)
         /\ \/ sendSeq[p] > MaxSeq \/ closed[Peer(p)]
            \/ Len(sent[p]) = Len(accepted[Peer(p)]) + k - 1
    /\ ~closed[Peer(p)] =>
         \A k \in 1 .. Len(wire[p]) : wire[p][k] # WsClose => At(p, k, wire[p][k])

\* A task has what is still missing on the wire.
InCall(t) ==
    /\ pc[t] \in {"idle", "closed"} => outbox[t] = <<>>
    /\ ws[Owner(t)] = "open" => Follows(Owner(t), outbox[t], Len(wire[Owner(t)]))

\* The lock is never asked for by two.
Alone(p) == backlog[p] = <<>> /\ (holder[p] \in Tasks => Owner(holder[p]) = p)

\* A closed channel has said CLOSE or heard it.
Closing(p) ==
    /\ closed[p] => SaidClose(p) \/ closed[Peer(p)]
    /\ \A i \in DOMAIN accepted[p] : accepted[p][i].type = "CLOSE" => closed[p]

PipeInv ==
    /\ \A p \in Endpoints : OnWire(p) /\ Alone(p) /\ Closing(p)
    /\ \A t \in Tasks : InCall(t)

\* What a step of the channels leaves as it was.
LEMMA ChannelKeeps ==
    ASSUME IInv, IInv', [Next]_vars, NEW p \in Endpoints
    PROVE  /\ Grows(sent[p], sent'[p])
           /\ closed[p] => closed'[p] /\ sent'[p] = sent[p]
           /\ sendSeq[p] > MaxSeq => sendSeq'[p] > MaxSeq
           /\ SaidClose(p) => closed[p] /\ SaidClose(p)'
<1>1. TypeOK /\ TypeOK'
  BY DEF IInv, SessionInv
<1>2. Grows(sent[p], sent'[p])
  BY <1>1, SentGrows
<1>3. closed[p] => closed'[p] /\ sent'[p] = sent[p]
  <2> USE DEF TypeOK
  <2>1. ASSUME NEW q \in Endpoints, \E m \in Msgs : EncryptPlain(q, m) \/ EncryptAfterRekey(q, m)
        PROVE  closed[p] => closed'[p] /\ sent'[p] = sent[p]
    <3>1. ~closed[q] /\ closed' = closed /\ \E s : sent' = [sent EXCEPT ![q] = s]
      BY <2>1 DEF EncryptPlain, EncryptAfterRekey
    <3>2. QED
      BY <1>1, <3>1
  <2>2. ASSUME NEW q \in Endpoints, CloseFrame(q)
        PROVE  closed[p] => closed'[p] /\ sent'[p] = sent[p]
    BY <1>1, <2>2 DEF CloseFrame
  <2>3. ASSUME NEW q \in Endpoints, NEW f, DecryptAccepts(q, f)
        PROVE  closed[p] => closed'[p] /\ sent'[p] = sent[p]
    BY <1>1, <2>3 DEF DecryptAccepts, Accepts, sender
  <2>4. CASE UNCHANGED <<closed, sent>>
    BY <2>4
  <2>5. QED
    BY <2>1, <2>2, <2>3, <2>4
      DEF Next, EmitFails, EncryptFailsAfterRekey, Tick, Decrypt, DecryptRaises, vars, sender
<1>4. sendSeq[p] > MaxSeq => sendSeq'[p] > MaxSeq
  <2>1. sendSeq' = sendSeq \/ \E q \in Endpoints, n \in {1, 2} :
          sendSeq' = [sendSeq EXCEPT ![q] = @ + n]
    BY DEF Next, EncryptPlain, EncryptAfterRekey, EmitFails, EncryptFailsAfterRekey, CloseFrame,
           Tick, Decrypt, DecryptAccepts, DecryptRaises, vars, sender
  <2>2. sendSeq \in [Endpoints -> Nat]
    BY <1>1 DEF TypeOK, RetryBound
  <2>3. QED
    BY <2>1, <2>2, MaxSeqAssumption
<1>5. SaidClose(p) => closed[p] /\ SaidClose(p)'
  <2>1. sent[p] \in Seq(Frames) /\ CloseLast(p)
    BY <1>1 DEF TypeOK, IInv, SessionInv, EndpointInv
  <2>2. SaidClose(p) => closed[p]
    BY <2>1 DEF SaidClose, CloseLast
  <2>3. QED
    BY <2>2, <1>3 DEF SaidClose
<1>6. QED
  BY <1>2, <1>3, <1>4, <1>5

\* The same, for what p sends and its peer has not read meanwhile.
Kept(p) ==
    /\ accepted'[Peer(p)] = accepted[Peer(p)]
    /\ Grows(sent[p], sent'[p])
    /\ closed[Peer(p)] => closed'[Peer(p)]
    /\ sendSeq[p] > MaxSeq => sendSeq'[p] > MaxSeq
    /\ SaidClose(p) => sent'[p] = sent[p] /\ SaidClose(p)'

LEMMA StepKeeps ==
    ASSUME IInv, IInv', [Next]_vars, NEW p \in Endpoints,
           accepted'[Peer(p)] = accepted[Peer(p)]
    PROVE  Kept(p)
BY ChannelKeeps, PeerType DEF Kept

LEMMA OverKept ==
    ASSUME NEW p \in Endpoints, Kept(p), Over(p) PROVE Over(p)'
BY DEF Kept, Over

LEMMA AtKept ==
    ASSUME TypeOK, TypeOK', NEW p \in Endpoints, Kept(p), NEW k \in Nat \ {0}, NEW f, At(p, k, f)
    PROVE  At(p, k, f)'
<1>1. /\ accepted[Peer(p)] \in Seq(Frames) /\ sent[p] \in Seq(Frames)
      /\ sent'[p] \in Seq(Frames)
  BY PeerType DEF TypeOK
<1> DEFINE n == Len(accepted[Peer(p)])
<1>2. n \in Nat /\ n + k \in 1 .. Len(sent[p]) /\ f = sent[p][n + k]
  BY <1>1 DEF At
<1>3. n + k <= Len(sent'[p]) /\ f = sent'[p][n + k]
  BY <1>1, <1>2 DEF Kept, Grows
<1>4. QED
  BY <1>3 DEF At, Kept

LEMMA OnWireKept ==
    ASSUME ConnTypeOK, TypeOK', NEW p \in Endpoints, Kept(p), OnWire(p),
           wire'[p] = wire[p], ws'[p] \in {ws[p], "closed"}
    PROVE  OnWire(p)'
<1>0. TypeOK /\ wire[p] \in Seq(Frames \cup {WsClose})
  BY DEF ConnTypeOK
<1>1. ASSUME NEW k \in 1 .. Len(wire[p]), wire[p][k] = WsClose
      PROVE  /\ k = Len(wire[p]) /\ ws'[p] = "closed" /\ Over(p)'
             /\ \/ sendSeq'[p] > MaxSeq \/ closed'[Peer(p)]
                \/ Len(sent'[p]) = Len(accepted'[Peer(p)]) + k - 1
  <2>1. /\ k = Len(wire[p]) /\ ws[p] = "closed" /\ Over(p)
        /\ \/ sendSeq[p] > MaxSeq \/ closed[Peer(p)]
           \/ Len(sent[p]) = Len(accepted[Peer(p)]) + k - 1
    BY <1>1 DEF OnWire
  <2>2. Over(p)'
    BY <2>1, OverKept
  <2>3. QED
    BY <2>1, <2>2 DEF Kept, Over
<1>2. ASSUME ~closed'[Peer(p)], NEW k \in 1 .. Len(wire[p]), wire[p][k] # WsClose
      PROVE  At(p, k, wire[p][k])'
  <2>1. At(p, k, wire[p][k]) /\ k \in Nat \ {0}
    BY <1>0, <1>2 DEF OnWire, Kept
  <2> PICK f : f = wire[p][k]
    OBVIOUS
  <2>2. At(p, k, f)'
    BY <1>0, <2>1, AtKept
  <2>3. QED
    BY <2>2 DEF At
<1>3. Len(wire[p])' = Len(wire[p]) /\ \A k \in 1 .. Len(wire[p]) : wire'[p][k] = wire[p][k]
  OBVIOUS
<1>4. QED
  BY <1>1, <1>2, <1>3 DEF OnWire

LEMMA InCallKept ==
    ASSUME ConnTypeOK, TypeOK', NEW t \in Tasks, InCall(t), Kept(Owner(t)),
           sent'[Owner(t)] = sent[Owner(t)],
           pc'[t] \in {"idle", "closed"} => outbox[t] = <<>>, outbox'[t] = outbox[t],
           ws'[Owner(t)] = "open" => ws[Owner(t)] = "open" /\ wire'[Owner(t)] = wire[Owner(t)]
    PROVE  InCall(t)'
<1> DEFINE p == Owner(t)
           o == outbox[t]
<1>0. p \in Endpoints /\ TypeOK
  BY OwnerType DEF ConnTypeOK
<1>1. ASSUME ws[p] = "open", wire'[p] = wire[p]
      PROVE  Follows(p, outbox[t], Len(wire[p]))'
  <2>1. Follows(p, o, Len(wire[p]))
    BY <1>1 DEF InCall
  <2>2. Over(p) => Over(p)'
    BY <1>0, OverKept
  <2>3. QED
    BY <1>1, <2>1, <2>2 DEF Follows, At, Kept, FrameCount, Carries
<1>2. QED
  BY <1>1 DEF InCall

\* Writing takes the frames in order, and all of them unless it has to wait.
WroteFirst(t, call, fr, n) ==
    /\ wire' = [wire EXCEPT ![Owner(t)] = @ \o SubSeq(fr, 1, n)]
    /\ \/ /\ \E i \in 1 .. n : fr[i] = WsClose
          /\ ws' = [ws EXCEPT ![Owner(t)] = "closed"]
          /\ outbox' = [outbox EXCEPT ![t] = <<>>]
       \/ /\ ~\E i \in 1 .. n : fr[i] = WsClose
          /\ ws' = ws
          /\ pc' = [pc EXCEPT ![t] = call] \/ n = Len(fr)
          /\ outbox' = [outbox EXCEPT ![t] = SubSeq(fr, n + 1, Len(fr))]

LEMMA WriteShape ==
    ASSUME CapacityAssumption, ConnTypeOK, NEW t \in Tasks, NEW call, NEW S, NEW fr \in Seq(S),
           ws[Owner(t)] = "open", Write(t, call, fr)
    PROVE  \E n \in 0 .. Len(fr) : WroteFirst(t, call, fr, n)
<1> DEFINE p == Owner(t)
           n == Burst(p, fr)
           w == wire[p] \o SubSeq(fr, 1, n)
<1>1. p \in Endpoints /\ wire[p] \in Seq(Frames \cup {WsClose}) /\ Len(fr) \in Nat
  BY OwnerType DEF ConnTypeOK
<1>2. n \in 0 .. Len(fr)
  BY <1>1, CapacityAssumption DEF Burst
<1>3. Len(w) = Len(wire[p]) + n
  <2>1. ASSUME NEW a \in Seq(Frames \cup {WsClose}), NEW i \in 0 .. Len(fr)
        PROVE  Len(a \o SubSeq(fr, 1, i)) = Len(a) + i
    BY JoinedType
  <2> HIDE DEF n
  <2>2. QED
    BY <1>1, <1>2, <2>1
<1>4. Len(w) <= Capacity => n = Len(fr)
  <2> DEFINE a == Len(wire[p])
             l == Len(fr)
  <2>1. a \in Nat /\ l \in Nat /\ n = (LET r == Capacity - a
                                          m == IF r < 0 THEN 1 ELSE r + 1
                                      IN  IF m >= l THEN l ELSE m)
    BY <1>1 DEF Burst
  <2> HIDE DEF a, l, n
  <2>2. a + n <= Capacity => n = l
    BY <2>1, CapacityAssumption
  <2>3. QED
    BY <1>3, <2>2 DEF a, l
<1>5. SubSeq(fr, Len(fr) + 1, Len(fr)) = <<>>
  BY <1>1
<1> HIDE DEF n
<1>6. wire' = [wire EXCEPT ![p] = w]
  BY DEF Write, n
<1>7. WsClose \in {fr[i] : i \in 1 .. n} <=> \E i \in 1 .. n : fr[i] = WsClose
  OBVIOUS
<1>8. CASE \E i \in 1 .. n : fr[i] = WsClose
  <2>1. ws' = [ws EXCEPT ![p] = "closed"] /\ outbox' = [outbox EXCEPT ![t] = <<>>]
    BY <1>7, <1>8 DEF Write, n
  <2>2. QED
    BY <1>2, <1>6, <1>8, <2>1 DEF WroteFirst
<1>9. CASE ~\E i \in 1 .. n : fr[i] = WsClose
  <2>1. ws' = ws
    BY <1>1, <1>7, <1>9 DEF Write, n, ConnTypeOK
  <2>2. \/ /\ pc' = [pc EXCEPT ![t] = call]
           /\ outbox' = [outbox EXCEPT ![t] = SubSeq(fr, n + 1, Len(fr))]
        \/ n = Len(fr) /\ outbox' = [outbox EXCEPT ![t] = <<>>]
    BY <1>4, <1>7, <1>9 DEF Write, n
  <2>3. outbox' = [outbox EXCEPT ![t] = SubSeq(fr, n + 1, Len(fr))]
    BY <1>5, <2>2
  <2>4. QED
    BY <1>2, <1>6, <1>9, <2>1, <2>2, <2>3 DEF WroteFirst
<1>10. QED
  BY <1>8, <1>9

\* What is left after the first n frames of a call still follows.
LEMMA RestFollows ==
    ASSUME NEW p \in Endpoints, NEW S, NEW fr \in Seq(S), NEW l \in Nat,
           NEW n \in 0 .. Len(fr), TypeOK',
           Follows(p, fr, l)', ~\E i \in 1 .. n : fr[i] = WsClose,
           NEW r \in Seq(S), Len(r) = Len(fr) - n,
           \A i \in 1 .. Len(fr) - n : r[i] = fr[n + i]
    PROVE  Follows(p, r, l + n)'
<1> PICK a \in Nat : a = Len(fr)
  OBVIOUS
<1>1. Len(r) = a - n /\ \A i \in 1 .. a - n : r[i] = fr[n + i]
  OBVIOUS
<1>2. n \in Nat /\ n <= a
  OBVIOUS
<1>3. ASSUME NEW k \in 1 .. Len(r), r[k] = WsClose PROVE k = Len(r) /\ Over(p)'
  <2>1. n + k \in 1 .. a /\ fr[n + k] = WsClose
    BY <1>1, <1>2, <1>3
  <2>2. n + k = a
    BY <2>1 DEF Follows
  <2>3. Over(p)'
    BY <2>1 DEF Follows
  <2>4. k = Len(r)
    <3>1. \A x, y, z \in Int : x + y = z => y = z - x
      OBVIOUS
    <3>2. k \in Int /\ n \in Int /\ a \in Int /\ Len(r) = a - n
      BY <1>1, <1>2
    <3>3. QED
      BY <2>2, <3>1, <3>2
  <2>5. QED
    BY <2>3, <2>4
<1>4. ASSUME ~closed'[Peer(p)], NEW k \in 1 .. Len(r), r[k] # WsClose
      PROVE  At(p, l + n + k, r[k])'
  <2>1. n + k \in 1 .. a /\ fr[n + k] = r[k]
    BY <1>1, <1>2
  <2> PICK j \in 1 .. a : j = n + k
    BY <2>1
  <2>2. At(p, l + j, fr[j])'
    BY <1>4, <2>1 DEF Follows
  <2>3. l + j = l + n + k
    BY <1>2
  <2>4. QED
    BY <2>1, <2>2, <2>3
<1>5. FrameCount(fr) = n + FrameCount(r)
  <2>1. Carries(fr, WsClose) <=> Carries(r, WsClose)
    <3>1. ASSUME NEW j \in 1 .. a, fr[j] = WsClose PROVE Carries(r, WsClose)
      <4>1. j > n
        BY <1>2, <3>1
      <4> PICK i \in 1 .. a - n : i = j - n
        BY <1>2, <4>1
      <4>2. i \in 1 .. Len(r) /\ r[i] = fr[j]
        BY <1>1, <1>2
      <4>3. i \in DOMAIN r
        BY <4>2
      <4>4. QED
        BY <3>1, <4>2, <4>3 DEF Carries
    <3>2. ASSUME NEW j \in 1 .. Len(r), r[j] = WsClose PROVE Carries(fr, WsClose)
      <4>1. n + j \in 1 .. a /\ fr[n + j] = WsClose
        BY <1>1, <1>2, <3>2
      <4>2. QED
        BY <4>1 DEF Carries
    <3>3. QED
      BY <3>1, <3>2 DEF Carries
  <2>2. QED
    BY <1>1, <1>2, <2>1 DEF FrameCount
<1>6. ~closed'[Peer(p)] =>
        Len(sent'[p]) = Len(accepted'[Peer(p)]) + (l + n) + FrameCount(r)
  <2>1. accepted'[Peer(p)] \in Seq(Frames)
    BY PeerType DEF TypeOK
  <2>2. FrameCount(r) \in Int
    BY DEF FrameCount
  <2>3. ~closed'[Peer(p)] => Len(sent'[p]) = Len(accepted'[Peer(p)]) + l + FrameCount(fr)
    BY DEF Follows, FrameCount, Carries
  <2>4. QED
    BY <1>2, <1>5, <2>1, <2>2, <2>3
<1>7. Follows(p, r, l + n)'
  BY <1>3, <1>4, <1>6 DEF Follows, FrameCount, Carries
<1>8. QED
  BY <1>7

\* What is asked of the channels when task t goes on with a call.
GoesOn(t) ==
    /\ \A q \in Endpoints : Kept(q)
    /\ \A q \in Endpoints : q # Owner(t) => sent'[q] = sent[q]

\* v is w with the first n members of fr behind it.
Joined(v, w, fr, n) ==
    /\ Len(v) = Len(w) + n
    /\ \A k \in 1 .. Len(w) + n : v[k] = IF k <= Len(w) THEN w[k] ELSE fr[k - Len(w)]

\* A wire extended by frames that follow has no gap.
LEMMA JoinedOnWire ==
    ASSUME ConnTypeOK, TypeOK', NEW p \in Endpoints, OnWire(p), Kept(p), ws[p] = "open",
           NEW S, NEW fr \in Seq(S), NEW n \in 0 .. Len(fr), NEW l \in Nat, l = Len(wire[p]),
           Follows(p, fr, l)', (\E i \in 1 .. n : fr[i] = WsClose) => ws'[p] = "closed",
           wire'[p] \in Seq(S \cup Frames \cup {WsClose}), Joined(wire'[p], wire[p], fr, n)
    PROVE  OnWire(p)'
<1> PICK v \in Seq(S \cup Frames \cup {WsClose}) : v = wire'[p]
  OBVIOUS
<1>1. TypeOK /\ n \in Nat /\ Len(fr) \in Nat /\ n <= Len(fr)
  BY DEF ConnTypeOK
<1>0. /\ Len(v) = l + n
      /\ \A k \in 1 .. l + n : v[k] = IF k <= l THEN wire[p][k] ELSE fr[k - l]
  BY DEF Joined
<1>2. ASSUME NEW k \in 1 .. l PROVE wire[p][k] # WsClose /\ v[k] = wire[p][k]
  <2>1. wire[p][k] # WsClose
    BY DEF OnWire
  <2>2. k \in 1 .. l + n /\ k <= l
    BY <1>1
  <2>3. QED
    BY <1>0, <2>1, <2>2
<1>3. ASSUME NEW k \in 1 .. l + n, k > l
      PROVE  \E i \in 1 .. n : i = k - l /\ v[k] = fr[i]
  <2>1. k - l \in 1 .. n /\ ~(k <= l)
    BY <1>1, <1>3
  <2>2. QED
    BY <1>0, <2>1
<1>4. ASSUME NEW k \in 1 .. l + n, v[k] = WsClose
      PROVE  /\ k = l + n /\ ws'[p] = "closed" /\ Over(p)'
             /\ \/ closed'[Peer(p)]
                \/ Len(sent'[p]) = Len(accepted'[Peer(p)]) + k - 1
  <2>1. k > l
    <3> SUFFICES ASSUME ~(k > l) PROVE FALSE
      OBVIOUS
    <3>1. k \in 1 .. l
      BY <1>1
    <3>2. QED
      BY <1>2, <1>4, <3>1
  <2> PICK i \in 1 .. n : i = k - l /\ v[k] = fr[i]
    BY <1>3, <2>1
  <2>2. i \in 1 .. Len(fr) /\ fr[i] = WsClose
    BY <1>1, <1>4
  <2>3. i = Len(fr) /\ Over(p)'
    BY <2>2 DEF Follows
  <2>4. ws'[p] = "closed"
    BY <2>2
  <2>5. FrameCount(fr) = Len(fr) - 1
    BY <2>2 DEF FrameCount, Carries
  <2>6. ~closed'[Peer(p)] => Len(sent'[p]) = Len(accepted'[Peer(p)]) + l + (Len(fr) - 1)
    BY <2>5 DEF Follows, FrameCount, Carries
  <2>7. k = l + Len(fr) /\ n = Len(fr)
    BY <1>1, <2>3
  <2>8. ~closed'[Peer(p)] => Len(sent'[p]) = Len(accepted'[Peer(p)]) + k - 1
    <3>1. accepted'[Peer(p)] \in Seq(Frames)
      BY PeerType DEF TypeOK
    <3> DEFINE a == Len(accepted'[Peer(p)])
               b == Len(fr)
               c == Len(sent'[p])
               d == ~closed'[Peer(p)]
    <3>2. /\ a \in Int /\ b \in Int /\ l \in Int /\ k \in Int
          /\ k = l + b /\ (d => c = a + l + (b - 1))
      <4>1. a \in Int
        BY <3>1
      <4>2. b \in Int /\ l \in Int /\ k \in Int
        BY <1>1
      <4>3. k = l + b
        BY <2>7
      <4>4. d => c = a + l + (b - 1)
        BY <2>6
      <4>5. QED
        BY <4>1, <4>2, <4>3, <4>4
    <3>3. d => c = a + k - 1
      <4> HIDE DEF a, b, c, d
      <4>1. a + l + (b - 1) = a + k - 1
        BY <3>2
      <4>2. QED
        BY <3>2, <4>1
    <3>4. QED
      BY <3>3
  <2>9. QED
    BY <2>3, <2>4, <2>7, <2>8
<1>5. ASSUME ~closed'[Peer(p)], NEW k \in 1 .. l + n, v[k] # WsClose
      PROVE  At(p, k, v[k])'
  <2>1. CASE k <= l
    <3>1. k \in 1 .. l /\ k \in Nat \ {0}
      BY <2>1
    <3>2. wire[p][k] # WsClose /\ v[k] = wire[p][k]
      BY <1>2, <3>1
    <3>3. At(p, k, wire[p][k])
      BY <1>5, <3>1, <3>2 DEF OnWire, Kept
    <3> PICK f : f = wire[p][k]
      OBVIOUS
    <3>4. At(p, k, f)'
      BY <1>1, <3>1, <3>3, AtKept
    <3>5. QED
      BY <3>2, <3>4
  <2>2. CASE k > l
    <3> PICK i \in 1 .. n : i = k - l /\ v[k] = fr[i]
      BY <1>3, <2>2
    <3>1. i \in 1 .. Len(fr) /\ l + i = k
      BY <1>1
    <3>2. At(p, l + i, fr[i])'
      BY <1>5, <3>1 DEF Follows
    <3>3. QED
      BY <3>1, <3>2
  <2>3. QED
    BY <1>1, <2>1, <2>2
<1>6. QED
  BY <1>0, <1>4, <1>5 DEF OnWire

\* The wire stays without a gap when t goes on with what follows.
LEMMA WriteOnWire ==
    ASSUME CapacityAssumption, ConnTypeOK, TypeOK', PipeInv,
           NEW t \in Tasks, NEW call, NEW S, NEW fr \in Seq(S),
           Write(t, call, fr), GoesOn(t),
           NEW l \in Nat, l = Len(wire[Owner(t)]),
           ws[Owner(t)] = "open" => Follows(Owner(t), fr, l)'
    PROVE  /\ OnWire(Owner(t))'
           /\ ws'[Owner(t)] = "open" => Follows(Owner(t), outbox[t], Len(wire[Owner(t)]))'
<1> DEFINE p == Owner(t)
<1>1. /\ p \in Endpoints /\ OnWire(p) /\ Kept(p) /\ TypeOK
      /\ wire[p] \in Seq(Frames \cup {WsClose}) /\ ws[p] \in {"open", "closed"}
  BY OwnerType DEF PipeInv, GoesOn, ConnTypeOK
<1>2. CASE ws[p] = "closed"
  <2>1. wire' = wire /\ ws' = ws
    BY <1>1, <1>2 DEF Write
  <2>2. QED
    BY <1>1, <1>2, <2>1, OnWireKept
<1>3. CASE ws[p] = "open"
  <2>1. PICK n \in 0 .. Len(fr) : WroteFirst(t, call, fr, n)
    BY <1>3, WriteShape
  <2>2. wire'[p] = wire[p] \o SubSeq(fr, 1, n)
    BY <1>1, <2>1 DEF WroteFirst, ConnTypeOK
  <2>3. /\ wire'[p] \in Seq(S \cup Frames \cup {WsClose})
        /\ Joined(wire'[p], wire[p], fr, n)
    <3>1. ASSUME NEW a \in Seq(Frames \cup {WsClose})
          PROVE  /\ a \o SubSeq(fr, 1, n) \in Seq(S \cup Frames \cup {WsClose})
                 /\ Joined(a \o SubSeq(fr, 1, n), a, fr, n)
      <4>1. S \cup Frames \cup {WsClose} = (Frames \cup {WsClose}) \cup S
        OBVIOUS
      <4>2. QED
        BY <4>1, JoinedType DEF Joined
    <3>2. QED
      BY <1>1, <2>2, <3>1
  <2>4. Follows(p, fr, l)'
    BY <1>3
  <2>5. (\E i \in 1 .. n : fr[i] = WsClose) => ws'[p] = "closed"
    BY <1>1, <2>1 DEF WroteFirst, ConnTypeOK
  <2>6. OnWire(p)'
    BY <1>1, <1>3, <2>3, <2>4, <2>5, JoinedOnWire
  <2>7. ASSUME ws'[p] = "open" PROVE Follows(p, outbox[t], Len(wire[p]))'
    <3>1. /\ ~\E i \in 1 .. n : fr[i] = WsClose
          /\ outbox'[t] = SubSeq(fr, n + 1, Len(fr))
      BY <1>1, <2>1, <2>7 DEF WroteFirst, ConnTypeOK
    <3>2. /\ outbox'[t] \in Seq(S)
          /\ Len(outbox'[t]) = Len(fr) - n
          /\ \A i \in 1 .. Len(fr) - n : outbox'[t][i] = fr[n + i]
      BY <3>1, PartType
    <3> PICK r : r = outbox'[t]
      OBVIOUS
    <3>3. Follows(p, r, l + n)'
      BY <1>1, <2>4, <3>1, <3>2, RestFollows
    <3> PICK j : j = l + n
      OBVIOUS
    <3>4. QED
      BY <2>3, <3>3 DEF Joined
  <2>8. QED
    BY <2>6, <2>7
<1>4. QED
  BY <1>1, <1>2, <1>3

LEMMA WritePipe ==
    ASSUME CapacityAssumption, OneTaskEach, ConnTypeOK, TypeOK', PipeInv,
           NEW t \in Tasks, NEW call \in {"send", "close"}, NEW S, NEW fr \in Seq(S),
           Write(t, call, fr), UNCHANGED backlog, GoesOn(t),
           NEW l \in Nat, l = Len(wire[Owner(t)]),
           ws[Owner(t)] = "open" => Follows(Owner(t), fr, l)'
    PROVE  /\ \A q \in Endpoints : OnWire(q)' /\ Alone(q)'
           /\ \A u \in Tasks : InCall(u)'
<1> DEFINE p == Owner(t)
<1>1. /\ p \in Endpoints /\ TypeOK
      /\ OnWire(p)' /\ (ws'[p] = "open" => Follows(p, outbox[t], Len(wire[p]))')
  BY OwnerType, WriteOnWire DEF ConnTypeOK
<1>2. PICK n \in 0 .. Len(fr) : Wrote(t, call, fr, n)
  BY WriteEffect
<1>3. /\ \A q \in Endpoints : q # p =>
           wire'[q] = wire[q] /\ ws'[q] = ws[q] /\ holder'[q] = holder[q]
      /\ \A u \in Tasks : u # t => pc'[u] = pc[u] /\ outbox'[u] = outbox[u]
      /\ holder'[p] \in {t, NoTask}
  BY <1>1, <1>2 DEF Wrote, ConnTypeOK
<1>4. ASSUME NEW q \in Endpoints PROVE OnWire(q)'
  <2>1. CASE q # p
    BY <1>3, <2>1, OnWireKept DEF PipeInv, GoesOn
  <2>2. QED
    BY <1>1, <2>1
<1>5. ASSUME NEW q \in Endpoints PROVE Alone(q)'
  <2>1. CASE q # p
    BY <1>3, <2>1 DEF PipeInv, Alone
  <2>2. CASE q = p
    <3>1. backlog'[p] = <<>>
      BY <1>1 DEF PipeInv, Alone
    <3>2. QED
      BY <1>3, <2>2, <3>1, TasksAssumption DEF Alone, Tasks
  <2>3. QED
    BY <2>1, <2>2
<1>6. ASSUME NEW u \in Tasks PROVE InCall(u)'
  <2>1. CASE u # t
    <3>1. Owner(u) # p /\ Owner(u) \in Endpoints
      BY <2>1, OwnerType DEF OneTaskEach
    <3>2. /\ Kept(Owner(u)) /\ sent'[Owner(u)] = sent[Owner(u)]
          /\ pc'[u] \in {"idle", "closed"} => outbox[u] = <<>>
          /\ outbox'[u] = outbox[u]
          /\ ws'[Owner(u)] = ws[Owner(u)] /\ wire'[Owner(u)] = wire[Owner(u)] /\ InCall(u)
      BY <1>3, <2>1, <3>1 DEF PipeInv, GoesOn, InCall
    <3>3. QED
      BY <3>2, InCallKept
  <2>2. CASE u = t
    <3>1. pc'[t] \in {"idle", "closed"} => outbox'[t] = <<>>
      <4>1. CASE ws[p] = "closed"
        BY <1>1, <4>1 DEF Write, ConnTypeOK
      <4>2. CASE ws[p] = "open"
        <5>1. PICK i \in 0 .. Len(fr) :
                \/ outbox' = [outbox EXCEPT ![t] = <<>>]
                \/ /\ pc' = [pc EXCEPT ![t] = call] \/ i = Len(fr)
                   /\ outbox' = [outbox EXCEPT ![t] = SubSeq(fr, i + 1, Len(fr))]
          <6>1. PICK i \in 0 .. Len(fr) : WroteFirst(t, call, fr, i)
            BY <4>2, WriteShape
          <6>2. QED
            BY <6>1 DEF WroteFirst
        <5>2. SubSeq(fr, Len(fr) + 1, Len(fr)) = <<>>
          OBVIOUS
        <5>3. QED
          BY <5>1, <5>2 DEF ConnTypeOK
      <4>3. QED
        BY <1>1, <4>1, <4>2 DEF ConnTypeOK
    <3>2. QED
      BY <1>1, <2>2, <3>1 DEF InCall
  <2>3. QED
    BY <2>1, <2>2
<1>7. QED
  BY <1>4, <1>5, <1>6

\* Alone, a task never waits for the lock.
LEMMA AloneWrites ==
    ASSUME OneTaskEach, ConnTypeOK, PipeInv, NEW t \in Tasks, NEW call, NEW fr,
           Acquire(t, call, fr)
    PROVE  Write(t, call, fr) /\ UNCHANGED backlog
<1> DEFINE p == Owner(t)
<1>1. p \in Endpoints /\ backlog[p] = <<>> /\ (holder[p] \in Tasks => Owner(holder[p]) = p)
  BY OwnerType DEF PipeInv, Alone
<1>2. holder[p] \in {NoTask, t}
  <2>1. holder[p] \in Tasks \cup {NoTask}
    BY <1>1 DEF ConnTypeOK
  <2>2. holder[p] \in Tasks => holder[p] = t
    BY <1>1 DEF OneTaskEach
  <2>3. QED
    BY <2>1, <2>2
<1>3. QED
  BY <1>1, <1>2 DEF Acquire

LEMMA CloseIsSaid ==
    ASSUME TypeOK, NEW q \in Endpoints, CloseFrame(q) PROVE SaidClose(q)'
<1> DEFINE f == Emit("CLOSE", sendSeq[q], sendCipher[q], NoMsg)
<1>1. sent' = [sent EXCEPT ![q] = Append(@, f)] /\ f.type = "CLOSE"
  BY DEF CloseFrame, Emit
<1>2. sent[q] \in Seq(Frames) /\ sent'[q] = Append(sent[q], f)
  BY <1>1 DEF TypeOK
<1> HIDE DEF f
<1>3. Len(sent[q]) + 1 \in DOMAIN sent'[q] /\ sent'[q][Len(sent[q]) + 1] = f
  BY <1>2
<1>4. QED
  BY <1>1, <1>3 DEF SaidClose

LEMMA ClosingStep ==
    ASSUME IInv, IInv', [Next]_vars, \A p \in Endpoints : Closing(p)
    PROVE  \A p \in Endpoints : Closing(p)'
<1>1. TypeOK /\ TypeOK'
  BY DEF IInv, SessionInv
<1>2. \A p \in Endpoints : /\ closed[p] => closed'[p]
                           /\ SaidClose(p) => SaidClose(p)'
                           /\ Peer(p) \in Endpoints
  BY ChannelKeeps, PeerType
<1>3. CASE closed' = closed /\ accepted' = accepted
  BY <1>2, <1>3 DEF Closing
<1>4. ASSUME NEW q \in Endpoints, CloseFrame(q) PROVE \A p \in Endpoints : Closing(p)'
  <2>1. closed' = [closed EXCEPT ![q] = TRUE] /\ accepted' = accepted
    BY <1>4 DEF CloseFrame, receiver
  <2>2. SaidClose(q)'
    BY <1>1, <1>4, CloseIsSaid
  <2>3. ASSUME NEW p \in Endpoints, p # q PROVE Closing(p)'
    BY <1>1, <1>2, <2>1, <2>3 DEF Closing, TypeOK
  <2>4. Closing(q)'
    BY <1>1, <2>1, <2>2 DEF Closing, TypeOK
  <2>5. QED
    BY <2>3, <2>4
<1>5. ASSUME NEW q \in Endpoints, NEW f \in Network(q), DecryptAccepts(q, f)
      PROVE  \A p \in Endpoints : Closing(p)'
  <2>1. /\ closed' = [closed EXCEPT ![q] = (f.type = "CLOSE")] /\ ~closed[q]
        /\ accepted' = [accepted EXCEPT ![q] = Append(@, f)]
    BY <1>5 DEF DecryptAccepts, Accepts
  <2>2. accepted[q] \in Seq(Frames) /\ accepted'[q] = Append(accepted[q], f)
        /\ closed'[q] = (f.type = "CLOSE")
    BY <1>1, <2>1 DEF TypeOK
  <2>3. /\ Len(accepted'[q]) = Len(accepted[q]) + 1
        /\ accepted'[q][Len(accepted[q]) + 1] = f
        /\ \A i \in 1 .. Len(accepted[q]) : accepted'[q][i] = accepted[q][i]
    BY <2>2
  <2>4. ASSUME NEW i \in DOMAIN accepted'[q], accepted'[q][i].type = "CLOSE"
        PROVE  closed'[q]
    <3>1. i \in 1 .. Len(accepted[q]) \/ i = Len(accepted[q]) + 1
      BY <2>2
    <3>2. CASE i \in 1 .. Len(accepted[q])
      BY <2>1, <2>2, <2>3, <2>4, <3>2 DEF Closing
    <3>3. CASE i = Len(accepted[q]) + 1
      BY <2>2, <2>3, <2>4, <3>3
    <3>4. QED
      BY <3>1, <3>2, <3>3
  <2>5. ASSUME closed'[q] PROVE closed'[Peer(q)]
    <3> DEFINE n == Len(accepted[q]) + 1
    <3>1. AcceptedPrefix(q)' /\ CloseLast(Peer(q))'
      BY <1>2 DEF IInv, SessionInv, EndpointInv
    <3>2. n \in 1 .. Len(accepted'[q]) /\ n \in Nat
      BY <2>2, <2>3
    <3>3. Len(sent'[Peer(q)]) \in Nat
      BY <1>1, <1>2 DEF TypeOK
    <3>4. n \in 1 .. Len(sent'[Peer(q)]) /\ f = sent'[Peer(q)][n]
      <4>1. Len(accepted'[q]) <= Len(sent'[Peer(q)]) /\ accepted'[q][n] = sent'[Peer(q)][n]
        BY <3>1, <3>2 DEF AcceptedPrefix
      <4>2. QED
        BY <2>3, <3>2, <3>3, <4>1
    <3>5. QED
      BY <2>2, <2>5, <3>1, <3>4 DEF CloseLast
  <2>6. Closing(q)'
    BY <2>4, <2>5 DEF Closing
  <2>7. ASSUME NEW p \in Endpoints, p # q PROVE Closing(p)'
    <3>1. closed'[p] = closed[p] /\ accepted'[p] = accepted[p] /\ Closing(p)
      BY <1>1, <2>1, <2>7 DEF TypeOK
    <3>2. closed[p] => SaidClose(p)' \/ closed'[Peer(p)]
      BY <1>2, <3>1 DEF Closing
    <3>3. QED
      BY <3>1, <3>2 DEF Closing
  <2>8. QED
    BY <2>6, <2>7
<1>6. QED
  BY <1>3, <1>4, <1>5
    DEF Next, EncryptPlain, EncryptAfterRekey, EmitFails, EncryptFailsAfterRekey, Tick,
        Decrypt, DecryptRaises, vars, receiver

\* What a call of the channel returns follows what the wire already has.
LEMMA ReturnedFollows ==
    ASSUME TypeOK, TypeOK', NEW p \in Endpoints, Kept(p), NEW l \in Nat,
           Follows(p, <<>>, l), NEW fr, fr = Returned(p)
    PROVE  Follows(p, fr, l)'
<1> DEFINE a == Len(sent[p])
           b == Len(sent'[p])
           n == Len(accepted[Peer(p)])
<1>1. /\ a \in Nat /\ b \in Nat /\ n \in Nat /\ a <= b
      /\ sent'[p] \in Seq(Frames)
  BY PeerType DEF TypeOK, Kept, Grows
<1>2. /\ fr \in Seq(Out(p)') /\ Len(fr) = b - a
      /\ \A k \in 1 .. Len(fr) : fr[k] = sent'[p][a + k]
  BY ReturnedType DEF Kept
<1>3. /\ closed[Peer(p)] => closed'[Peer(p)]
      /\ accepted'[Peer(p)] = accepted[Peer(p)]
      /\ ~closed[Peer(p)] => a = n + l
  <2>1. FrameCount(<<>>) = 0
    BY DEF FrameCount, Carries
  <2>2. ~closed[Peer(p)] => a = n + l + 0
    BY <2>1 DEF Follows
  <2>3. QED
    BY <1>1, <2>2 DEF Kept
<1>4. ASSUME NEW k \in 1 .. Len(fr) PROVE fr[k] # WsClose
  <2>1. a + k \in 1 .. b
    <3> HIDE DEF a, b
    <3>1. QED
      BY <1>1, <1>2
  <2>2. QED
    BY <1>1, <1>2, <2>1, CloseIsNoFrame
<1>5. ASSUME ~closed'[Peer(p)], NEW k \in 1 .. Len(fr) PROVE At(p, l + k, fr[k])'
  <2>1. n + (l + k) <= b /\ n + (l + k) = a + k
    <3>1. a = n + l /\ Len(fr) = b - a /\ k \in 1 .. Len(fr)
      BY <1>2, <1>3, <1>5
    <3> HIDE DEF a, b, n
    <3>2. QED
      BY <1>1, <3>1
  <2>2. fr[k] = sent'[p][n + (l + k)]
    BY <1>2, <2>1
  <2>3. QED
    BY <1>3, <2>1, <2>2 DEF At
<1>6. ~closed'[Peer(p)] => b = n + l + FrameCount(fr)
  <2>1. FrameCount(fr) = Len(fr)
    <3>1. DOMAIN fr = 1 .. Len(fr)
      BY <1>2, LenProperties
    <3>2. ~Carries(fr, WsClose)
      BY <1>4, <3>1 DEF Carries
    <3>3. QED
      BY <3>2 DEF FrameCount
  <2>2. Len(fr) = b - a
    BY <1>2
  <2> HIDE DEF a, b, n
  <2>3. QED
    BY <1>1, <1>3, <2>1, <2>2
<1>7. QED
  BY <1>3, <1>4, <1>5, <1>6 DEF Follows, FrameCount, Carries

\* The WebSocket's Close may follow the last frame of a direction.
LEMMA CloseFollows ==
    ASSUME TypeOK', NEW p \in Endpoints, NEW l \in Nat, NEW S, NEW r \in Seq(S),
           Follows(p, r, l)', \A k \in 1 .. Len(r) : r[k] # WsClose, Over(p)',
           NEW fr, fr = Append(r, WsClose)
    PROVE  Follows(p, fr, l)'
<1>1. /\ Len(fr) = Len(r) + 1 /\ fr[Len(r) + 1] = WsClose
      /\ \A k \in 1 .. Len(r) : fr[k] = r[k]
      /\ DOMAIN fr = 1 .. Len(r) + 1 /\ Len(r) \in Nat
  OBVIOUS
<1>2. ASSUME NEW k \in 1 .. Len(fr), fr[k] = WsClose PROVE k = Len(fr)
  <2>1. k \in 1 .. Len(r) \/ k = Len(r) + 1
    BY <1>1
  <2>2. QED
    BY <1>1, <1>2, <2>1
<1>3. ASSUME ~closed'[Peer(p)], NEW k \in 1 .. Len(fr), fr[k] # WsClose
      PROVE  At(p, l + k, fr[k])'
  <2>1. k \in 1 .. Len(r)
    BY <1>1, <1>3
  <2>2. At(p, l + k, r[k])'
    BY <1>3, <2>1 DEF Follows
  <2>3. QED
    BY <1>1, <2>1, <2>2
<1>4. FrameCount(r) = Len(r) /\ FrameCount(fr) = Len(r)
  <2>1. ~Carries(r, WsClose)
    BY DEF Carries
  <2>2. Carries(fr, WsClose)
    BY <1>1 DEF Carries
  <2>3. QED
    BY <1>1, <2>1, <2>2 DEF FrameCount
<1>5. ~closed'[Peer(p)] => Len(sent'[p]) = Len(accepted'[Peer(p)]) + l + Len(r)
  BY <1>4 DEF Follows, FrameCount, Carries
<1>6. QED
  BY <1>2, <1>3, <1>4, <1>5 DEF Follows, FrameCount, Carries

Piped ==
    /\ \A p \in Endpoints : OnWire(p) /\ Alone(p)
    /\ \A t \in Tasks : InCall(t)

\* A step that writes nothing and encrypts nothing.
LEMMA QuietPipe ==
    ASSUME ConnTypeOK, TypeOK', PipeInv, \A q \in Endpoints : Kept(q), sent' = sent,
           outbox' = outbox, wire' = wire, backlog' = backlog,
           \A q \in Endpoints : ws'[q] \in {ws[q], "closed"} /\ holder'[q] \in {holder[q], NoTask},
           \A t \in Tasks : pc'[t] \in {pc[t], "idle"} /\ (pc'[t] # pc[t] => outbox[t] = <<>>)
    PROVE  Piped'
<1>1. ASSUME NEW q \in Endpoints PROVE OnWire(q)' /\ Alone(q)'
  <2>1. OnWire(q)'
    BY OnWireKept DEF PipeInv
  <2>2. Alone(q)'
    BY TasksAssumption DEF PipeInv, Alone, Tasks
  <2>3. QED
    BY <2>1, <2>2
<1>2. ASSUME NEW u \in Tasks PROVE InCall(u)'
  <2>1. Owner(u) \in Endpoints /\ ws[Owner(u)] \in {"open", "closed"}
    BY OwnerType DEF ConnTypeOK
  <2>2. ws'[Owner(u)] = "open" => ws[Owner(u)] = "open"
    BY <2>1
  <2>3. pc'[u] \in {"idle", "closed"} => outbox[u] = <<>>
    BY DEF PipeInv, InCall
  <2>4. QED
    BY <2>1, <2>2, <2>3, InCallKept DEF PipeInv
<1>3. QED
  BY <1>1, <1>2 DEF Piped

\* What a step of the channels that accepts nothing asks of nobody.
LEMMA AllKept ==
    ASSUME IInv, IInv', [Next]_vars, accepted' = accepted
    PROVE  \A q \in Endpoints : Kept(q)
BY StepKeeps

LEMMA CallPipe ==
    ASSUME CapacityAssumption, OneTaskEach, ConnTypeOK, TypeOK', PipeInv,
           NEW t \in Tasks, NEW call \in {"send", "close"}, NEW S, NEW fr \in Seq(S),
           Acquire(t, call, fr), GoesOn(t),
           NEW l \in Nat, l = Len(wire[Owner(t)]),
           ws[Owner(t)] = "open" => Follows(Owner(t), fr, l)'
    PROVE  Piped'
<1>1. Write(t, call, fr) /\ UNCHANGED backlog
  BY AloneWrites
<1>2. QED
  BY <1>1, WritePipe DEF Piped

\* A call begins with nothing left over from the last.
LEMMA CallBegins ==
    ASSUME ConnTypeOK, TypeOK', PipeInv, NEW t \in Tasks, pc[t] = "idle", Kept(Owner(t)),
           NEW l \in Nat, l = Len(wire[Owner(t)]), ws[Owner(t)] = "open",
           NEW r, r = Returned(Owner(t))
    PROVE  /\ Follows(Owner(t), r, l)'
           /\ Over(Owner(t))' => \A fr : fr = Append(r, WsClose) => Follows(Owner(t), fr, l)'
<1> DEFINE p == Owner(t)
<1>1. /\ p \in Endpoints /\ TypeOK /\ Grows(sent[p], sent'[p])
      /\ sent'[p] \in Seq(Frames) /\ Len(sent[p]) \in Nat
  <2>1. p \in Endpoints /\ TypeOK /\ Grows(sent[p], sent'[p])
    BY OwnerType DEF ConnTypeOK, Kept
  <2>2. QED
    BY <2>1 DEF TypeOK
<1>2. Follows(p, <<>>, l)
  <2>1. Follows(p, outbox[t], Len(wire[p])) /\ outbox[t] = <<>>
    BY DEF PipeInv, InCall
  <2>2. QED
    BY <2>1
<1>3. Follows(p, r, l)'
  BY <1>1, <1>2, ReturnedFollows
<1>4. r \in Seq(Out(p)')
  BY <1>1, ReturnedType
<1>5. \A k \in 1 .. Len(r) : r[k] # WsClose
  <2>1. /\ Len(r) = Len(sent'[p]) - Len(sent[p])
        /\ \A i \in 1 .. Len(r) : r[i] = sent'[p][Len(sent[p]) + i]
    BY <1>1, ReturnedType
  <2>2. ASSUME NEW k \in 1 .. Len(r) PROVE r[k] \in Frames
    <3> DEFINE a == Len(sent[p])
               b == Len(sent'[p])
               c == Len(r)
    <3>1. a \in Nat /\ b \in Nat /\ c = b - a /\ k \in 1 .. c
      BY <1>1, <2>1
    <3>2. a + k \in 1 .. b
      <4> HIDE DEF a, b, c
      <4>1. QED
        BY <3>1
    <3>3. QED
      BY <1>1, <2>1, <3>2
  <2>3. QED
    BY <2>2, CloseIsNoFrame
<1>6. ASSUME Over(p)', NEW fr, fr = Append(r, WsClose) PROVE Follows(p, fr, l)'
  <2> PICK S : S = Out(p)'
    OBVIOUS
  <2>1. r \in Seq(S)
    BY <1>4
  <2>2. QED
    BY <1>1, <1>3, <1>5, <1>6, <2>1, CloseFollows
<1>7. QED
  BY <1>3, <1>6

\* The reader takes the first frame of a direction.
LEMMA RecvPipe ==
    ASSUME ConnInv, IInv, IInv', PipeInv, NEW p \in Endpoints, Recv(p), [Next]_vars
    PROVE  Piped'
<1> DEFINE q == Peer(p)
           f == Head(wire[q])
           n == Len(accepted[p])
<1>1. /\ q \in Endpoints /\ Peer(q) = p /\ q # p
      /\ ConnTypeOK /\ TypeOK /\ TypeOK'
      /\ wire[q] \in Seq(Frames \cup {WsClose}) /\ wire[q] # <<>> /\ f # WsClose
      /\ n \in Nat
  <2>1. q \in Endpoints /\ Peer(q) = p /\ q # p
    BY PeerType DEF Peer, Endpoints
  <2>2. ConnTypeOK /\ TypeOK /\ TypeOK'
    BY DEF ConnInv, IInv, SessionInv
  <2>3. wire[q] \in Seq(Frames \cup {WsClose})
    BY <2>1, <2>2 DEF ConnTypeOK
  <2>4. n \in Nat
    BY <2>2 DEF TypeOK
  <2>5. QED
    BY <2>1, <2>2, <2>3, <2>4 DEF Recv
<1>2. /\ wire' = [wire EXCEPT ![q] = Tail(@)]
      /\ UNCHANGED <<pc, outbox, holder, backlog, ws>> /\ Decrypt(p, f)
  BY DEF Recv
<1>3. sent' = sent /\ sendSeq' = sendSeq
  BY <1>2 DEF Decrypt, DecryptAccepts, DecryptRaises, vars, sender
<1>4. ~closed'[p] => ~closed[p] /\ Len(accepted'[p]) = n + 1
  <2>1. ASSUME ~closed[p], ~DecryptAccepts(p, f) PROVE FALSE
    <3>1. At(q, 1, wire[q][1]) /\ f = wire[q][1]
      BY <1>1, <2>1 DEF PipeInv, OnWire
    <3>2. n + 1 <= Len(sent[q]) /\ f = sent[q][n + 1] /\ Len(sent[q]) \in Nat
      BY <1>1, <3>1 DEF At, TypeOK
    <3>3. Accepts(p, f)
      BY <1>1, <2>1, <3>2, InvNextAccepted DEF NextFrameAccepted
    <3>4. QED
      BY <1>2, <2>1, <3>3 DEF Decrypt, DecryptRaises
  <2>2. CASE DecryptAccepts(p, f)
    <3>1. accepted'[p] = Append(accepted[p], f) /\ accepted[p] \in Seq(Frames) /\ ~closed[p]
      BY <1>1, <2>2 DEF DecryptAccepts, Accepts, TypeOK
    <3>2. QED
      BY <3>1
  <2>3. CASE closed[p] /\ ~DecryptAccepts(p, f)
    BY <1>2, <2>3 DEF Decrypt, DecryptRaises, vars
  <2>4. QED
    BY <2>1, <2>2, <2>3
<1>5. accepted'[q] = accepted[q]
  BY <1>1, <1>2 DEF Decrypt, DecryptAccepts, DecryptRaises, vars, receiver, TypeOK
<1>6. Kept(p)
  BY <1>1, <1>5, StepKeeps
<1>7. OnWire(p)'
  <2>1. wire'[p] = wire[p] /\ ws'[p] = ws[p]
    BY <1>1, <1>2 DEF ConnTypeOK
  <2>2. QED
    BY <1>1, <1>6, <2>1, OnWireKept DEF PipeInv
<1>8. Over(q) => Over(q)'
  BY <1>1, <1>3, ChannelKeeps DEF Over, SaidClose
<1>9. /\ Len(wire'[q]) = Len(wire[q]) - 1 /\ Len(wire[q]) \in Nat
      /\ \A k \in 1 .. Len(wire'[q]) : wire'[q][k] = wire[q][k + 1]
      /\ wire'[q] \in Seq(Frames \cup {WsClose})
  <2>1. wire'[q] = Tail(wire[q])
    BY <1>1, <1>2 DEF ConnTypeOK
  <2>2. QED
    BY <1>1, <2>1, HeadTailProperties
\* What was one place further on is at k now.
<1>10. ASSUME ~closed'[p], NEW k \in Nat, NEW g, At(q, k + 1, g) PROVE At(q, k, g)'
  <2> DEFINE a == Len(sent[q])
             b == Len(accepted'[p])
  <2>1. b = n + 1 /\ n + (k + 1) <= a /\ g = sent[q][n + (k + 1)]
    BY <1>1, <1>4, <1>10 DEF At
  <2>2. b + k = n + (k + 1)
    <3> HIDE DEF n, b
    <3>1. QED
      BY <1>1, <2>1
  <2>3. b + k <= a /\ g = sent[q][b + k]
    BY <2>1, <2>2
  <2>4. QED
    BY <1>1, <1>3, <2>3 DEF At
<1>11. OnWire(q)'
  <2>1. ASSUME NEW k \in 1 .. Len(wire'[q]), wire'[q][k] = WsClose
        PROVE  /\ k = Len(wire'[q]) /\ ws'[q] = "closed" /\ Over(q)'
               /\ \/ sendSeq'[q] > MaxSeq \/ closed'[p]
                  \/ Len(sent'[q]) = Len(accepted'[p]) + k - 1
    <3>1. k + 1 \in 1 .. Len(wire[q]) /\ wire[q][k + 1] = WsClose
      BY <1>9, <2>1
    <3> PICK j \in 1 .. Len(wire[q]) : j = k + 1
      BY <3>1
    <3>2. /\ j = Len(wire[q]) /\ ws[q] = "closed" /\ Over(q)
          /\ sendSeq[q] > MaxSeq \/ closed[p] \/ Len(sent[q]) = n + j - 1
      BY <1>1, <3>1 DEF PipeInv, OnWire
    <3>3. k = Len(wire'[q])
      BY <1>9, <3>2
    <3>4. ~closed'[p] /\ Len(sent[q]) = n + j - 1 => Len(sent'[q]) = Len(accepted'[p]) + k - 1
      <4> DEFINE b == Len(accepted'[p])
                 a == Len(sent[q])
      <4>1. ~closed'[p] => b = n + 1
        BY <1>4
      <4>2. b = n + 1 /\ a = n + j - 1 => a = b + k - 1
        <5> HIDE DEF a, b, n
        <5>1. QED
          BY <1>1
      <4>3. QED
        BY <1>3, <4>1, <4>2
    <3>5. closed[p] => closed'[p]
      BY <1>4
    <3>6. QED
      BY <1>2, <1>3, <1>8, <3>2, <3>3, <3>4, <3>5
  <2>2. ASSUME ~closed'[p], NEW k \in 1 .. Len(wire'[q]), wire'[q][k] # WsClose
        PROVE  At(q, k, wire[q][k])'
    <3>1. k + 1 \in 1 .. Len(wire[q]) /\ wire[q][k + 1] = wire'[q][k] /\ k \in Nat
      BY <1>9
    <3> PICK g : g = wire'[q][k]
      OBVIOUS
    <3>2. At(q, k + 1, g)
      BY <1>1, <1>4, <2>2, <3>1 DEF PipeInv, OnWire
    <3>3. At(q, k, g)'
      BY <1>10, <2>2, <3>1, <3>2
    <3>4. QED
      BY <3>3
  <2>3. QED
    BY <1>1, <2>1, <2>2 DEF OnWire
<1>12. ASSUME NEW t \in Tasks PROVE InCall(t)'
  <2>1. pc'[t] \in {"idle", "closed"} => outbox'[t] = <<>>
    BY <1>2 DEF PipeInv, InCall
  <2>2. CASE Owner(t) = q
    <3> PICK o \in Seq(Frames \cup {WsClose}) : o = outbox[t]
      BY <1>1 DEF ConnTypeOK
    <3>1. ASSUME NEW l \in Nat, Follows(q, o, l + 1) PROVE Follows(q, o, l)'
      <4>1. ASSUME NEW k \in 1 .. Len(o), o[k] = WsClose PROVE k = Len(o) /\ Over(q)'
        BY <1>8, <3>1, <4>1 DEF Follows
      <4>2. ASSUME ~closed'[p], NEW k \in 1 .. Len(o), o[k] # WsClose
            PROVE  At(q, l + k, o[k])'
        <5>1. At(q, (l + 1) + k, o[k])
          BY <1>1, <1>4, <3>1, <4>2 DEF Follows
        <5> PICK j \in Nat : j = l + k
          OBVIOUS
        <5>2. (l + 1) + k = j + 1
          OBVIOUS
        <5>3. At(q, j + 1, o[k])
          BY <5>1, <5>2
        <5>4. At(q, j, o[k])'
          BY <1>10, <4>2, <5>3
        <5>5. QED
          BY <5>4
      <4>3. ~closed'[p] => Len(sent'[q]) = Len(accepted'[p]) + l + FrameCount(o)
        <5> DEFINE a == Len(sent[q])
                   b == Len(accepted'[p])
                   c == FrameCount(o)
        <5>1. c \in Int
          BY DEF FrameCount
        <5>2. ~closed'[p] => a = n + (l + 1) + c /\ b = n + 1
          BY <1>1, <1>4, <3>1 DEF Follows
        <5>3. a = n + (l + 1) + c /\ b = n + 1 => a = b + l + c
          <6> HIDE DEF a, b, c, n
          <6>1. QED
            BY <1>1, <5>1
        <5>4. QED
          BY <1>3, <5>2, <5>3
      <4>4. QED
        BY <1>1, <4>1, <4>2, <4>3 DEF Follows, FrameCount, Carries
    <3>2. ASSUME ws[q] = "open" PROVE Follows(q, outbox[t], Len(wire[q]))'
      <4> PICK l \in Nat : l = Len(wire'[q])
        BY <1>9
      <4>1. Follows(q, o, Len(wire[q]))
        BY <2>2, <3>2 DEF PipeInv, InCall
      <4>2. Len(wire[q]) = l + 1
        BY <1>9
      <4>3. Follows(q, o, l)'
        BY <3>1, <4>1, <4>2
      <4>4. QED
        BY <1>2, <4>3
    <3>3. QED
      BY <1>2, <2>1, <2>2, <3>2 DEF InCall
  <2>3. CASE Owner(t) = p
    <3>1. wire'[p] = wire[p]
      BY <1>1, <1>2 DEF ConnTypeOK
    <3>2. QED
      BY <1>1, <1>2, <1>3, <1>6, <2>1, <2>3, <3>1, InCallKept DEF PipeInv, InCall
  <2>4. QED
    BY <1>1, <2>2, <2>3, OwnerType DEF Endpoints, Peer
<1>13. ASSUME NEW r \in Endpoints PROVE Alone(r)'
  BY <1>2 DEF PipeInv, Alone
<1>14. QED
  <2>1. \A r \in Endpoints : r = p \/ r = q
    BY DEF Endpoints, Peer
  <2>2. QED
    BY <1>7, <1>11, <1>12, <1>13, <2>1 DEF Piped

\* Send and close.
LEMMA CallsPipe ==
    ASSUME CapacityAssumption, OneTaskEach, ConnInv, IInv, IInv', [Next]_vars, PipeInv,
           NEW t \in Tasks, (\E m \in Msgs : Send(t, m)) \/ Close(t) \/ CloseSocketOnly(t)
    PROVE  Piped'
<1> DEFINE p == Owner(t)
<1>1. p \in Endpoints /\ pc[t] = "idle" /\ ConnTypeOK /\ TypeOK /\ TypeOK'
  BY OwnerType DEF Send, Close, CloseSocketOnly, ConnInv, IInv, SessionInv
<1>2. /\ accepted' = accepted
      /\ \A q \in Endpoints : q # p => sent'[q] = sent[q]
  <2>1. ASSUME NEW m \in Msgs, Send(t, m)
        PROVE  accepted' = accepted /\ \E s : sent' = [sent EXCEPT ![p] = s]
    BY <2>1 DEF Send, EncryptPlain, EncryptAfterRekey, receiver
  <2>2. CASE Close(t)
    BY <1>1, <2>2 DEF Close, CloseFrame, receiver, TypeOK
  <2>3. CASE CloseSocketOnly(t)
    BY <2>3 DEF CloseSocketOnly, EmitFails, vars, sender, receiver
  <2>4. QED
    BY <1>1, <2>1, <2>2, <2>3 DEF TypeOK
<1>3. (\A q \in Endpoints : Kept(q)) /\ GoesOn(t) /\ Grows(sent[p], sent'[p])
  <2>1. \A q \in Endpoints : Kept(q)
    BY <1>2, AllKept
  <2>2. QED
    BY <1>1, <1>2, <2>1 DEF GoesOn, Kept
<1> PICK l \in Nat : l = Len(wire[p])
  BY <1>1 DEF ConnTypeOK
<1> PICK r : r = Returned(p)
  OBVIOUS
<1> PICK S : S = Out(p)'
  OBVIOUS
<1>4. r \in Seq(S) /\ WsClose \in S
  BY <1>1, <1>3, ReturnedType DEF Out
<1>5. ASSUME ws[p] = "open"
      PROVE  /\ Follows(p, r, l)'
             /\ Over(p)' => \A fr : fr = Append(r, WsClose) => Follows(p, fr, l)'
  BY <1>1, <1>3, <1>5, CallBegins
<1>6. ASSUME NEW m \in Msgs, Send(t, m) PROVE Piped'
  <2>1. Acquire(t, "send", r)
    BY <1>6 DEF Send
  <2>2. QED
    BY <1>1, <1>3, <1>4, <1>5, <2>1, CallPipe
<1> PICK fr : fr = Append(r, WsClose)
  OBVIOUS
<1>7. fr \in Seq(S)
  BY <1>4, AppendProperties
<1>8. ASSUME Over(p)', Acquire(t, "close", fr) PROVE Piped'
  <2>1. ws[p] = "open" => Follows(p, fr, l)'
    BY <1>5, <1>8
  <2>2. QED
    BY <1>1, <1>3, <1>7, <1>8, <2>1, CallPipe
<1>9. CASE Close(t)
  <2>1. Over(p)'
    BY <1>1, <1>9, CloseIsSaid DEF Close, Over
  <2>2. Acquire(t, "close", fr)
    BY <1>9 DEF Close, CloseFrames
  <2>3. QED
    BY <1>8, <2>1, <2>2
<1>10. CASE CloseSocketOnly(t)
  <2>1. Over(p)'
    <3>1. Over(p)
      BY <1>1, <1>10 DEF CloseSocketOnly, Over, PipeInv, Closing
    <3>2. QED
      BY <1>1, <1>3, <3>1, OverKept
  <2>2. fr = <<WsClose>>
    <3>1. sent' = sent
      BY <1>10 DEF CloseSocketOnly, EmitFails, vars, sender
    <3>2. Returned(p) = <<>>
      <4>1. sent[p] \in Seq(Frames)
        BY <1>1 DEF TypeOK
      <4>2. QED
        BY <3>1, <4>1 DEF Returned
    <3>3. QED
      BY <3>2
  <2>3. Acquire(t, "close", fr)
    BY <1>10, <2>2 DEF CloseSocketOnly
  <2>4. QED
    BY <1>8, <2>1, <2>3
<1>11. QED
  BY <1>6, <1>9, <1>10

LEMMA DrainPipe ==
    ASSUME CapacityAssumption, OneTaskEach, ConnInv, IInv, IInv', PipeInv,
           NEW t \in Tasks, DrainDone(t)
    PROVE  Piped'
<1> DEFINE p == Owner(t)
<1>1. p \in Endpoints /\ UNCHANGED vars /\ ConnTypeOK /\ TypeOK /\ TypeOK'
  BY OwnerType DEF DrainDone, ConnInv, IInv, SessionInv
<1>2. \A q \in Endpoints : Kept(q)
  BY <1>1, AllKept DEF vars, receiver
<1>3. sent' = sent /\ GoesOn(t)
  BY <1>1, <1>2 DEF GoesOn, vars, sender
<1>4. CASE outbox[t] # <<>>
  <2> PICK o \in Seq(Frames \cup {WsClose}) : o = outbox[t]
    BY <1>1 DEF ConnTypeOK
  <2> PICK c : c = pc[t]
    OBVIOUS
  <2> PICK l \in Nat : l = Len(wire[p])
    BY <1>1 DEF ConnTypeOK
  <2>1. c \in {"send", "close"} /\ Acquire(t, c, o)
    BY <1>1, <1>4 DEF PipeInv, InCall, ConnTypeOK, DrainDone
  <2>2. ws[p] = "open" => Follows(p, o, l)'
    <3>1. ws[p] = "open" => Follows(p, o, l)
      BY DEF PipeInv, InCall
    <3>2. QED
      BY <1>1, <3>1 DEF Follows, At, Over, SaidClose, vars, sender, receiver
  <2>3. QED
    BY <1>1, <1>3, <2>1, <2>2, CallPipe
<1>5. CASE outbox[t] = <<>>
  <2>1. /\ holder' = [holder EXCEPT ![p] = NoTask] /\ pc' = [pc EXCEPT ![t] = "idle"]
        /\ UNCHANGED <<outbox, backlog, wire, ws>>
    BY <1>5 DEF DrainDone
  <2>2. /\ \A q \in Endpoints : ws'[q] \in {ws[q], "closed"} /\ holder'[q] \in {holder[q], NoTask}
        /\ \A u \in Tasks : pc'[u] \in {pc[u], "idle"} /\ (pc'[u] # pc[u] => outbox[u] = <<>>)
    BY <1>1, <1>5, <2>1 DEF ConnTypeOK
  <2>3. QED
    BY <1>1, <1>2, <1>3, <2>1, <2>2, QuietPipe
<1>6. QED
  BY <1>4, <1>5

LEMMA LostPipe ==
    ASSUME ConnInv, IInv, IInv', PipeInv, ConnectionLost PROVE Piped'
<1>1. UNCHANGED <<vars, pc, outbox, holder, backlog>> /\ ws' = [q \in Endpoints |-> "closed"]
  BY DEF ConnectionLost
<1>2. \A q \in Endpoints : Kept(q)
  BY <1>1, AllKept DEF vars, receiver
<1>3. PICK arrived \in [Endpoints -> 0 .. MaxSeq + 1] :
        /\ \A q \in Endpoints : arrived[q] <= Len(wire[q])
        /\ wire' = [q \in Endpoints |-> SubSeq(wire[q], 1, arrived[q])]
  BY DEF ConnectionLost
<1>4. ASSUME NEW q \in Endpoints PROVE OnWire(q)' /\ Alone(q)'
  <2>1. wire[q] \in Seq(Frames \cup {WsClose}) /\ arrived[q] \in 0 .. Len(wire[q])
    BY <1>3, MaxSeqAssumption DEF ConnInv, ConnTypeOK
  <2>2. /\ wire'[q] \in Seq(Frames \cup {WsClose}) /\ Len(wire'[q]) = arrived[q]
        /\ \A i \in 1 .. arrived[q] : wire'[q][i] = wire[q][i]
    BY <1>3, <2>1, PartType
  <2>3. \A k \in 1 .. Len(wire'[q]) : k \in 1 .. Len(wire[q]) /\ wire'[q][k] = wire[q][k]
    BY <2>1, <2>2
  <2>4. Len(wire'[q]) <= Len(wire[q]) /\ Len(wire[q]) \in Nat
    BY <2>1, <2>2
  <2>5. ASSUME NEW k \in 1 .. Len(wire'[q]), wire'[q][k] = WsClose
        PROVE  /\ k = Len(wire'[q]) /\ ws'[q] = "closed" /\ Over(q)'
               /\ \/ sendSeq'[q] > MaxSeq \/ closed'[Peer(q)]
                  \/ Len(sent'[q]) = Len(accepted'[Peer(q)]) + k - 1
    <3>1. k \in 1 .. Len(wire[q]) /\ wire[q][k] = WsClose
      BY <2>3, <2>5
    <3>2. /\ k = Len(wire[q]) /\ Over(q)
          /\ \/ sendSeq[q] > MaxSeq \/ closed[Peer(q)]
             \/ Len(sent[q]) = Len(accepted[Peer(q)]) + k - 1
      BY <3>1 DEF PipeInv, OnWire
    <3>3. k = Len(wire'[q])
      BY <2>2, <2>4, <3>2
    <3>4. QED
      BY <1>1, <3>2, <3>3 DEF Over, SaidClose, vars, sender, receiver
  <2>6. ASSUME ~closed'[Peer(q)], NEW k \in 1 .. Len(wire'[q]), wire'[q][k] # WsClose
        PROVE  At(q, k, wire[q][k])'
    <3>1. At(q, k, wire[q][k])
      BY <1>1, <2>3, <2>6 DEF PipeInv, OnWire, vars
    <3>2. wire'[q][k] = wire[q][k]
      BY <2>3
    <3>3. QED
      BY <1>1, <3>1, <3>2 DEF At, vars, sender, receiver
  <2>7. OnWire(q)'
    BY <2>5, <2>6 DEF OnWire
  <2>8. QED
    BY <1>1, <2>7 DEF PipeInv, Alone
<1>5. ASSUME NEW t \in Tasks PROVE InCall(t)'
  BY <1>1, OwnerType DEF PipeInv, InCall
<1>6. QED
  BY <1>4, <1>5 DEF Piped

LEMMA PipeStep ==
    ASSUME CapacityAssumption, OneTaskEach, ~MayCancel,
           ConnInv, IInv, IInv', PipeInv, [ConnNext]_allVars
    PROVE  PipeInv'
<1>1. [Next]_vars
  BY ChannelStep DEF allVars
<1>2. ConnTypeOK /\ TypeOK'
  BY DEF ConnInv, IInv, SessionInv
<1>3. \A p \in Endpoints : Closing(p)'
  BY <1>1, ClosingStep DEF PipeInv
<1>4. ASSUME NEW t \in Tasks, (\E m \in Msgs : Send(t, m)) \/ Close(t) \/ CloseSocketOnly(t)
      PROVE  Piped'
  BY <1>1, <1>4, CallsPipe
<1>5. ASSUME NEW t \in Tasks, DrainDone(t) PROVE Piped'
  BY <1>5, DrainPipe
<1>6. ASSUME NEW p \in Endpoints, Grant(p) PROVE Piped'
  BY <1>6 DEF Grant, PipeInv, Alone
<1>7. ASSUME NEW t \in Tasks, Cancel(t) PROVE Piped'
  BY <1>7 DEF Cancel
<1>8. ASSUME NEW p \in Endpoints, Recv(p) PROVE Piped'
  BY <1>1, <1>8, RecvPipe
<1>9. ASSUME ConnectionLost PROVE Piped'
  BY <1>9, LostPipe
<1>10. ASSUME sent' = sent, accepted' = accepted, UNCHANGED <<pc, outbox, holder, backlog, wire>>,
              \A q \in Endpoints : ws'[q] \in {ws[q], "closed"}
       PROVE  Piped'
  <2>1. \A q \in Endpoints : Kept(q)
    BY <1>1, <1>10, AllKept
  <2>2. QED
    BY <1>2, <1>10, <2>1, QuietPipe
<1>11. ASSUME UNCHANGED connVars, sent' = sent, accepted' = accepted PROVE Piped'
  BY <1>10, <1>11 DEF connVars
<1>12. ASSUME NEW p \in Endpoints, PeerClosed(p) PROVE Piped'
  BY <1>2, <1>10, <1>12 DEF PeerClosed, ConnTypeOK, vars, sender, receiver
<1>13. ASSUME NEW t \in Tasks, SendRaises(t) \/ CloseRaises(t) PROVE Piped'
  BY <1>11, <1>13 DEF SendRaises, CloseRaises, EmitFails, EncryptFailsAfterRekey, receiver
<1>14. ASSUME PolicyClock PROVE Piped'
  BY <1>11, <1>14 DEF PolicyClock, Tick, receiver
<1>15. ASSUME UNCHANGED allVars PROVE Piped'
  BY <1>11, <1>15 DEF allVars, vars, sender, receiver
<1>16. Piped'
  BY <1>4, <1>5, <1>6, <1>7, <1>8, <1>9, <1>12, <1>13, <1>14, <1>15 DEF ConnNext, System
<1>17. QED
  BY <1>3, <1>16 DEF PipeInv, Piped

LEMMA PipeHolds ==
    ASSUME OneTaskEach, ~MayCancel PROVE ConnSpec => [](PipeInv /\ ConnInv /\ IInv)
<1>1. ConnInit => PipeInv
  <2> SUFFICES ASSUME ConnInit PROVE PipeInv
    OBVIOUS
  <2>1. \A p \in Endpoints : Peer(p) \in Endpoints
    BY PeerType
  <2>2. \A p \in Endpoints : OnWire(p) /\ Alone(p) /\ Closing(p)
    BY <2>1, TasksAssumption DEF ConnInit, Init, OnWire, Alone, Closing, Tasks
  <2>3. ASSUME NEW t \in Tasks PROVE InCall(t)
    <3>1. Owner(t) \in Endpoints /\ Peer(Owner(t)) \in Endpoints
      BY <2>1, OwnerType
    <3>2. /\ outbox[t] = <<>> /\ sent[Owner(t)] = <<>> /\ accepted[Peer(Owner(t))] = <<>>
          /\ wire[Owner(t)] = <<>>
      BY <3>1 DEF ConnInit, Init
    <3>3. FrameCount(outbox[t]) = 0
      BY <3>2 DEF FrameCount, Carries
    <3>4. QED
      BY <3>2, <3>3 DEF InCall, Follows
  <2>4. QED
    BY <2>2, <2>3 DEF PipeInv
<1>2. PipeInv /\ ConnInv /\ IInv /\ ConnInv' /\ IInv' /\ [ConnNext]_allVars => PipeInv'
  BY CapacityAssumption, PipeStep
<1>3. QED
  BY <1>1, <1>2, ConnInvHolds, PTL DEF ConnSpec

(* A program whose sends do not overlap and are not cancelled never sees   *)
(* DecryptionError: whatever the buffer, the rekeys, close() on both sides *)
(* and a connection that breaks, what arrives is the next frame.           *)
THEOREM DeliveryAccepted ==
    ASSUME OneTaskEach, ~MayCancel PROVE ConnSpec => []DeliveredFrameAccepted
<1>1. PipeInv /\ ConnInv /\ IInv => DeliveredFrameAccepted
  <2> SUFFICES ASSUME PipeInv, ConnInv, IInv, NEW p \in Endpoints, ~closed[p],
                      wire[Peer(p)] # <<>>, Head(wire[Peer(p)]) # WsClose
               PROVE  Accepts(p, Head(wire[Peer(p)]))
    BY DEF DeliveredFrameAccepted
  <2> DEFINE q == Peer(p)
  <2>1. /\ q \in Endpoints /\ Peer(q) = p /\ wire[q] \in Seq(Frames \cup {WsClose}) /\ TypeOK
    BY PeerType DEF ConnInv, ConnTypeOK
  <2>2. At(q, 1, Head(wire[q]))
    BY <2>1 DEF PipeInv, OnWire
  <2>3. /\ Len(accepted[p]) + 1 <= Len(sent[q]) /\ Head(wire[q]) = sent[q][Len(accepted[p]) + 1]
        /\ Len(accepted[p]) \in Nat /\ Len(sent[q]) \in Nat
    BY <2>1, <2>2 DEF At, TypeOK
  <2>4. QED
    BY <2>3, InvNextAccepted DEF NextFrameAccepted
<1>2. QED
  BY <1>1, PipeHolds, PTL

(* And when the socket ends under such a reader without a CLOSE before it, *)
(* the writer had run out of sequence numbers: close() never drops the     *)
(* socket ahead of its own CLOSE frame.                                    *)
THEOREM EndAuthenticated ==
    ASSUME OneTaskEach, ~MayCancel PROVE ConnSpec => []EndIsAuthenticated
<1>1. PipeInv /\ ConnInv /\ IInv => EndIsAuthenticated
  <2> SUFFICES ASSUME PipeInv, ConnInv, IInv, NEW p \in Endpoints, ~closed[p],
                      wire[Peer(p)] # <<>>, Head(wire[Peer(p)]) = WsClose,
                      ~(sendSeq[Peer(p)] > MaxSeq)
               PROVE  FALSE
    BY DEF EndIsAuthenticated
  <2> DEFINE q == Peer(p)
  <2>1. /\ q \in Endpoints /\ Peer(q) = p /\ wire[q] \in Seq(Frames \cup {WsClose}) /\ TypeOK
    BY PeerType DEF ConnInv, ConnTypeOK
  <2>2. 1 \in 1 .. Len(wire[q]) /\ wire[q][1] = WsClose
    BY <2>1
  <2>3. Over(q) /\ Len(sent[q]) = Len(accepted[p]) + 1 - 1
    BY <2>1, <2>2 DEF PipeInv, OnWire
  <2>4. /\ sent[q] \in Seq(Frames) /\ accepted[p] \in Seq(Frames) /\ Len(sent[q]) = Len(accepted[p])
    BY <2>1, <2>3 DEF TypeOK
  <2>5. PICK i \in DOMAIN sent[q] : sent[q][i].type = "CLOSE"
    BY <2>1, <2>3 DEF Over, SaidClose
  <2>6. AcceptedPrefix(p)
    BY DEF IInv, SessionInv, EndpointInv
  <2>7. i \in DOMAIN accepted[p] /\ accepted[p][i] = sent[q][i]
    BY <2>4, <2>6 DEF AcceptedPrefix
  <2>8. QED
    BY <2>5, <2>7 DEF PipeInv, Closing
<1>2. QED
  BY <1>1, PipeHolds, PTL
-----------------------------------------------------------------------------
(* The echo session.  Its logs are compared as streams of messages: what   *)
(* the client has been given, what the server has sent, what the server    *)
(* has been given and what the client has sent are each a prefix of the    *)
(* next one and of the script.                                             *)

Asked == Payloads(sent["initiator"])
Heard == Payloads(accepted["responder"])
Answered == Payloads(sent["responder"])

\* What the client has asked and has still to ask is the script.
ScriptFollowed ==
    /\ asking \in Seq(Msgs)
    /\ Len(Asked) + Len(asking) = Len(Script)
    /\ \A n \in 1 .. Len(Asked) : Asked[n] = Script[n]
    /\ \A n \in 1 .. Len(asking) : asking[n] = Script[Len(Asked) + n]

\* The server owes an answer to the last message or to none.
ServerOwes ==
    LET last == accepted["responder"][Len(accepted["responder"])] IN
    IF serverAt = "answer" THEN Heard = Append(Answered, last.msg) ELSE Heard = Answered

\* The client has one message unanswered while it waits, none when it asks.
ClientOwed ==
    /\ replies = Payloads(accepted["initiator"])
    /\ clientAt = "ask" => Len(Asked) = Len(replies)
    /\ clientAt = "wait" => Len(Asked) = Len(replies) + 1

CloseIn(s) == \E i \in DOMAIN s : s[i].type = "CLOSE"

\* A CLOSE of the client is under way or heard only after the last reply; one
\* that is said because the socket is closed is never written.
Ending ==
    /\ clientAt = "close" => ws["initiator"] = "closed"
    /\ CloseIn(wire["initiator"]) => replies = Script
    /\ CloseIn(outbox[Client]) => replies = Script \/ ws["initiator"] = "closed"
    /\ closed["responder"] => replies = Script

EchoInv ==
    /\ ConnInv /\ IInv /\ LogsFollowed
    /\ ScriptFollowed /\ ServerOwes /\ ClientOwed /\ Ending

LEMMA OneEach ==
    ASSUME TasksAssumption, OneTaskPerProgram
    PROVE  /\ Client \in Tasks /\ Server \in Tasks /\ Client # Server
           /\ Owner(Client) = "initiator" /\ Owner(Server) = "responder"
           /\ \A t \in Tasks : t = Client \/ t = Server
           /\ "initiator" \in Endpoints /\ "responder" \in Endpoints
           /\ Peer("initiator") = "responder" /\ Peer("responder") = "initiator"
BY DEF TasksAssumption, OneTaskPerProgram, Tasks, Owner, Endpoints, Peer

\* How far each log has come, and that all of them follow the script.
LEMMA Chain ==
    ASSUME TasksAssumption, OneTaskPerProgram, ScriptAssumption, EchoInv
    PROVE  /\ replies \in Seq(Texts) /\ Answered \in Seq(Texts) /\ Heard \in Seq(Texts)
           /\ Asked \in Seq(Texts)
           /\ Len(replies) <= Len(Answered) /\ Len(Answered) <= Len(Heard)
           /\ Len(Heard) <= Len(Asked) /\ Len(Asked) <= Len(Script)
           /\ \A n \in 1 .. Len(replies) : replies[n] = Script[n]
           /\ \A n \in 1 .. Len(Heard) : Heard[n] = Script[n]
<1>1. /\ InOrderPrefix /\ LogsFollowed
      /\ sent \in [Endpoints -> Seq(Frames)] /\ accepted \in [Endpoints -> Seq(Frames)]
  BY SessionInOrder DEF EchoInv, IInv, SessionInv, TypeOK
<1>2. ASSUME NEW p \in Endpoints
      PROVE  /\ Payloads(accepted[p]) \in Seq(Texts) /\ Payloads(sent[Peer(p)]) \in Seq(Texts)
             /\ Len(Payloads(accepted[p])) <= Len(Payloads(sent[Peer(p)]))
             /\ \A n \in 1 .. Len(Payloads(accepted[p])) :
                  Payloads(sent[Peer(p)])[n] = Payloads(accepted[p])[n]
  <2> DEFINE a == accepted[p]
             s == sent[Peer(p)]
  <2>1. a \in Seq(Frames) /\ s \in Seq(Frames)
    BY <1>1, PeerType
  <2>2. Len(a) <= Len(s) /\ \A i \in 1 .. Len(a) : a[i] = s[i]
    BY <1>1 DEF InOrderPrefix
  <2>3. Followed(a) /\ Followed(s)
    BY <1>1, PeerType DEF LogsFollowed
  <2> HIDE DEF a, s
  <2>4. /\ Payloads(a) \in Seq(Texts) /\ Payloads(s) \in Seq(Texts)
        /\ Len(Payloads(a)) <= Len(Payloads(s))
        /\ \A n \in 1 .. Len(Payloads(a)) : Payloads(s)[n] = Payloads(a)[n]
    BY <2>1, <2>2, <2>3, PayloadsGrow
  <2>5. QED BY <2>4 DEF a, s
<1>3. /\ Heard \in Seq(Texts) /\ Asked \in Seq(Texts) /\ Len(Heard) <= Len(Asked)
      /\ \A n \in 1 .. Len(Heard) : Asked[n] = Heard[n]
  BY <1>2, OneEach DEF Heard, Asked
<1>4. /\ replies \in Seq(Texts) /\ Answered \in Seq(Texts) /\ Len(replies) <= Len(Answered)
      /\ \A n \in 1 .. Len(replies) : Answered[n] = replies[n]
  BY <1>2, OneEach DEF EchoInv, ClientOwed, Answered
<1>5. /\ Len(Answered) <= Len(Heard)
      /\ \A n \in 1 .. Len(Answered) : Heard[n] = Answered[n]
  <2>1. ASSUME NEW m PROVE /\ Len(Append(Answered, m)) = Len(Answered) + 1
                           /\ \A n \in 1 .. Len(Answered) : Append(Answered, m)[n] = Answered[n]
    BY <1>4
  <2>2. Len(Answered) \in Nat
    BY <1>4
  <2>3. QED BY <2>1, <2>2 DEF EchoInv, ServerOwes
<1>6. /\ Len(Asked) <= Len(Script) /\ \A n \in 1 .. Len(Asked) : Asked[n] = Script[n]
  <2>1. Len(asking) \in Nat /\ Len(Asked) \in Nat
    BY <1>3 DEF EchoInv, ScriptFollowed
  <2>2. QED BY <2>1 DEF EchoInv, ScriptFollowed
<1>7. \A n \in 1 .. Len(Heard) : Heard[n] = Script[n]
  BY <1>3, <1>6
<1>8. \A n \in 1 .. Len(replies) : replies[n] = Script[n]
  BY <1>3, <1>4, <1>5, <1>7
<1>9. QED BY <1>3, <1>4, <1>5, <1>6, <1>7, <1>8

\* Nothing left to ask and nothing unanswered: every message has its reply.
LEMMA AllAnswered ==
    ASSUME TasksAssumption, OneTaskPerProgram, ScriptAssumption, EchoInv,
           clientAt = "ask", asking = <<>>
    PROVE  replies = Script
<1>1. Len(Asked) = Len(Script)
  BY Chain DEF EchoInv, ScriptFollowed
<1>2. Len(replies) = Len(Script)
  BY <1>1 DEF EchoInv, ClientOwed
<1>3. /\ replies \in Seq(Texts) /\ Script \in Seq(Msgs)
      /\ \A n \in 1 .. Len(replies) : replies[n] = Script[n]
  BY Chain, ScriptAssumption
<1>4. QED BY <1>2, <1>3

\* A client that waits has not had all its replies.
LEMMA NotYetAnswered ==
    ASSUME TasksAssumption, OneTaskPerProgram, ScriptAssumption, EchoInv, clientAt = "wait"
    PROVE  replies # Script
<1>1. Len(Asked) = Len(replies) + 1 /\ Len(Asked) <= Len(Script) /\ Len(replies) \in Nat
  BY Chain DEF EchoInv, ClientOwed
<1>2. QED BY <1>1

\* What the server sends back is a message.
LEMMA AnswerIsMessage ==
    ASSUME TasksAssumption, OneTaskPerProgram, ScriptAssumption, EchoInv, serverAt = "answer"
    PROVE  accepted["responder"][Len(accepted["responder"])].msg \in Msgs
<1> DEFINE m == accepted["responder"][Len(accepted["responder"])].msg
           n == Len(Answered) + 1
<1>1. Heard = Append(Answered, m)
  BY DEF EchoInv, ServerOwes
<1>2. /\ Answered \in Seq(Texts) /\ Len(Heard) <= Len(Script)
      /\ \A k \in 1 .. Len(Heard) : Heard[k] = Script[k]
  <2>1. Len(Heard) <= Len(Asked) /\ Len(Asked) <= Len(Script)
    BY Chain
  <2>2. Heard \in Seq(Texts) /\ Asked \in Seq(Texts)
    BY Chain
  <2>3. QED BY <2>1, <2>2, Chain, ScriptAssumption
<1> HIDE DEF m
<1>3. Len(Heard) = n /\ Heard[n] = m /\ n \in 1 .. Len(Heard)
  BY <1>1, <1>2
<1>4. m = Script[n] /\ n \in 1 .. Len(Script)
  BY <1>2, <1>3, ScriptAssumption
<1>5. QED BY <1>4, ScriptAssumption DEF m

\* A call to send() adds its message to what its program has sent, and writes
\* no CLOSE.
LEMMA SendSays ==
    ASSUME ConnInv, IInv, LogsFollowed, TypeOK', [Next]_vars,
           NEW t \in Tasks, NEW m \in Msgs, Send(t, m), NEW p, p = Owner(t)
    PROVE  /\ Payloads(sent'[p]) = Append(Payloads(sent[p]), m)
           /\ \A q \in Endpoints : q # p => sent'[q] = sent[q]
           /\ accepted' = accepted /\ closed' = closed
           /\ ~CloseIn(Returned(p))
<1>1. /\ TypeOK /\ p \in Endpoints /\ (EncryptPlain(p, m) \/ EncryptAfterRekey(p, m))
      /\ sent \in [Endpoints -> Seq(Frames)]
  BY OwnerType DEF IInv, SessionInv, TypeOK, Send
<1>2. StreamSends(p, m)
  BY <1>1, EncryptPlainStream, EncryptAfterRekeyStream
<1>3. Payloads(sent'[p]) = Append(Payloads(sent[p]), m)
  <2>1. Carried(sent')[p] = Append(Carried(sent)[p], m)
    BY <1>1, <1>2 DEF StreamSends, Carried
  <2>2. QED BY <1>1, <2>1 DEF Carried
<1>4. accepted' = accepted /\ closed' = closed
  BY <1>1 DEF EncryptPlain, EncryptAfterRekey, receiver
<1>5. \A q \in Endpoints : q # p => sent'[q] = sent[q]
  <2>1. CASE EncryptPlain(p, m)
    <3>1. PICK s : sent' = [sent EXCEPT ![p] = s]
      BY <2>1 DEF EncryptPlain
    <3>2. QED BY <1>1, <3>1
  <2>2. CASE EncryptAfterRekey(p, m)
    <3>1. PICK s : sent' = [sent EXCEPT ![p] = s]
      BY <2>2 DEF EncryptAfterRekey
    <3>2. QED BY <1>1, <3>1
  <2>3. QED BY <1>1, <2>1, <2>2
<1> DEFINE a == Len(sent[p])
           b == Len(sent'[p])
<1>6. a \in Nat /\ b \in Nat /\ \A i \in a + 1 .. b : sent'[p][i].type # "CLOSE"
  <2>0. a \in Nat /\ b \in Nat
    BY <1>1 DEF TypeOK
  <2>1. CASE EncryptPlain(p, m)
    <3> DEFINE f == Emit("TRANSPORT", sendSeq[p], sendCipher[p], m)
    <3>1. sent'[p] = Append(sent[p], f) /\ f.type = "TRANSPORT"
      BY <1>1, <2>1 DEF EncryptPlain, Emit
    <3> HIDE DEF f
    <3>2. b = a + 1 /\ sent'[p][a + 1] = f
      BY <1>1, <3>1
    <3>3. QED BY <2>0, <3>1, <3>2
  <2>2. CASE EncryptAfterRekey(p, m)
    <3> DEFINE r == Emit("REKEY", sendSeq[p], sendCipher[p], NoMsg)
               f == Emit("TRANSPORT", sendSeq[p] + 1, Ratchet(Advance(sendCipher[p])), m)
    <3>1. sent'[p] = Append(Append(sent[p], r), f)
      BY <1>1, <2>2 DEF EncryptAfterRekey
    <3>2. r.type = "REKEY" /\ f.type = "TRANSPORT"
      BY DEF Emit
    <3> HIDE DEF f, r
    <3>3. b = a + 2 /\ sent'[p][a + 1] = r /\ sent'[p][a + 2] = f
      BY <1>1, <3>1
    <3>4. \A i \in a + 1 .. b : i = a + 1 \/ i = a + 2
      BY <2>0, <3>3
    <3>5. QED BY <2>0, <3>2, <3>3, <3>4
  <2>3. QED BY <1>1, <2>0, <2>1, <2>2
<1>7. ~CloseIn(Returned(p))
  <2>1. /\ Len(Returned(p)) = b - a
        /\ \A i \in 1 .. Len(Returned(p)) : Returned(p)[i] = sent'[p][a + i]
        /\ DOMAIN Returned(p) = 1 .. Len(Returned(p))
    <3>1. Grows(sent[p], sent'[p])
      BY <1>1, SentGrows
    <3>2. /\ Returned(p) \in Seq(Out(p)')
          /\ Len(Returned(p)) = Len(sent'[p]) - Len(sent[p])
          /\ \A i \in 1 .. Len(Returned(p)) : Returned(p)[i] = sent'[p][Len(sent[p]) + i]
      BY <1>1, <3>1, ReturnedType
    <3>3. DOMAIN Returned(p) = 1 .. Len(Returned(p))
      BY <3>2, LenProperties
    <3>4. QED BY <3>2, <3>3
  <2>2. \A i \in 1 .. Len(Returned(p)) : a + i \in a + 1 .. b
    <3> HIDE DEF a, b
    <3>1. QED BY <1>6, <2>1
  <2> HIDE DEF a, b
  <2>3. QED BY <1>6, <2>1, <2>2 DEF CloseIn
<1>8. QED BY <1>3, <1>4, <1>5, <1>7

\* A call to recv() accepts the head of the wire, or nothing.
LEMMA RecvHears ==
    ASSUME ConnInv, IInv, LogsFollowed, NEW p \in Endpoints, Recv(p)
    PROVE  /\ sent' = sent
           /\ \/ /\ accepted' = accepted /\ closed' = closed
                 /\ JustAccepted(p) = {}
              \/ /\ ~closed[p]
                 /\ closed' = [closed EXCEPT ![p] = (Head(wire[Peer(p)]).type = "CLOSE")]
                 /\ \A q \in Endpoints : q # p => accepted'[q] = accepted[q]
                 /\ Payloads(accepted'[p]) = With(Payloads(accepted[p]), Head(wire[Peer(p)]))
                 /\ accepted'[p][Len(accepted'[p])] = Head(wire[Peer(p)])
                 /\ JustAccepted(p) = {Head(wire[Peer(p)])}
<1> DEFINE f == Head(wire[Peer(p)])
<1>1. f \in Network(p)
  <2>1. wire[Peer(p)] \in Seq(Out(Peer(p))) /\ wire[Peer(p)] # <<>> /\ f # WsClose
    BY PeerType DEF Recv, ConnInv, FromSender
  <2>2. f \in Out(Peer(p))
    BY <2>1
  <2>3. QED BY <2>1, <2>2 DEF Out, Network
<1>2. TypeOK /\ accepted \in [Endpoints -> Seq(Frames)] /\ f \in Frames
  BY <1>1, NetworkType DEF IInv, SessionInv, TypeOK
<1>3. CASE DecryptRaises(p, f)
  <2>1. sent' = sent /\ accepted' = accepted /\ closed' = closed
    BY <1>3 DEF DecryptRaises, vars, sender, receiver
  <2>2. JustAccepted(p) = {}
    BY <1>2, <2>1 DEF JustAccepted
  <2>3. QED BY <2>1, <2>2
<1>4. CASE DecryptAccepts(p, f)
  <2> HIDE DEF f
  <2>1. /\ sent' = sent /\ ~closed[p] /\ closed' = [closed EXCEPT ![p] = (f.type = "CLOSE")]
        /\ accepted' = Grown(accepted, p, f)
    BY <1>4 DEF DecryptAccepts, Accepts, sender, Grown
  <2> DEFINE s == accepted[p]
             t == Append(s, f)
  <2>2. s \in Seq(Frames) /\ accepted'[p] = t
        /\ \A q \in Endpoints : q # p => accepted'[q] = accepted[q]
    BY <1>2, <2>1 DEF Grown
  <2>3. Len(t) = Len(s) + 1 /\ Len(s) \in Nat /\ t[Len(s) + 1] = f
    BY <1>2, <2>2
  <2>4. Followed(s)
    BY DEF LogsFollowed
  <2>5. Payloads(t) = With(Payloads(s), f)
    <3> HIDE DEF s
    <3>1. QED BY <1>2, <2>2, <2>4, PayloadsAppend
  <2> HIDE DEF t
  <2>6. JustAccepted(p) = {f}
    <3>1. Len(s) + 1 .. Len(t) = {Len(s) + 1}
      BY <2>3
    <3>2. QED BY <2>2, <2>3, <3>1 DEF JustAccepted
  <2>7. QED BY <2>1, <2>2, <2>3, <2>5, <2>6 DEF f
<1>5. QED BY <1>3, <1>4 DEF Recv, Decrypt

\* What a write does with the frames of its task: none is written once the
\* socket is closed, and what stays behind is the task's own.
LEMMA AcquireCloses ==
    ASSUME CapacityAssumption, TasksAssumption, OneTaskPerProgram, ConnTypeOK,
           NEW t \in Tasks, NEW call, NEW S, NEW frames \in Seq(S),
           Acquire(t, call, frames)
    PROVE  /\ ws["initiator"] = "closed" => ws'["initiator"] = "closed"
           /\ CloseIn(wire'["initiator"]) =>
                \/ CloseIn(wire["initiator"])
                \/ t = Client /\ ws["initiator"] # "closed" /\ CloseIn(frames)
           /\ CloseIn(outbox'[Client]) =>
                CloseIn(outbox[Client]) \/ (t = Client /\ CloseIn(frames))
<1> DEFINE p == Owner(t)
<1>1. p \in Endpoints /\ Client \in Tasks /\ (p = "initiator" <=> t = Client)
      /\ "initiator" \in Endpoints
  BY OneEach, OwnerType
<1>2. ASSUME NEW s \in Seq(Frames \cup {WsClose}), NEW n \in 0 .. Len(frames)
      PROVE  /\ CloseIn(s \o SubSeq(frames, 1, n)) => CloseIn(s) \/ CloseIn(frames)
             /\ CloseIn(SubSeq(frames, n + 1, Len(frames))) => CloseIn(frames)
  <2> DEFINE U == S \cup Frames \cup {WsClose}
  <2>1. s \in Seq(U) /\ frames \in Seq(U)
    BY <1>2, SeqMonotonic
  <2> HIDE DEF U
  <2>2. \A f : /\ Carries(s \o SubSeq(frames, 1, n), f) => Carries(s, f) \/ Carries(frames, f)
               /\ Carries(SubSeq(frames, n + 1, Len(frames)), f) => Carries(frames, f)
    BY <2>1, CarriesParts
  <2>3. QED BY <2>2 DEF CloseIn, Carries
<1>3. ~CloseIn(<<>>)
  BY DEF CloseIn
<1>4. CASE Write(t, call, frames)
  <2>1. PICK n \in 0 .. Len(frames) : Wrote(t, call, frames, n)
    BY <1>4, WriteEffect
  <2>2. CloseIn(outbox'[Client]) => CloseIn(outbox[Client]) \/ (t = Client /\ CloseIn(frames))
    <3>1. PICK rest \in {<<>>, SubSeq(frames, n + 1, Len(frames))} :
            outbox' = [outbox EXCEPT ![t] = rest]
      BY <2>1 DEF Wrote
    <3>2. CloseIn(rest) => CloseIn(frames)
      <4>1. <<>> \in Seq(Frames \cup {WsClose})
        BY EmptySeq
      <4>2. CloseIn(SubSeq(frames, n + 1, Len(frames))) => CloseIn(frames)
        BY <1>2, <4>1
      <4>3. QED BY <1>3, <4>2
    <3>3. outbox'[Client] = IF t = Client THEN rest ELSE outbox[Client]
      BY <1>1, <3>1 DEF ConnTypeOK
    <3>4. QED BY <3>2, <3>3
  <2>3. CASE ws[p] = "closed"
    <3>1. UNCHANGED <<wire, ws>>
      BY <2>3, <1>4 DEF Write
    <3>2. QED BY <1>1, <2>2, <2>3, <3>1
  <2>4. CASE ws[p] # "closed"
    <3>1. wire' = [wire EXCEPT ![p] = @ \o SubSeq(frames, 1, n)]
          /\ \E s : ws' = [ws EXCEPT ![p] = s]
      BY <2>1 DEF Wrote
    <3>2. wire \in [Endpoints -> Seq(Frames \cup {WsClose})]
      BY DEF ConnTypeOK
    <3>3. CASE t = Client
      <4>1. p = "initiator" /\ wire["initiator"] \in Seq(Frames \cup {WsClose})
        BY <1>1, <3>2, <3>3
      <4>2. wire'["initiator"] = wire["initiator"] \o SubSeq(frames, 1, n)
        BY <1>1, <3>1, <3>2, <4>1
      <4>3. CloseIn(wire'["initiator"]) => CloseIn(wire["initiator"]) \/ CloseIn(frames)
        BY <1>2, <4>1, <4>2
      <4>4. QED BY <2>2, <2>4, <3>3, <4>1, <4>3
    <3>4. CASE t # Client
      <4>1. p # "initiator"
        BY <1>1, <3>4
      <4>2. wire'["initiator"] = wire["initiator"] /\ ws'["initiator"] = ws["initiator"]
        BY <1>1, <3>1, <3>2, <4>1 DEF ConnTypeOK
      <4>3. QED BY <2>2, <4>2
    <3>5. QED BY <3>3, <3>4
  <2>5. QED BY <2>3, <2>4
<1>5. CASE outbox' = [outbox EXCEPT ![t] = frames] /\ UNCHANGED <<wire, ws>>
  <2>1. outbox'[Client] = IF t = Client THEN frames ELSE outbox[Client]
    BY <1>1, <1>5 DEF ConnTypeOK
  <2>2. QED BY <1>5, <2>1
<1>6. QED BY <1>4, <1>5 DEF Acquire

\* The channels' and the connections' part of the invariant.
LEMMA EchoUsesConn ==
    ASSUME CapacityAssumption, TasksAssumption, OneTaskPerProgram, ScriptAssumption,
           EchoInv, [EchoNext]_echoVars
    PROVE  /\ [Next]_vars /\ TypeOK' /\ LogsFollowed'
           /\ ConnInv' /\ IInv'
<1>1. ConnInv /\ IInv /\ LogsFollowed /\ SessionInv
  BY DEF EchoInv, IInv
<1>2. CASE [ConnNext]_allVars
  <2>1. [Next]_vars
    BY <1>1, <1>2, ChannelStep DEF allVars
  <2>2. ConnInv' /\ IInv'
    BY <1>1, <1>2, StepConn
  <2>3. LogsFollowed'
    BY <1>1, <2>1, StreamStep
  <2>4. QED BY <2>1, <2>2, <2>3 DEF IInv, SessionInv
<1>3. CASE ServerCloses
  <2>1. UNCHANGED vars
    BY <1>3 DEF ServerCloses
  <2>2. [Next]_vars
    BY <2>1
  <2>3. IInv' /\ LogsFollowed'
    BY <1>1, <2>2, NextInv, StreamStep
  <2>4. Settled
    <3>1. TypeOK /\ TypeOK'
      BY <1>1, <2>3 DEF IInv, SessionInv
    <3>2. QED BY <1>1, <2>2, <3>1, SentGrows, OutGrows DEF Settled, ConnInv
  <2>5. <<WsClose>> \in Seq(Out(Owner(Server))')
    BY DEF Out
  <2>6. ConnInv'
    BY <1>3, <2>4, <2>5, OneEach, AcquireTyped DEF ServerCloses, Calls, ConnInv
  <2>7. QED BY <2>2, <2>3, <2>6 DEF IInv, SessionInv
<1>4. CASE ClientAsks
  <2>1. Head(asking) \in Msgs
    BY <1>4 DEF ClientAsks, EchoInv, ScriptFollowed
  <2>2. QED BY <1>2, <1>4, <2>1, OneEach DEF ClientAsks, ConnNext
<1>5. CASE ServerAnswers
  BY <1>2, <1>5, OneEach, AnswerIsMessage DEF ServerAnswers, ConnNext
<1>6. CASE ClientReads \/ ServerReads
  BY <1>2, <1>6, OneEach DEF ClientReads, ServerReads, ConnNext, System
<1>7. CASE ClientCloses
  BY <1>2, <1>7, OneEach DEF ClientCloses, ConnNext
<1>8. CASE ClientFails \/ ServerFails
  BY <1>2, <1>8 DEF ClientFails, ServerFails
<1>9. CASE \/ \E t \in Tasks : DrainDone(t)
           \/ \E p \in Endpoints : PeerClosed(p)
           \/ ConnectionLost
           \/ PolicyClock
  BY <1>2, <1>9 DEF ConnNext, System
<1>10. CASE UNCHANGED echoVars
  BY <1>2, <1>10 DEF echoVars
<1>11. QED
  BY <1>3, <1>4, <1>5, <1>6, <1>7, <1>8, <1>9, <1>10 DEF EchoNext

\* A step that sends and accepts nothing.
LEMMA QuietTalk ==
    ASSUME EchoInv, sent' = sent, accepted' = accepted,
           UNCHANGED <<asking, replies>>, serverAt' = "answer" <=> serverAt = "answer",
           clientAt' \in {clientAt, "close", "done"}
    PROVE  ScriptFollowed' /\ ServerOwes' /\ ClientOwed'
<1>1. Asked' = Asked /\ Heard' = Heard /\ Answered' = Answered
  BY DEF Asked, Heard, Answered
<1>2. ScriptFollowed /\ ServerOwes /\ ClientOwed
  BY DEF EchoInv
<1>3. QED BY <1>1, <1>2 DEF ScriptFollowed, ServerOwes, ClientOwed

\* A write that adds no CLOSE too early.
LEMMA WriteEnding ==
    ASSUME CapacityAssumption, TasksAssumption, OneTaskPerProgram, EchoInv,
           NEW t \in Tasks, NEW call, NEW S, NEW frames \in Seq(S),
           Acquire(t, call, frames), closed' = closed, replies' = replies,
           clientAt' = "close" => clientAt = "close",
           t = Client /\ CloseIn(frames) => replies = Script \/ ws["initiator"] = "closed"
    PROVE  Ending'
<1>1. Ending /\ ConnTypeOK
  BY DEF EchoInv, ConnInv
<1>2. /\ ws["initiator"] = "closed" => ws'["initiator"] = "closed"
      /\ CloseIn(wire'["initiator"]) =>
           \/ CloseIn(wire["initiator"])
           \/ t = Client /\ ws["initiator"] # "closed" /\ CloseIn(frames)
      /\ CloseIn(outbox'[Client]) =>
           CloseIn(outbox[Client]) \/ (t = Client /\ CloseIn(frames))
  BY <1>1, AcquireCloses
<1>3. CloseIn(wire["initiator"])' <=> CloseIn(wire'["initiator"])
  BY DEF CloseIn
<1>4. CloseIn(outbox[Client])' <=> CloseIn(outbox'[Client])
  BY DEF CloseIn
<1>5. QED BY <1>1, <1>2, <1>3, <1>4 DEF Ending

LEMMA ReturnedFrames ==
    ASSUME TypeOK, TypeOK', [Next]_vars, NEW p \in Endpoints
    PROVE  Returned(p) \in Seq(Frames)
<1>1. sent[p] \in Seq(Frames) /\ sent'[p] \in Seq(Frames)
  BY DEF TypeOK
<1>2. Grows(sent[p], sent'[p])
  BY SentGrows
<1>3. QED BY <1>1, <1>2 DEF Returned, Grows

LEMMA ClientAsksEcho ==
    ASSUME CapacityAssumption, TasksAssumption, OneTaskPerProgram, ScriptAssumption,
           EchoInv, TypeOK', [Next]_vars, ClientAsks
    PROVE  ScriptFollowed' /\ ServerOwes' /\ ClientOwed' /\ Ending'
<1> DEFINE m == Head(asking)
           frames == Returned("initiator")
<1>1. ConnInv /\ IInv /\ LogsFollowed /\ ScriptFollowed /\ ServerOwes /\ ClientOwed
  BY DEF EchoInv
<1>2. /\ m \in Msgs /\ asking' = Tail(asking) /\ clientAt = "ask" /\ clientAt' = "wait"
      /\ replies' = replies /\ serverAt' = serverAt /\ Send(Client, m) /\ asking # <<>>
  BY <1>1 DEF ClientAsks, ScriptFollowed, AfterAsk
<1>3. /\ Payloads(sent'["initiator"]) = Append(Payloads(sent["initiator"]), m)
      /\ \A q \in Endpoints : q # "initiator" => sent'[q] = sent[q]
      /\ accepted' = accepted /\ closed' = closed
      /\ ~CloseIn(frames)
  <2> HIDE DEF m
  <2>1. QED BY <1>1, <1>2, OneEach, SendSays
<1>4. Asked' = Append(Asked, m) /\ Answered' = Answered /\ Heard' = Heard
  <2>1. "responder" \in Endpoints /\ "responder" # "initiator"
    BY OneEach
  <2>2. sent'["responder"] = sent["responder"]
    BY <1>3, <2>1
  <2>3. QED BY <1>3, <2>2 DEF Asked, Answered, Heard
<1>5. Asked \in Seq(Texts) /\ asking \in Seq(Msgs) /\ Script \in Seq(Msgs)
  BY <1>1, Chain, ScriptAssumption DEF ScriptFollowed
<1>6. /\ Len(Asked') = Len(Asked) + 1 /\ Asked'[Len(Asked) + 1] = asking[1]
      /\ \A n \in 1 .. Len(Asked) : Asked'[n] = Asked[n]
  BY <1>2, <1>4, <1>5
<1>7. /\ asking' \in Seq(Msgs) /\ Len(asking') = Len(asking) - 1 /\ Len(asking) >= 1
      /\ \A n \in 1 .. Len(asking) - 1 : asking'[n] = asking[n + 1]
  BY <1>2, <1>5
<1>8. ScriptFollowed'
  <2> DEFINE a == Len(Asked)
             b == Len(asking)
  <2>1. /\ a \in Nat /\ b \in Nat /\ a + b = Len(Script)
        /\ \A n \in 1 .. a : Asked[n] = Script[n]
        /\ \A n \in 1 .. b : asking[n] = Script[a + n]
    BY <1>1, <1>5 DEF ScriptFollowed
  <2> HIDE DEF a, b
  <2>2. Len(Asked') = a + 1 /\ Len(asking') = b - 1 /\ b >= 1
    BY <1>6, <1>7 DEF a, b
  <2>3. ASSUME NEW n \in 1 .. a + 1 PROVE Asked'[n] = Script[n]
    <3>1. CASE n \in 1 .. a
      BY <1>6, <2>1, <3>1 DEF a
    <3>2. CASE n = a + 1
      BY <1>6, <2>1, <2>2, <3>2 DEF a
    <3>3. QED BY <2>1, <3>1, <3>2
  <2>4. ASSUME NEW n \in 1 .. b - 1 PROVE asking'[n] = Script[(a + 1) + n]
    <3>1. n + 1 \in 1 .. b /\ a + (n + 1) = (a + 1) + n
      BY <2>1
    <3>2. asking[n + 1] = Script[a + (n + 1)]
      BY <2>1, <3>1
    <3>3. asking'[n] = asking[n + 1]
      BY <1>7 DEF b
    <3>4. QED BY <3>1, <3>2, <3>3
  <2>5. Len(Asked') + Len(asking') = Len(Script)
    BY <2>1, <2>2
  <2>6. QED BY <1>7, <2>2, <2>3, <2>4, <2>5 DEF ScriptFollowed
<1>9. ServerOwes' /\ ClientOwed'
  <2>1. Len(Asked') = Len(replies) + 1
    BY <1>1, <1>2, <1>6 DEF ClientOwed
  <2>2. QED BY <1>1, <1>2, <1>3, <1>4, <2>1 DEF ServerOwes, ClientOwed
<1>10. Ending'
  <2>1. frames \in Seq(Frames)
    BY <1>1, OneEach, ReturnedFrames DEF IInv, SessionInv
  <2>2. Acquire(Client, "send", frames)
    BY <1>2, OneEach DEF Send
  <2> HIDE DEF frames
  <2>3. QED BY <1>2, <1>3, <2>1, <2>2, OneEach, WriteEnding
<1>11. QED BY <1>8, <1>9, <1>10

LEMMA ServerAnswersEcho ==
    ASSUME CapacityAssumption, TasksAssumption, OneTaskPerProgram, ScriptAssumption,
           EchoInv, TypeOK', [Next]_vars, ServerAnswers
    PROVE  ScriptFollowed' /\ ServerOwes' /\ ClientOwed' /\ Ending'
<1> DEFINE m == accepted["responder"][Len(accepted["responder"])].msg
           frames == Returned("responder")
<1>1. ConnInv /\ IInv /\ LogsFollowed /\ ScriptFollowed /\ ServerOwes /\ ClientOwed
  BY DEF EchoInv
<1>2. /\ serverAt = "answer" /\ serverAt' = "read" /\ Send(Server, m)
      /\ UNCHANGED <<asking, replies, clientAt>>
  BY DEF ServerAnswers
<1>3. m \in Msgs
  BY <1>2, AnswerIsMessage
<1>4. /\ Payloads(sent'["responder"]) = Append(Payloads(sent["responder"]), m)
      /\ \A q \in Endpoints : q # "responder" => sent'[q] = sent[q]
      /\ accepted' = accepted /\ closed' = closed
  <2> HIDE DEF m
  <2>1. QED BY <1>1, <1>2, <1>3, OneEach, SendSays
<1>5. Asked' = Asked /\ Heard' = Heard /\ Answered' = Append(Answered, m)
  <2>1. sent'["initiator"] = sent["initiator"]
    BY <1>4, OneEach
  <2>2. QED BY <1>4, <2>1 DEF Asked, Answered, Heard
<1>6. Heard = Append(Answered, m)
  BY <1>1, <1>2 DEF ServerOwes
<1> HIDE DEF m
<1>7. ScriptFollowed' /\ ServerOwes' /\ ClientOwed'
  BY <1>1, <1>2, <1>4, <1>5, <1>6 DEF ScriptFollowed, ServerOwes, ClientOwed
<1>8. Ending'
  <2>1. frames \in Seq(Frames)
    BY <1>1, OneEach, ReturnedFrames DEF IInv, SessionInv
  <2>2. Acquire(Server, "send", frames)
    BY <1>2, OneEach DEF Send
  <2> HIDE DEF frames
  <2>3. QED BY <1>2, <1>4, <2>1, <2>2, OneEach, WriteEnding
<1>9. QED BY <1>7, <1>8

\* close() after the last reply, or with the socket closed.
LEMMA ClientClosesEcho ==
    ASSUME CapacityAssumption, TasksAssumption, OneTaskPerProgram, ScriptAssumption,
           EchoInv, TypeOK', [Next]_vars, ClientCloses
    PROVE  ScriptFollowed' /\ ServerOwes' /\ ClientOwed' /\ Ending'
<1> DEFINE frames == CloseFrames("initiator")
<1>1. /\ ConnInv /\ IInv /\ LogsFollowed /\ ScriptFollowed /\ ServerOwes /\ ClientOwed
      /\ Ending /\ TypeOK
  BY DEF EchoInv, IInv, SessionInv
<1>2. /\ CloseFrame("initiator") /\ Acquire(Client, "close", frames)
      /\ UNCHANGED <<asking, replies, serverAt>> /\ clientAt' = "done"
      /\ clientAt = "close" \/ (clientAt = "ask" /\ asking = <<>>)
  BY OneEach DEF ClientCloses, Close
<1>3. Carried(sent') = Carried(sent) /\ accepted' = accepted
  BY <1>1, <1>2, OneEach, CloseFrameStream DEF StreamEnds, CloseFrame, receiver
<1>4. Asked' = Asked /\ Heard' = Heard /\ Answered' = Answered
  <2>1. \A p \in Endpoints : Payloads(sent'[p]) = Carried(sent')[p]
                            /\ Payloads(sent[p]) = Carried(sent)[p]
    BY DEF Carried
  <2>2. QED BY <1>3, <2>1, OneEach DEF Asked, Heard, Answered
<1>5. ScriptFollowed' /\ ServerOwes' /\ ClientOwed'
  BY <1>1, <1>2, <1>3, <1>4 DEF ScriptFollowed, ServerOwes, ClientOwed
<1>6. replies = Script \/ ws["initiator"] = "closed"
  BY <1>1, <1>2, AllAnswered DEF Ending
<1>7. frames \in Seq(Frames \cup {WsClose})
  <2>1. Returned("initiator") \in Seq(Frames)
    BY <1>1, OneEach, ReturnedFrames
  <2>2. Returned("initiator") \in Seq(Frames \cup {WsClose})
    BY <2>1, SeqMonotonic
  <2>3. QED BY <2>2, AppendProperties DEF CloseFrames
<1>8. closed'["responder"] = closed["responder"]
  BY <1>1, <1>2 DEF CloseFrame, TypeOK
<1> HIDE DEF frames
<1>9. /\ ws["initiator"] = "closed" => ws'["initiator"] = "closed"
      /\ CloseIn(wire'["initiator"]) =>
           \/ CloseIn(wire["initiator"])
           \/ ws["initiator"] # "closed"
  BY <1>1, <1>2, <1>7, OneEach, AcquireCloses DEF ConnInv
<1>10. CloseIn(wire["initiator"])' <=> CloseIn(wire'["initiator"])
  BY DEF CloseIn
<1>11. Ending'
  BY <1>1, <1>2, <1>6, <1>8, <1>9, <1>10 DEF Ending
<1>12. QED BY <1>5, <1>11

\* A turn of the client's recv(): a message is the reply it waits for.
LEMMA ClientReadsEcho ==
    ASSUME TasksAssumption, OneTaskPerProgram, ScriptAssumption, EchoInv, ClientReads
    PROVE  ScriptFollowed' /\ ServerOwes' /\ ClientOwed' /\ Ending'
<1> DEFINE f == Head(wire["responder"])
           new == JustAccepted("initiator")
           got == Payloads(accepted["initiator"])
           reply == ReplyIn(new)
<1>1. /\ ConnInv /\ IInv /\ LogsFollowed /\ ScriptFollowed /\ ServerOwes /\ ClientOwed
      /\ Ending /\ TypeOK
  BY DEF EchoInv, IInv, SessionInv
<1>2. /\ clientAt = "wait" /\ Recv("initiator") /\ UNCHANGED <<asking, serverAt>>
      /\ IF DOMAIN reply = {}
           THEN UNCHANGED <<replies, clientAt>>
           ELSE /\ \E g \in DOMAIN reply : replies' = Append(replies, reply[g])
                /\ clientAt' = "ask"
  BY DEF ClientReads
<1>3. /\ sent' = sent
      /\ \/ accepted' = accepted /\ closed' = closed /\ new = {}
         \/ /\ closed' = [closed EXCEPT !["initiator"] = (f.type = "CLOSE")]
            /\ \A q \in Endpoints : q # "initiator" => accepted'[q] = accepted[q]
            /\ Payloads(accepted'["initiator"]) = With(got, f)
            /\ new = {f}
  <2>1. "initiator" \in Endpoints /\ Peer("initiator") = "responder"
    BY OneEach
  <2>2. QED BY <1>1, <1>2, <2>1, RecvHears
<1>4. accepted'["responder"] = accepted["responder"] /\ closed'["responder"] = closed["responder"]
  BY <1>1, <1>3, OneEach DEF TypeOK
<1>5. Asked' = Asked /\ Heard' = Heard /\ Answered' = Answered
  BY <1>3, <1>4 DEF Asked, Heard, Answered
<1>6. replies = got /\ Len(Asked) = Len(replies) + 1
  BY <1>1, <1>2 DEF ClientOwed
<1>7. ClientOwed'
  <2>1. CASE new = {f} /\ f.type = "TRANSPORT"
    <3>1. DOMAIN reply = {f} /\ reply[f] = f.msg
      BY <2>1 DEF ReplyIn
    <3>2. replies' = Append(replies, f.msg) /\ clientAt' = "ask"
      BY <1>2, <3>1
    <3>3. Payloads(accepted'["initiator"]) = Append(got, f.msg)
      BY <1>3, <2>1 DEF With
    <3>4. replies \in Seq(Texts)
      BY Chain
    <3> HIDE DEF f
    <3>5. Len(replies') = Len(Asked)
      <4>1. Len(Append(replies, f.msg)) = Len(replies) + 1
        BY <3>4
      <4>2. QED BY <1>6, <3>2, <4>1
    <3>6. QED BY <1>5, <1>6, <3>2, <3>3, <3>5 DEF ClientOwed
  <2>2. CASE ~(new = {f} /\ f.type = "TRANSPORT")
    <3>1. Payloads(accepted'["initiator"]) = got
      BY <1>3, <2>2 DEF With
    <3>2. DOMAIN reply = {}
      BY <1>3, <2>2 DEF ReplyIn
    <3>3. UNCHANGED <<replies, clientAt>>
      BY <1>2, <3>2
    <3>4. QED BY <1>1, <1>5, <1>6, <3>1, <3>3 DEF ClientOwed
  <2>3. QED BY <2>1, <2>2
<1>8. ScriptFollowed' /\ ServerOwes'
  BY <1>1, <1>2, <1>4, <1>5 DEF ScriptFollowed, ServerOwes
<1>9. Ending'
  <2>1. wire'["initiator"] = wire["initiator"] /\ outbox' = outbox /\ ws' = ws
    BY <1>1, <1>2, OneEach DEF Recv, ConnInv, ConnTypeOK
  <2>2. replies # Script
    BY <1>2, NotYetAnswered
  <2>3. clientAt' # "close"
    BY <1>2
  <2>4. QED BY <1>1, <1>4, <2>1, <2>2, <2>3 DEF Ending, CloseIn
<1>10. QED BY <1>7, <1>8, <1>9

\* A turn of the server's recv(): a message is to be answered, and a CLOSE
\* was said after the last reply.
LEMMA ServerReadsEcho ==
    ASSUME TasksAssumption, OneTaskPerProgram, ScriptAssumption, EchoInv, ServerReads
    PROVE  ScriptFollowed' /\ ServerOwes' /\ ClientOwed' /\ Ending'
<1> DEFINE f == Head(wire["initiator"])
           new == JustAccepted("responder")
<1>1. /\ ConnInv /\ IInv /\ LogsFollowed /\ ScriptFollowed /\ ServerOwes /\ ClientOwed
      /\ Ending /\ TypeOK
  BY DEF EchoInv, IInv, SessionInv
<1>2. /\ serverAt = "read" /\ Recv("responder") /\ UNCHANGED <<asking, replies, clientAt>>
      /\ serverAt' = CASE \E g \in new : g.type = "TRANSPORT" -> "answer"
                       [] \E g \in new : g.type = "CLOSE" -> "done"
                       [] OTHER -> "read"
  BY DEF ServerReads
<1>3. /\ sent' = sent
      /\ \/ accepted' = accepted /\ closed' = closed /\ new = {}
         \/ /\ closed' = [closed EXCEPT !["responder"] = (f.type = "CLOSE")]
            /\ \A q \in Endpoints : q # "responder" => accepted'[q] = accepted[q]
            /\ Payloads(accepted'["responder"]) = With(Heard, f)
            /\ accepted'["responder"][Len(accepted'["responder"])] = f
            /\ new = {f}
  <2>1. "responder" \in Endpoints /\ Peer("responder") = "initiator"
    BY OneEach
  <2>2. QED BY <1>1, <1>2, <2>1, RecvHears DEF Heard
<1>4. accepted'["initiator"] = accepted["initiator"] /\ Heard = Answered
  BY <1>1, <1>2, <1>3, OneEach DEF TypeOK, ServerOwes
<1>5. Asked' = Asked /\ Answered' = Answered
  BY <1>3 DEF Asked, Answered
<1>6. ServerOwes'
  <2>1. CASE new = {f} /\ f.type = "TRANSPORT"
    <3>1. serverAt' = "answer"
      BY <1>2, <2>1
    <3>2. Heard' = Append(Heard, f.msg)
      BY <1>3, <2>1 DEF With, Heard
    <3>3. QED BY <1>3, <1>4, <1>5, <2>1, <3>1, <3>2 DEF ServerOwes
  <2>2. CASE ~(new = {f} /\ f.type = "TRANSPORT")
    <3>1. serverAt' # "answer"
      BY <1>2, <1>3, <2>2
    <3>2. Heard' = Heard
      BY <1>3, <2>2 DEF With, Heard
    <3>3. QED BY <1>4, <1>5, <3>1, <3>2 DEF ServerOwes
  <2>3. QED BY <2>1, <2>2
<1>7. ScriptFollowed' /\ ClientOwed'
  BY <1>1, <1>2, <1>4, <1>5 DEF ScriptFollowed, ClientOwed
<1>8. Ending'
  <2>1. /\ wire' = [wire EXCEPT !["initiator"] = Tail(@)] /\ wire["initiator"] # <<>>
        /\ outbox' = outbox /\ ws' = ws
    BY <1>2, OneEach DEF Recv
  <2> DEFINE w == wire["initiator"]
  <2>2. w \in Seq(Frames \cup {WsClose}) /\ wire'["initiator"] = Tail(w)
    BY <1>1, <2>1, OneEach DEF ConnInv, ConnTypeOK
  <2>3. CloseIn(Tail(w)) => CloseIn(w)
    <3>1. /\ DOMAIN Tail(w) = 1 .. Len(w) - 1 /\ DOMAIN w = 1 .. Len(w) /\ Len(w) \in Nat
          /\ \A i \in 1 .. Len(w) - 1 : Tail(w)[i] = w[i + 1]
      BY <2>1, <2>2
    <3> HIDE DEF w
    <3>2. QED BY <3>1 DEF CloseIn
  <2>4. f.type = "CLOSE" => CloseIn(w)
    <3>1. 1 \in DOMAIN w /\ w[1] = f
      BY <2>1, <2>2
    <3>2. QED BY <3>1 DEF CloseIn
  <2>5. closed'["responder"] => closed["responder"] \/ f.type = "CLOSE"
    BY <1>1, <1>3, OneEach DEF TypeOK
  <2>6. CloseIn(wire["initiator"])' <=> CloseIn(wire'["initiator"])
    BY DEF CloseIn
  <2> HIDE DEF w
  <2>7. QED BY <1>1, <1>2, <2>1, <2>2, <2>3, <2>4, <2>5, <2>6 DEF Ending, CloseIn, w
<1>9. QED BY <1>6, <1>7, <1>8

\* The socket never opens again, and nothing else changes that Ending reads.
LEMMA QuietEnding ==
    ASSUME EchoInv, closed' = closed, replies' = replies, outbox' = outbox,
           ws["initiator"] = "closed" => ws'["initiator"] = "closed",
           CloseIn(wire'["initiator"]) => CloseIn(wire["initiator"]),
           clientAt' = "close" => clientAt = "close" \/ ws["initiator"] = "closed"
    PROVE  Ending'
<1>1. Ending
  BY DEF EchoInv
<1>2. /\ CloseIn(wire["initiator"])' <=> CloseIn(wire'["initiator"])
      /\ CloseIn(outbox[Client])' <=> CloseIn(outbox'[Client])
  BY DEF CloseIn
<1>3. CloseIn(outbox'[Client]) => CloseIn(outbox[Client])
  OBVIOUS
<1>4. QED BY <1>1, <1>2, <1>3 DEF Ending

\* recv() raises in one of the programs, or the server's handler returns.
LEMMA ProgramEndsEcho ==
    ASSUME CapacityAssumption, TasksAssumption, OneTaskPerProgram, EchoInv,
           ClientFails \/ ServerFails \/ ServerCloses
    PROVE  ScriptFollowed' /\ ServerOwes' /\ ClientOwed' /\ Ending'
<1>1. CASE ClientFails
  <2>1. /\ UNCHANGED <<allVars, asking, replies, serverAt>> /\ clientAt' = "close"
        /\ ws["initiator"] = "closed"
    BY <1>1 DEF ClientFails, NothingToRead
  <2>2. UNCHANGED <<sent, accepted, closed, outbox, wire, ws>>
    BY <2>1 DEF allVars, vars, connVars, sender, receiver
  <2>3. QED BY <2>1, <2>2, QuietTalk, QuietEnding
<1>2. CASE ServerFails
  <2>1. /\ UNCHANGED <<allVars, asking, replies, clientAt>>
        /\ serverAt = "read" /\ serverAt' = "done"
    BY <1>2 DEF ServerFails
  <2>2. UNCHANGED <<sent, accepted, closed, outbox, wire, ws>>
    BY <2>1 DEF allVars, vars, connVars, sender, receiver
  <2>3. QED BY <2>1, <2>2, QuietTalk, QuietEnding
<1>3. CASE ServerCloses
  <2>1. /\ UNCHANGED <<vars, asking, replies, clientAt>>
        /\ serverAt = "done" /\ serverAt' = "gone" /\ Acquire(Server, "close", <<WsClose>>)
    BY <1>3 DEF ServerCloses
  <2>2. UNCHANGED <<sent, accepted, closed>>
    BY <2>1 DEF vars, sender, receiver
  <2>3. <<WsClose>> \in Seq({WsClose}) /\ Server \in Tasks /\ Server # Client
    BY OneEach
  <2>4. Ending'
    BY <2>1, <2>2, <2>3, WriteEnding
  <2>5. QED BY <2>1, <2>2, <2>4, QuietTalk
<1>4. QED BY <1>1, <1>2, <1>3

\* A write that had blocked goes on.
LEMMA DrainEcho ==
    ASSUME CapacityAssumption, TasksAssumption, OneTaskPerProgram, EchoInv,
           NEW t \in Tasks, DrainDone(t), UNCHANGED programs
    PROVE  ScriptFollowed' /\ ServerOwes' /\ ClientOwed' /\ Ending'
<1>1. /\ UNCHANGED <<asking, replies, clientAt, serverAt, sent, accepted, closed>>
      /\ ConnTypeOK /\ Ending
  BY DEF DrainDone, programs, vars, sender, receiver, EchoInv, ConnInv
<1>2. Ending'
  <2>1. CASE outbox[t] # <<>>
    <3> DEFINE frames == outbox[t]
               call == pc[t]
    <3>1. Acquire(t, call, frames) /\ frames \in Seq(Frames \cup {WsClose})
      BY <1>1, <2>1 DEF DrainDone, ConnTypeOK
    <3>2. t = Client /\ CloseIn(frames) => replies = Script \/ ws["initiator"] = "closed"
      BY <1>1 DEF Ending
    <3> HIDE DEF frames, call
    <3>3. QED BY <1>1, <3>1, <3>2, WriteEnding
  <2>2. CASE outbox[t] = <<>>
    <3>1. UNCHANGED <<outbox, wire, ws>>
      BY <2>2 DEF DrainDone
    <3>2. QED BY <1>1, <3>1, QuietEnding
  <2>3. QED BY <2>1, <2>2
<1>3. QED BY <1>1, <1>2, QuietTalk

\* The network and the clock.
LEMMA OutsideEcho ==
    ASSUME EchoInv, UNCHANGED programs,
           \/ \E p \in Endpoints : PeerClosed(p)
           \/ ConnectionLost
           \/ PolicyClock
    PROVE  ScriptFollowed' /\ ServerOwes' /\ ClientOwed' /\ Ending'
<1>1. /\ UNCHANGED <<asking, replies, clientAt, serverAt, sent, accepted, closed, outbox>>
      /\ ConnTypeOK /\ "initiator" \in Endpoints
  BY DEF PeerClosed, ConnectionLost, PolicyClock, Tick, connVars, programs, vars, sender,
         receiver, EchoInv, ConnInv, Endpoints
<1>2. Ending'
  <2>1. CASE \E p \in Endpoints : PeerClosed(p)
    <3>1. PICK p \in Endpoints : ws' = [ws EXCEPT ![p] = "closed"] /\ wire' = wire
      BY <2>1 DEF PeerClosed
    <3>2. ws["initiator"] = "closed" => ws'["initiator"] = "closed"
      BY <1>1, <3>1 DEF ConnTypeOK
    <3>3. QED BY <1>1, <3>1, <3>2, QuietEnding
  <2>2. CASE ConnectionLost
    <3>1. ws'["initiator"] = "closed"
      BY <1>1, <2>2 DEF ConnectionLost
    <3> PICK w \in Seq(Frames \cup {WsClose}) : w = wire["initiator"]
      BY <1>1 DEF ConnTypeOK
    <3>2. PICK n \in 0 .. MaxSeq + 1 : n <= Len(w) /\ wire'["initiator"] = SubSeq(w, 1, n)
      BY <1>1, <2>2 DEF ConnectionLost
    <3>3. n \in 0 .. Len(w)
      BY <3>2
    <3>4. DOMAIN SubSeq(w, 1, n) = 1 .. n /\ DOMAIN w = 1 .. Len(w)
          /\ \A i \in 1 .. n : SubSeq(w, 1, n)[i] = w[i] /\ i \in 1 .. Len(w)
      BY <3>3
    <3>5. CloseIn(wire'["initiator"]) => CloseIn(wire["initiator"])
      BY <3>2, <3>4 DEF CloseIn
    <3>6. QED BY <1>1, <3>1, <3>5, QuietEnding
  <2>3. CASE PolicyClock
    <3>1. UNCHANGED <<wire, ws>>
      BY <2>3 DEF PolicyClock, connVars
    <3>2. QED BY <1>1, <3>1, QuietEnding
  <2>4. QED BY <2>1, <2>2, <2>3
<1>3. QED BY <1>1, <1>2, QuietTalk

LEMMA EchoStep ==
    ASSUME CapacityAssumption, TasksAssumption, OneTaskPerProgram, ScriptAssumption,
           EchoInv, [EchoNext]_echoVars
    PROVE  EchoInv'
<1>1. [Next]_vars /\ TypeOK' /\ LogsFollowed' /\ ConnInv' /\ IInv'
  BY EchoUsesConn
<1> SUFFICES ScriptFollowed' /\ ServerOwes' /\ ClientOwed' /\ Ending'
  BY <1>1 DEF EchoInv
<1>2. CASE ClientAsks
  BY <1>1, <1>2, ClientAsksEcho
<1>3. CASE ClientReads
  BY <1>3, ClientReadsEcho
<1>4. CASE ClientCloses
  BY <1>1, <1>4, ClientClosesEcho
<1>5. CASE ServerReads
  BY <1>5, ServerReadsEcho
<1>6. CASE ServerAnswers
  BY <1>1, <1>6, ServerAnswersEcho
<1>7. CASE ClientFails \/ ServerFails \/ ServerCloses
  BY <1>7, ProgramEndsEcho
<1>8. CASE \E t \in Tasks : DrainDone(t) /\ UNCHANGED programs
  BY <1>8, DrainEcho
<1>9. CASE /\ UNCHANGED programs
           /\ \/ \E p \in Endpoints : PeerClosed(p)
              \/ ConnectionLost
              \/ PolicyClock
  BY <1>9, OutsideEcho
<1>10. CASE UNCHANGED echoVars
  <2>1. /\ UNCHANGED <<asking, replies, clientAt, serverAt, sent, accepted, closed, outbox>>
        /\ UNCHANGED <<wire, ws>>
    BY <1>10 DEF echoVars, programs, allVars, vars, connVars, sender, receiver
  <2>2. QED BY <2>1, QuietTalk, QuietEnding
<1>11. QED
  BY <1>2, <1>3, <1>4, <1>5, <1>6, <1>7, <1>8, <1>9, <1>10 DEF EchoNext

LEMMA EchoStart ==
    ASSUME TasksAssumption, OneTaskPerProgram, ScriptAssumption
    PROVE  EchoInit => EchoInv
<1> SUFFICES ASSUME EchoInit PROVE EchoInv
  OBVIOUS
<1>1. /\ ConnInit /\ Init /\ asking = Script /\ replies = <<>>
      /\ clientAt = "ask" /\ serverAt = "read"
  BY DEF EchoInit, ConnInit
<1>2. ConnInv /\ IInv
  BY <1>1, InitConn
<1>3. /\ LogsFollowed
      /\ \A p \in Endpoints : Payloads(sent[p]) = <<>> /\ Payloads(accepted[p]) = <<>>
  <2>1. NothingSaid
    BY <1>1, NothingYetSaid DEF Init, NothingYet
  <2>2. QED BY <2>1 DEF NothingSaid, Carried
<1>4. Asked = <<>> /\ Heard = <<>> /\ Answered = <<>> /\ replies = Payloads(accepted["initiator"])
  BY <1>1, <1>3, OneEach DEF Asked, Heard, Answered
<1>5. ScriptFollowed
  <2>1. Len(Asked) = 0 /\ Script \in Seq(Msgs) /\ asking = Script
    BY <1>1, <1>4, ScriptAssumption
  <2>2. \A n \in 1 .. Len(Script) : 0 + n = n
    OBVIOUS
  <2>3. 0 + Len(Script) = Len(Script)
    BY <2>1
  <2>4. QED BY <2>1, <2>2, <2>3 DEF ScriptFollowed
<1>6. ServerOwes /\ ClientOwed
  BY <1>1, <1>4 DEF ServerOwes, ClientOwed
<1>7. Ending
  <2>1. wire["initiator"] = <<>> /\ outbox[Client] = <<>> /\ ~closed["responder"]
    BY <1>1, OneEach DEF ConnInit, Init
  <2>2. ~CloseIn(wire["initiator"]) /\ ~CloseIn(outbox[Client])
    BY <2>1 DEF CloseIn
  <2>3. QED BY <1>1, <2>1, <2>2 DEF Ending
<1>8. QED BY <1>2, <1>3, <1>5, <1>6, <1>7 DEF EchoInv

(* examples/client.py against examples/server.py, for every script, buffer *)
(* and rekeying policy, whether or not the connection breaks: an orderly   *)
(* end tells the server that the client has had the echo of every message, *)
(* in the order of the script.                                             *)
THEOREM EchoIsComplete ==
    ASSUME OneTaskPerProgram PROVE EchoSpec => []CloseMeansAnswered
<1>1. EchoInit => EchoInv
  BY TasksAssumption, ScriptAssumption, EchoStart
<1>2. EchoInv /\ [EchoNext]_echoVars => EchoInv'
  BY CapacityAssumption, TasksAssumption, ScriptAssumption, EchoStep
<1>3. EchoInv => CloseMeansAnswered
  BY DEF EchoInv, Ending, CloseMeansAnswered
<1>4. QED BY <1>1, <1>2, <1>3, PTL DEF EchoSpec
=============================================================================
