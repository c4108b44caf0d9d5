# Relay (securews): TLA+ models, checks and proofs

TLA+ modules for the package in `src/src/securews`: end-to-end encrypted
messages over a WebSocket, with a Noise XX handshake, sequence-numbered frames,
a replay window, rekeying, and several ways to authenticate the peer.  TLC
checks small instances (`MC*.cfg`); TLAPS proves the main safety properties for
every value of the constants (`*Proofs.tla`).

Run from this directory: `tlc -config MCReconnect.cfg MCReconnect.tla`,
`tlapm SecureChannelProofs.tla`.  `PROJECT.json` lists the runs, and maps each
definition to the source lines it stands for.

## 1. The system

| Component | State | Operations |
|---|---|---|
| `ReplayWindow` (replay.py) | highest number, bitmap of the last *size* | check, commit, check_and_update |
| `RekeyPolicy` (rekey.py) | messages since the last rekey, time of it | due, note_message, reset |
| `SecureChannel` (channel.py) | send sequence number, two Noise cipher states, a window, a policy, closed flag | encrypt, close_frame, decrypt |
| Framing (framing.py, protocol.py) | none | pack_header, encode, decode |
| `SecureConnection` (transport.py) | a WebSocket and a channel | send, recv, iteration, close |
| Handshake driver (handshake.py, transport.py) | step, write index, transcript, peer's static key and certificate | write, read, result; the driver and its timeout |
| Trust decision (transport.py) | none of its own | the accept block of connect and serve |
| `KnownPeers`, `StaticIdentity` (identity.py) | pins; a key pair | pin, verify, trust_or_verify, save, load; wipe |
| `CertificateAuthority`, `IdentityCertificate`, `RevocationList` (ca.py) | signing key; revoked keys and subjects | issue, verify; revoke, save, load |
| Setting up (transport.py) | none of its own | connect, serve: argument checks, TLS, certificate pin, handshake, decision |
| Example programs (`src/examples`) | an identity file and a pin file | the clients and the echo server |
| Crypto helpers, logging policy, errors | none | pure functions |
| Noise and WebSocket libraries | external | |

How they interact.  `connect()` and `serve()` open a WebSocket, drive the
handshake over it (three messages that alternate; one `await` per message),
decide whether to trust the peer (no `await` at all), and wrap the result in a
`SecureChannel` inside a `SecureConnection`.  From then on the program's asyncio
tasks call `send`, `recv` and `close`; each call of the channel is synchronous,
and each frame it returns is one `await ws.send(frame)`.  A `KnownPeers` store and
a `RevocationList` may be shared by any number of calls and changed in between;
a client may hand in its own window and policy.

What is hard to get right here, and to test:

- two layers judge each received frame by different numbers (the header's `seq`
  against the window; the cipher's own counter), and must never disagree about
  the frame that comes next, whatever was presented before;
- both directions ratchet their keys in step with the frames that announce it;
- calls may fail half way (a number spent, a key ratcheted, a frame dropped),
  and nonces run out;
- tasks of one program interleave at every `await`, get cancelled there, and
  queue for the WebSocket's lock;
- the initiator is finished with the handshake before the responder is, and may
  already send, or close;
- a timeout races the last message; a peer may stall in a read or in a send;
- what one call does to the shared store decides what a later call accepts;
- a window or a policy that has served one session can be handed to the next;
- two programs that read only between their own sends can hold each other up;
- a store is saved by truncating and then writing, and a program can die in
  between; what the next run finds decides whom it trusts;
- a certificate is any bytes a peer chooses, and the signed text joins its fields
  with a character that a field may contain;
- a frame's header is packed again before it is authenticated, so `decode` must
  accept exactly one encoding.

`PROJECT.json` ("hazards") lists these at the line where each bites, with the
properties that cover it or the reason why none does.

What makes each component correct: the window answers as unbounded memory would;
a key never encrypts more than its share of messages; the channel delivers a
prefix of what was sent, never reuses a nonce and ends only with everything
delivered; a connection delivers all that is sent, ends every call, and never
turns a loss into an orderly end; a handshake leaves both sides with the same
transcript or no session; a decision accepts only what every named authenticator
vouches for.

## 2. Modules

```
ReplayOps ── ReplayWindow ──implements── ReplayGuard
    │             └ ReplayWindowProofs
RekeyOps
    └── SecureChannel
              ├ Reconnect ── MCReconnect ──implements── MessageStream
              │     └ SecureChannelProofs
              └ SecureConnection
                     └ EchoSession ── MCEcho
                           └ SecureConnectionProofs   (of both, with SecureChannelProofs)
Handshake ── HandshakeProofs           (before the channel exists)
Admission                              (the decision between the two)
    └ Setup ── MCSetup ──implements── Admission    (connect() around it)
          └ AdmissionProofs
Certificates ── MCCertificates
    └ CertificatesProofs
Framing ── FramingProofs
StoreFile ── ClientProgram ── ClientProgramProofs
```

**ReplayOps, ReplayWindow, ReplayGuard.**  The window's methods as operators on a
value `[highest, bitmap]`, and a state machine that calls them in any order.  The
Python int used as a bitmap is the set of its set bits: a shift adds to each
element, the mask intersects.  `ReplayGuard` is the abstract object: it remembers
every number ever committed.

**RekeyOps.**  `RekeyPolicy` as `[count, age]`.  `due()` only compares the age with
`max_seconds`, so the age stops there: that bound loses nothing.

**SecureChannel, MessageStream.**  Both channels of a session.  Actions:
`EncryptPlain` and `EncryptAfterRekey` are the two ways through `encrypt()`,
`EmitFails` and `EncryptFailsAfterRekey` the two places where it raises with
something already changed, `CloseFrame`, `DecryptAccepts`, `DecryptRaises`, and
`Tick` for the policy's clock.  (`encrypt` of an oversized message, or on a closed
channel, raises before anything has changed; that is a stuttering step.)
Encryption is symbolic: a frame is under key number `k` and nonce `n`; anything
the peer's channel did not make for this session, alterations included, is under
`NoKey`, because the header is the associated data.  The network presents any
frame ever sent, any number of times and in any order, or a forged one with any
sequence number.  `MessageStream` is what the pair promises: a FIFO stream each
way, an end that is heard only after everything else, and nothing of one session
in the next.

**Reconnect.**  The same client connects again (`Connect`): new keys and channels,
but the window and the policy may be those of the session before, which
`connect()` allows.  To a new session the frames of the old one are forged.

**SecureConnection.**  The same two channels used by asyncio tasks over one
WebSocket.  A step is what a task does between two awaits.  The WebSocket is
external: a lock that is handed over first come first served, a write buffer of
`Capacity` frames, ordered delivery, a Close handshake, and a connection that may
break (`websockets` 14 and later; the legacy implementation, which `websockets>=12`
also admits, has no such lock around a blocked drain, and interleaves at the same
awaits).  Tasks can be cancelled wherever they wait.  A reading task per
side calls `recv` for as long as there is something to read; it reads on after an
error, which is the hardest case for the channel.

**EchoSession.**  The example client and server on top of `SecureConnection`, with
the reading tasks replaced by the programs: the client waits for each echo before
it sends the next message, the server answers before it reads on.  The state added
is where each program stands; an exception out of `send` or `recv` takes it to its
`finally`.

**Handshake.**  `_drive_handshake` on both sides of one WebSocket, from the top of
its loop to each await (`Continue`), with the timeout around it and what `connect`
and `serve` do with a failure (`Fail`).  Noise is symbolic: a message after the
first opens only for a reader with the writer's transcript.  Which sides have a
certificate and which have a timeout is chosen in `Init`.  A few steps of the
session are included to see that the two phases cannot be confused on the wire
they share.  The trust decision is a free choice.  `connect` and `serve` differ in
nothing that matters here but the side they play.

**Admission.**  The accept block.  `RefuseOutright` and `Decide` split it at the
only place where it changes something (`KnownPeers.pin`); between decisions the
program pins and revokes, the authority issues, the clock is set to anything.  A
certificate's signature verifies iff the authority issued exactly its contents.
No revocation list is the empty list.

**Setup.**  `connect()` as a whole, around `Admission`: the checks of its arguments
(a failing one raises with nothing changed, so only good arguments `Begin`), the
TLS link with its certificate, verified or not, the certificate pin, and the
decision of `Admission` after an await in which anything of `Admission` can happen
(`Meanwhile`), and other connections may trust their peers on first use
(`FirstUseElsewhere`).  A decision has no `await`, so connections that overlap decide
one after the other, but in any order, and on a store that has changed since the call
began.  `Abandon` is a
handshake that fails.

**Certificates.**  Issuing, serialising, parsing and verifying.  The signed text is
a sequence of lines, because `_canonical` joins with newlines and a subject may
contain some; a signature is the pair of signer and text.  A document is any
combination of fields, each of which may be unusable, with any signature seen or
made by another authority, or no object at all.  Its fields are what `str()` and
`bytes.fromhex()` make of them, so all spellings of a value are one; `int()` of the
expiry is modelled (`Truncated`, `Overflows`), as it is where `issue` adds a fractional
lifetime to a fractional clock: time has a resolution of half a second (`Second`),
expiries of one.  A lifetime that ends within the current second therefore gives a
certificate that has expired already; the code promises nothing else, and no property
forbids it.  The verdict is "valid" or the exception that leaves `from_bytes` or
`verify`.

**Framing.**  `encode`, `Frame` and `encrypt`'s own limit on one side, the WebSocket's
limit and `decode` on the other.  Fields are small ranges with one value outside
each limit; of a body only the length is kept, as nothing looks at its bytes.

**StoreFile, ClientProgram.**  `Path.write_text` truncates and then writes, so a file
is absent, torn or whole, and a torn one does not load (no proper prefix of a JSON
object is JSON, and a short key is refused).  `ClientProgram` is a client from its
command line to its end in its three modes (first use, required pin, no pin), each
step of the files apart, with a crash possible before every one and any number of
runs, also at the same time.

Definitions whose comment begins "Seeded fault" are wrong variants of the
definition after them; nothing refers to them, and each shows that some property
would notice the mistake.

## 3. Runs

| Run | Question | Instance |
|---|---|---|
| `replay_window` | Does the bitmap answer as unlimited memory would? | window 3, numbers 0..7: jumps longer than, equal to and shorter than the window |
| `channel` | Order, nonces, keys, window, close over any network, and FIFO streams; what does a session do with the last one's window and policy? | two sessions of sequence numbers 0..3, so up to three frames, each way, two plaintexts, a rekey every two messages or by age: three generations of keys, both ways to run out of nonces |
| `connection` | With one sender per side and no faults, does everything arrive, does close() end both sides, and how often can it fail? | 4 numbers, buffer of one frame, rekey before every second message |
| `concurrent_send` | Do two sending tasks keep their frames in order? (No: see below) | two tasks, buffer of one frame |
| `concurrent_faults` | Concurrent senders, cancellation, a breaking connection: is a loss ever silent, does any call hang? | two tasks, 6 numbers |
| `echo` | Do the two example programs finish, with every message answered? | three messages of two kinds, a buffer that blocks on every frame, rekeys by count and age, a connection that may break |
| `handshake` | Agreement, phases, timeouts, failures | all of it: the protocol is finite |
| `setup` | Who can be accepted by connect(), with any arguments and after any sequence of calls and beside any other connection? | two keys, two subjects, one label, two TLS certificates, at most one certificate issued |
| `certificates` | Does "valid" mean issued with these fields, and is nothing issued refused? | subjects of one and two lines, one a key; two authorities; half seconds, and an expiry before, at and after the clock |
| `malformed_certificate` | Is what does not verify refused with IdentityError? (No: see below) | as `certificates` |
| `framing` | Do the limits fit, does what was encoded come back, is there one encoding? | lengths and fields up to one past every limit |
| `client` | What does a client remember over runs, crashes, and runs that overlap? | two processes, one after the other or interleaved at every read and write, two server keys, two identities |

Why the bounds are enough.  Sequence numbers are bounded because the code's are
(`MAX_SEQ`); a small `MaxSeq` makes exhaustion reachable, the one behaviour
that a large one hides.  All frames of a direction differ by their number, so one
plaintext suffices except where streams and replies are compared.  A second session
differs from the first by what it inherits, and a third inherits nothing else
(`MaxSessions`).  `RetryBound` stops counting failed calls after exhaustion, when
only raising is left.  `DataBound` is one unread session message: the question is
only which phase reads it.  Labels do not interact in `KnownPeers`, so one is
enough.  `MaxIssued` is one in
`setup`: a certificate is misused by a peer that is not its subject, and one is enough
for that.  In `certificates`, one issued certificate is what a forger varies; a
signature covers one text whichever others exist.  In `framing` every comparison has
both its outcomes, on both sides of the limit.  `client` has two processes, which is
what it takes for one to load while the other is inside its save, or to save over
what the other has saved; for any number it is proved.  `OneServer` and
`OneIdentity`, which two processes at once can break, are stated until two have
overlapped (`overlapped`).  `setup` has one call under way while other connections
trust on first use (`FirstUseElsewhere`): of the decisions of others, these are the
ones that change the store.

`setup` and `channel` use the symmetry of keys, subjects, labels and plaintexts,
which no definition tells apart.  `CHECK_DEADLOCK FALSE` in `handshake` and `echo`: a
session that has ended stops.

Type invariants.  Those of the window and framing say something about limits
and are checked as well as proved.  Those of `SecureChannel`, `Admission`,
`Handshake`, `ClientProgram` and `SecureConnection` are proved, as part of the
inductive invariants, and not checked again.

**The violated properties.**

`concurrent_send` checks `DeliveredFrameAccepted`: on a
wire nobody touches, the peer accepts every frame.  It fails without any fault:
`send()` awaits between the REKEY and the TRANSPORT frame that one `encrypt()` has
numbered; a second task's frame, numbered later, gets in between when the write
buffer is full; the peer's cipher, whose counter is strict, refuses it and
everything after it.  The error text for that is "(tampered or truncated)"
(channel.py:113).  `concurrent_faults` shows what still holds in that situation:
the direction stays dead instead of skipping the loss; that the order of what is
accepted and the meaning of CLOSE hold too is proved (section 5).

`close()` has one failure that is not a violation of anything stated: out of nonces it
raises the Noise library's error with the socket still open (transport.py:174).  What
`connection` checks of it is that this happens once (`CloseFailsOnce`): the two
counters run out together, so the next `close()` fails in the header, with an error
it swallows, and closes the socket.

`malformed_certificate` checks `RefusedWithIdentityError`.  `from_bytes` asks whatever
`json.loads` returns for `.get`, so a document that is JSON but no object raises
`AttributeError` (the trace TLC finds); an `exp` of `Infinity`, which `json.loads` lets
through, makes `int()` raise `OverflowError`; and `verify` lets the `ValueError` of
`validate_public_key` through for a key of the wrong length.  The test (tests/test_ca.py:117) and the except
clause (ca.py:68) name IdentityError.  In every case the peer is refused, but the
caller who handles IdentityError sees something else.

## 4. Fairness

Safety runs assume none.  `SecureConnection`: the event loop runs tasks that are
ready (`DrainDone`, `Grant`), reading tasks keep calling `recv`, and the WebSocket
notices the peer's Close; no task has to send or close, and nothing forces a
cancellation or a loss.  `Handshake`: ready tasks and due timers run; a blocked
send returns only while the peer reads or once the connection is over, so that a
stalled peer can hold a sender and only the timeout frees it.  All of it is
weak fairness of single actions that stay enabled until taken, which is what an
event loop gives.  `EchoSession`: each program takes its next step when it can, and
the connections do their part as above; the clock and the loss of the connection
are free.

## 5. Proofs

Assumptions are the named `ASSUME`s: positive window size and policy limits (the
constructors raise otherwise), natural `MaxSeq`, that sentinels differ from
values (an unusable certificate field, or an infinite expiry, from a usable one), that subjects are
sequences of lines, and that the sizes of framing fit one another as the code's do.
Theorems about a narrower case say so in their own ASSUME: `OneTaskEach` and `~MayCancel` (one task per program and no
cancellation, without which `concurrent_send` is the counterexample).

**ReplayWindowProofs.**  `TypeCorrect`, `WindowCorrect`, `WindowImplementsGuard`: the
bitmap is the exact summary of the commits, which is itself inductive, and the
refinement follows from it.

**SecureChannelProofs.**  `InOrderPrefix` alone is not inductive: that the cipher
opens only the next frame has to be known from numbers kept in other places.
`SessionInv` says, for each direction: the i-th frame carries sequence number and
nonce i - 1 and the key reached by counting the REKEY frames before it
(`Numbered`, `Keyed`); the sender's counters equal the number of frames, unless the
nonces have run out (`SenderInStep`); the receiver's counter equals the number of
frames accepted, and its key the one reached by them (`ReceiverInStep`); the
accepted frames are a prefix; a CLOSE is the last frame.  It does not mention the
window, which can only refuse.  `IInv` adds that the window stands at the last
number accepted (`WindowInStep`).  From the first follow `InOrder`, `NoncesUnique`
and `CloseIsComplete`, from both `NextIsAccepted`.  `KeyUsage` needs more: while the
channel can still send, the policy has counted at least the messages under the
current key (`CountInStep`), and messages under one key lie among `MaxMessages`
consecutive frames (`UsageBounded`).

Sessions in a row: `SessionInv` asks nothing of a window, and `UsageInv` nothing of a
policy that has sent nothing yet, so each session starts with both again, whatever
it is handed (`EverySessionIsOrderly`).  `WindowInv` follows the client's window
through sessions.  A number committed is refused (`CommittedIsRefused`), and what is
refused stays so (`RefusedStaysRefused`: a bit slides with its number or out of the
window); so a window that has advanced refuses number 0 for good, and the cipher of
a new session opens nothing else first: `SpentWindowNeverOpens`.  Otherwise the
window is in step, and `OwnWindowAlwaysDelivers` follows as within one session.

`SessionsImplementStream` (`ReconnectSpec => RefinesStream`): each step of the
channels is a step of `MessageStream` or leaves it alone.  What a log of frames says
to the users (`Payloads`) is a recursive function of the log; that it exists, is
unique, and only grows with the log (`Followed`) is carried as part of the
invariant, from one frame to the next.  Then a frame that opens is the next of the
peer (`SessionInv`), hence a TRANSPORT frame has the next message of the peer's
stream, and a CLOSE is behind all of them.

**AdmissionProofs.**  The decision's conjuncts give most of an acceptance at the
time it is made; across calls, `PinsVouched` says where each pin came from, without
which a call that requires authentication could be satisfied by a pin left by an
earlier refusal.  Around it, `SetupInv` carries what the argument checks and the
TLS link established at `Begin` across the await to `Finish`; `SecureHolds` is that a
connection made with `secure=True` had a verified link and an authenticated peer,
never one trusted on first use by the same call, and that a pinned TLS certificate
was the one shown.  `SetupImplementsAdmission`: to the stores,
`connect()` is one of `Admission`'s calls, so what is proved of decisions holds of
the connections made.

**HandshakeProofs.**  The two drivers, timers, failures and wires are related by
`HInv`.  `InitiatorAt` and `ResponderAt` list how far a side can be and with which
transcript: to have read message two the initiator must have had message one read
as it was written, and a responder that read an altered first message is never
joined by a third that opens.  `DriverAt` ties the await a side is in to the message
it is at, and `WireOK` says what can be on a wire at all: at most one handshake
message, of the number its reader expects, under the transcript of the messages
before it (`FrameOK`), and session data only behind it.  `Agreement`,
`PeerIsGenuine`, `CertificateEncrypted`, `InPhase` and `RefusalMeansAltered` are read
off it.

**CertificatesProofs.**  `OneReading`: two certificates with the same signed text are
equal in every field, although a subject may contain the separator, because the
text begins with the subject and ends in three lines.  `CInv`: what is issued is
well formed and signed, and the verdict is that of the document and the clock at
hand.  Then `ValidHolds`: a certificate that verifies is one that was issued, field by
field; and `IssuedHolds`: one that was issued verifies until it expires.

**SecureConnectionProofs.**  `ConnectionUsesChannel` (`ConnSpec => Spec`): every step of
the connections is a step of the channels with their hostile network, or leaves them
alone, so all theorems of the channel hold for programs (`ConnectionInOrder`).  It
needs that whatever is on a wire was once sent (`FromSender`).  `CloseFailsOnceOnly`
(`CloseFailsOnce`) rests on `NonceBehind`: the cipher's nonce is never ahead of the
sequence number, whichever calls have failed, so the nonces run out no earlier than
at the last number.  `LossStaysVisible`
(`LossIsNeverSilent`): a frame of the peer that `p` has still to accept comes from a
wire or a task's outbox, and nothing puts one back (`InTransit` never becomes true
of an old frame), while the channel accepts nothing but that frame.  For
`DeliveryAccepted` and `EndAuthenticated` the inductive invariant `PipeInv` says that
what `p` has accepted, the wire, and the outbox of its peer's one task, in this
order, are what the peer's channel has sent for as long as `p` is open, with the
WebSocket's Close behind the CLOSE frame (`OnWire`, `InCall`); that nobody else asks
for the lock (`Alone`); and that a closed channel has said CLOSE or heard it
(`Closing`).

`EchoIsComplete` (`CloseMeansAnswered`) is about the two example programs on top.
`EchoInv` compares four streams of messages, read off the channels' logs: what the
client was given, what the server has sent, what the server was given, what the
client has sent.  Each is a prefix of the next (through a channel by
`InOrderPrefix`, in a program by `ServerOwes` and `ClientOwed`), and the last one of
the script (`ScriptFollowed`); so a client with nothing left to ask and nothing
unanswered has had every reply.  `Ending` says where a CLOSE of the client can be:
on the wire or heard by the server only after the last reply, and in its outbox
before that only if the socket is closed and nothing of it will be written.  The
proof is for one task in each program (`OneTaskPerProgram`), any script, buffer and
policy; the run also fixes `MaxSeq` so high that no number runs out
(`EnoughNumbers`), because the programs' path after that is not in the model.

**FramingProofs.**  `FramingInv`: what is on the wire is the frame made, packed, and
what was received is the wire decoded, which a made frame never fails
(`InTransit`).  From it, with the assumptions on the sizes, `FramesRoundTrip` and
`DecodingIsCanonical`.

**ClientProgramProofs.**  `TrustFromSave` needs that every key in the file, and every
pin in a process that requires one, was saved on first use (`PinsAreSaved`).
`OneServerEver`
and `OneIdentityEver` need what a file remembers of the past in each phase of the
run: a key a message went to is in the file, or the file is torn, or is being
written by a process that knows it (`PinFiled`, `PinKept`; `IdentityFiled`,
`IdentityKept`).  A step of the only process that runs keeps this, and until two have
overlapped, whoever takes a step is the only one (`Alone`, `OnlyOneSteps`).

Model-checked only: liveness and fairness, which are out of the prover's reach
(`Delivery`, `CloseReachesPeer`, `CallsEnd`, `SessionEnds`, `HandshakeEnds`,
`FailureReachesPeer`).

## 6. Not modelled

- Logging, error classes, package exports: no state a property could be about.
- `crypto.py` and the wiping of keys: byte functions over a library; keys are
  symbols here, and wiping is best effort by its own description.
- `RevocationList.save` and `load`: the same two steps on another file as those of
  `KnownPeers`, which `ClientProgram` covers.  Two programs that change one file at
  once lose a change; nothing in the repository says they may.
- How `serve()` closes a connection once its handler has ended.  The handler runs
  inside the try block of the handshake (transport.py:382-387), so an error of this
  library that a handler lets through is reported as a failed handshake; no state
  depends on it.
- One window or policy given to two connections that are open at once; `Reconnect`
  has them one after the other.
- The demo TLS certificate, `provision.py` (writes one set of values once), and the
  intermediaries under `examples/mitm`, which demonstrate something outside the
  system.
- The Noise and WebSocket libraries beyond what the code relies on.

Hazards without a property, because the code and its documentation promise
nothing there: a pin that is recorded before the certificate is refused stays; a
session is not checked again after its decision; an identity that is wiped while a
server still uses it.
