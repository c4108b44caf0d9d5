----------------------------- MODULE Admission -----------------------------
(***************************************************************************)
(* Whom connect() and serve() accept (transport.py, identity.py, ca.py).   *)
(*                                                                         *)
(* One program makes any number of calls with different arguments, sharing *)
(* a KnownPeers store and a RevocationList that it also changes between    *)
(* them, while a certificate authority issues certificates and the clock   *)
(* of the machine is set.  Nothing is awaited between the end of the       *)
(* handshake and the decision, so a decision is one step.                  *)
(*                                                                         *)
(* The Noise handshake proves the peer's static key: Decide takes it as    *)
(* given (Handshake, PeerIsGenuine).  A certificate is what it says; its   *)
(* signature verifies iff the trusted authority issued exactly that.       *)
(***************************************************************************)
EXTENDS Integers, FiniteSets

CONSTANTS
    Keys,       \* static public keys of peers
    Subjects,   \* certificate subjects
    Labels,     \* peer_label values
    Unset,      \* an argument not given, a label without a pin
    AnySubject, \* ANY_SUBJECT
    LastTime,   \* certificates expire at 1 .. LastTime
    MaxIssued   \* bound: certificates issued

ASSUME UnsetAssumption ==
    /\ Unset \notin Keys \cup Subjects \cup Labels
    /\ AnySubject \notin Subjects \cup {Unset}
ASSUME LastTimeAssumption == LastTime \in Nat

\* The arguments that matter: expected_peer_key, peer_label (with known_peers),
\* expected_subject (with trusted_issuer, or neither), and require_known_peer
\* or secure.
Calls == [key : Keys \cup {Unset}, label : Labels \cup {Unset},
          subject : Subjects \cup {Unset, AnySubject}, require : BOOLEAN]

Certificates == [subject : Subjects, key : Keys, notAfter : 1 .. LastTime]

Times == 0 .. LastTime + 1

VARIABLES
    pins,               \* KnownPeers._pins
    revokedKeys,        \* RevocationList._keys
    revokedSubjects,    \* RevocationList._subjects
    now,                \* time.time()
    issued,             \* what the trusted authority has signed
    last,               \* the acceptance just made, if the last step was one
    vouched,            \* history: <<label, key>> the user pinned, or met in a
                        \* call that allowed trust on first use
    met                 \* history, per label: keys accepted by such calls
                        \* since the user last pinned the label

store == <<pins, vouched, met>>
vars == <<store, revokedKeys, revokedSubjects, now, issued, last>>

NoAcceptance == [accepted |-> FALSE]

Init ==
    /\ pins = [l \in Labels |-> Unset]
    /\ revokedKeys = {}
    /\ revokedSubjects = {}
    /\ now = 0
    /\ issued = {}
    /\ last = NoAcceptance
    /\ vouched = {}
    /\ met = [l \in Labels |-> {}]
-----------------------------------------------------------------------------
(* The decision about a peer with this static key and certificate.         *)

\* Seeded fault: keys are looked up on the certificate path only.
NotRevokedOnCertificatePath(call, key) == call.subject # Unset => key \notin revokedKeys

\* _enforce_not_revoked
NotRevoked(call, key) == key \notin revokedKeys

\* _authenticate_peer, against expected_peer_key.
KeyMatches(call, key) == call.key # Unset => key = call.key

Pinned(call) == call.label # Unset /\ pins[call.label] # Unset

\* Seeded fault: that the label is known is all that is asked.
PinMatchesAnything(call, key) == TRUE

\* KnownPeers.verify
PinMatches(call, key) == Pinned(call) => key = pins[call.label]

VerifiedByKeyOrPin(call) == call.key # Unset \/ Pinned(call)

\* Seeded fault: a call that requires authentication pins too.
TrustsOnFirstUseAlways(call) == call.label # Unset /\ ~Pinned(call)

\* KnownPeers.pin, on the branch that trusts on first use.
TrustsOnFirstUse(call) == call.label # Unset /\ ~Pinned(call) /\ ~call.require

\* Seeded fault: whose key the certificate is for is not looked at.
CertificateVerifiesForAnyKey(call, key, cert) ==
    /\ cert \in issued
    /\ now <= cert.notAfter
    /\ cert.key \notin revokedKeys /\ cert.subject \notin revokedSubjects
    /\ call.subject \in {AnySubject, cert.subject}

\* IdentityCertificate.verify, and _verify_certificate's own two checks.
CertificateVerifies(call, key, cert) ==
    /\ cert \in issued
    /\ now <= cert.notAfter
    /\ cert.key \notin revokedKeys /\ cert.subject \notin revokedSubjects
    /\ cert.key = key
    /\ call.subject \in {AnySubject, cert.subject}

\* _verify_certificate and _enforce_authentication do not raise.
PassesRest(call, key, cert) ==
    /\ call.subject # Unset => CertificateVerifies(call, key, cert)
    /\ call.require => VerifiedByKeyOrPin(call) \/ call.subject # Unset

\* The accept block raises before KnownPeers is touched.
RefuseOutright(call, key) ==
    /\ ~(NotRevoked(call, key) /\ KeyMatches(call, key) /\ PinMatches(call, key))
    /\ last' = NoAcceptance
    /\ UNCHANGED <<store, revokedKeys, revokedSubjects, now, issued>>

\* It gets past _authenticate_peer, which may pin, and on to the end; a peer
\* refused after that stays pinned.
Decide(call, key, cert) ==
    /\ NotRevoked(call, key) /\ KeyMatches(call, key) /\ PinMatches(call, key)
    /\ pins' = IF TrustsOnFirstUse(call) THEN [pins EXCEPT ![call.label] = key] ELSE pins
    /\ last' = IF PassesRest(call, key, cert)
                 THEN [accepted |-> TRUE, call |-> call, key |-> key]
                 ELSE NoAcceptance
    /\ IF call.label # Unset /\ ~call.require
         THEN /\ vouched' = vouched \cup {<<call.label, key>>}
              /\ met' = IF PassesRest(call, key, cert)
                          THEN [met EXCEPT ![call.label] = @ \cup {key}]
                          ELSE met
         ELSE UNCHANGED <<vouched, met>>
    /\ UNCHANGED <<revokedKeys, revokedSubjects, now, issued>>
-----------------------------------------------------------------------------
(* What the program, the authority and the clock do in between.            *)

\* KnownPeers.pin, called by the program.
Pin(l, key) ==
    /\ pins' = [pins EXCEPT ![l] = key]
    /\ vouched' = vouched \cup {<<l, key>>}
    /\ met' = [met EXCEPT ![l] = {}]
    /\ last' = NoAcceptance
    /\ UNCHANGED <<revokedKeys, revokedSubjects, now, issued>>

\* KnownPeers.trust_or_verify of a label it does not know; of one it does, it
\* returns or raises and changes nothing.
TrustOrVerify(l, key) ==
    /\ pins[l] = Unset
    /\ Pin(l, key)

RevokeKey(key) ==
    /\ revokedKeys' = revokedKeys \cup {key}
    /\ last' = NoAcceptance
    /\ UNCHANGED <<store, revokedSubjects, now, issued>>

RevokeSubject(subject) ==
    /\ revokedSubjects' = revokedSubjects \cup {subject}
    /\ last' = NoAcceptance
    /\ UNCHANGED <<store, revokedKeys, now, issued>>

\* CertificateAuthority.issue; not_after may lie in the past already.
Issue(cert) ==
    /\ Cardinality(issued) < MaxIssued
    /\ issued' = issued \cup {cert}
    /\ last' = NoAcceptance
    /\ UNCHANGED <<store, revokedKeys, revokedSubjects, now>>

\* time.time() goes forward, or wherever the machine's clock is set.
SetClock(t) ==
    /\ now' = t
    /\ last' = NoAcceptance
    /\ UNCHANGED <<store, revokedKeys, revokedSubjects, issued>>

\* A peer presents any certificate, genuine or not, or none (Unset).
Next ==
    \/ \E call \in Calls, key \in Keys :
         \/ RefuseOutright(call, key)
         \/ \E cert \in Certificates \cup {Unset} : Decide(call, key, cert)
    \/ \E l \in Labels, key \in Keys : Pin(l, key) \/ TrustOrVerify(l, key)
    \/ \E key \in Keys : RevokeKey(key)
    \/ \E subject \in Subjects : RevokeSubject(subject)
    \/ \E cert \in Certificates : Issue(cert)
    \/ \E t \in Times : SetClock(t)

Spec == Init /\ [][Next]_vars
-----------------------------------------------------------------------------
(* Properties.                                                             *)

(* Types of all the variables.                                             *)
TypeOK ==
    /\ pins \in [Labels -> Keys \cup {Unset}]
    /\ revokedKeys \in SUBSET Keys
    /\ revokedSubjects \in SUBSET Subjects
    /\ now \in Times
    /\ issued \in SUBSET Certificates
    /\ last \in [accepted : {TRUE}, call : Calls, key : Keys] \cup {NoAcceptance}
    /\ vouched \in SUBSET (Labels \X Keys)
    /\ met \in [Labels -> SUBSET Keys]

\* The trusted authority vouches, now, for this key as this subject.
CertifiedAs(key, subject) == \E cert \in issued :
    /\ cert.key = key
    /\ now <= cert.notAfter
    /\ subject \in {AnySubject, cert.subject}
    /\ cert.subject \notin revokedSubjects

(* A revoked key is refused however the peer authenticates, and a revoked  *)
(* subject on the certificate path.                                        *)
RevokedNeverAccepted == last.accepted =>
    /\ last.key \notin revokedKeys
    /\ last.call.subject \in Subjects => last.call.subject \notin revokedSubjects

(* Every authenticator a call names holds for the peer it accepts; one     *)
(* that succeeds never makes up for one that fails.                        *)
EveryAuthenticatorHolds == last.accepted =>
    /\ last.call.key \in {Unset, last.key}
    /\ last.call.label # Unset =>
         \/ pins[last.call.label] = last.key
         \/ last.call.require /\ pins[last.call.label] = Unset
    /\ last.call.subject # Unset => CertifiedAs(last.key, last.call.subject)

(* With require_known_peer or secure, an accepted peer is the expected     *)
(* key, or certified, or stands under a label the user pinned or once      *)
(* allowed trust on first use for: no sequence of refused attempts ever    *)
(* talks its way into the store (secure "refuses trust-on-first-use").     *)
RequireMeansAuthenticated == last.accepted /\ last.call.require =>
    \/ last.key = last.call.key
    \/ <<last.call.label, last.key>> \in vouched
    \/ last.call.subject # Unset /\ CertifiedAs(last.key, last.call.subject)

(* Under one label a program that trusts on first use never accepts two    *)
(* different keys, whatever else the calls ask for, unless it pins the     *)
(* label again itself.                                                     *)
OneKeyPerLabel == \A l \in Labels : met[l] \subseteq {pins[l]}
=============================================================================
