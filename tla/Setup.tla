------------------------------- MODULE Setup -------------------------------
(***************************************************************************)
(* connect() as a whole (transport.py): the checks of its arguments, the   *)
(* TLS connection and its certificate pin, and then, after the handshake,  *)
(* the decision of Admission.  Between the two the program awaits, and     *)
(* anything Admission's program can do may happen.                         *)
(***************************************************************************)
EXTENDS Admission

CONSTANTS
    Fingerprints,   \* SHA-256 of TLS certificates
    NoSubject       \* expected_subject missing

ASSUME SetupAssumption == Unset \notin Fingerprints /\ NoSubject \notin Subjects

\* The arguments.  label is peer_label, with known_peers; subject is Unset
\* without trusted_issuer, NoSubject with it but without expected_subject.
Arguments == [key : Keys \cup {Unset}, label : Labels \cup {Unset},
              subject : Subjects \cup {AnySubject, NoSubject, Unset},
              requireKnown : BOOLEAN, secure : BOOLEAN,
              tls : {"none given", "verifying", "CERT_NONE"},
              certPin : Fingerprints \cup {Unset}, timeoutPositive : BOOLEAN]

\* What the server at the other end shows of TLS: a certificate, which verifies
\* or does not, or nothing (a ws:// URI).
NoTls == [fingerprint |-> Unset, verifies |-> FALSE]
Links == [fingerprint : Fingerprints, verifies : BOOLEAN] \cup {NoTls}

VARIABLES
    attempt,    \* the call under way, with its link, or NoAttempt
    made        \* the same of the call that led to the last acceptance

setupVars == <<vars, attempt, made>>

NoAttempt == [none |-> TRUE]

SetupInit == Init /\ attempt = NoAttempt /\ made = NoAttempt
-----------------------------------------------------------------------------
HasAuthenticator(args) ==
    args.subject # Unset \/ args.key # Unset \/ args.label # Unset

\* Seeded fault: the context a caller passes is taken as it is.
TlsAllowedAny(args) == TRUE

\* What secure asks of a context that was passed.
TlsAllowed(args) == args.secure => args.tls # "CERT_NONE"

\* _validate_handshake_timeout, _require_subject_with_issuer, and the checks of
\* secure: otherwise a ValueError, before anything has happened.
ArgumentsPass(args) ==
    /\ args.timeoutPositive
    /\ args.subject # NoSubject
    /\ args.secure => HasAuthenticator(args)
    /\ TlsAllowed(args)

GoodArguments == {args \in Arguments : ArgumentsPass(args)}

\* websockets.connect returns: with a context of connect()'s own or the caller's
\* a ws:// URI is an error; without one the library verifies a wss:// server.
Opens(args, link) ==
    /\ args.tls # "none given" \/ args.secure => link # NoTls
    /\ link # NoTls /\ args.tls # "CERT_NONE" => link.verifies

\* The cert_pin check, with _peer_cert_der and certificate_fingerprint.
CertPinMatches(args, link) ==
    args.certPin # Unset => link # NoTls /\ link.fingerprint = args.certPin

\* require
Require(args) == args.requireKnown \/ args.secure

\* The call as the accept block sees it.
CallOf(args) ==
    [key |-> args.key, label |-> args.label, subject |-> args.subject,
     require |-> Require(args)]

\* connect() up to the handshake; where any of this fails it raises, and no
\* store has been touched.  (An acceptance is forgotten before the next call;
\* setting the clock to what it shows does that.)
Begin(args, link) ==
    /\ attempt = NoAttempt /\ made = NoAttempt
    /\ Opens(args, link) /\ CertPinMatches(args, link)
    /\ attempt' = [call |-> CallOf(args), secure |-> args.secure,
                   certPin |-> args.certPin, link |-> link]
    /\ UNCHANGED <<vars, made>>

\* The handshake has ended: the accept block.
Finish ==
    /\ attempt # NoAttempt
    /\ \E key \in Keys :
         \/ RefuseOutright(attempt.call, key)
         \/ \E cert \in Certificates \cup {Unset} : Decide(attempt.call, key, cert)
    /\ attempt' = NoAttempt
    /\ made' = IF last'.accepted THEN attempt ELSE NoAttempt

\* The handshake or the connection has failed, or timed out.
Abandon ==
    /\ attempt # NoAttempt
    /\ attempt' = NoAttempt
    /\ UNCHANGED <<vars, made>>

\* What goes on meanwhile: the steps of Admission that are no decision.
Meanwhile ==
    /\ \/ \E l \in Labels, key \in Keys : Pin(l, key) \/ TrustOrVerify(l, key)
       \/ \E key \in Keys : RevokeKey(key)
       \/ \E subject \in Subjects : RevokeSubject(subject)
       \/ \E cert \in Certificates : Issue(cert)
       \/ \E t \in Times : SetClock(t)
    /\ made' = NoAttempt
    /\ UNCHANGED attempt

\* Another connection, of connect() or serve(), ends its handshake first and
\* trusts its peer on first use; other decisions leave the pins as they are.
FirstUseElsewhere ==
    /\ attempt # NoAttempt
    /\ \E call \in {c \in Calls : TrustsOnFirstUse(c)} :
       \E key \in Keys, cert \in Certificates \cup {Unset} : Decide(call, key, cert)
    /\ made' = NoAttempt
    /\ UNCHANGED attempt

SetupNext ==
    \/ \E args \in GoodArguments, link \in Links : Begin(args, link)
    \/ Finish
    \/ Abandon
    \/ Meanwhile
    \/ FirstUseElsewhere

SetupSpec == SetupInit /\ [][SetupNext]_setupVars
-----------------------------------------------------------------------------
(* Properties.                                                             *)

(* "secure=True does four things" (README): whom such a call accepts has   *)
(* shown a TLS certificate that was verified, and is the expected key, or  *)
(* certified, or stands under a label that the user vouched for before     *)
(* and outside this call.  And with or without secure, a pinned TLS        *)
(* certificate is the one shown: a connection without TLS is no exception. *)
SecureDoesFourThings == made # NoAttempt =>
    /\ made.secure =>
         /\ made.link.verifies
         /\ \/ last.key = made.call.key
            \/ <<made.call.label, last.key>> \in vouched
            \/ made.call.subject # Unset /\ CertifiedAs(last.key, made.call.subject)
    /\ made.certPin \in {Unset, made.link.fingerprint}
=============================================================================
