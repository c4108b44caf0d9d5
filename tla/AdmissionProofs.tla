-------------------------- MODULE AdmissionProofs --------------------------
(***************************************************************************)
(* Whom a program accepts, for any sets of keys, subjects and labels, any  *)
(* number of calls and certificates, and any setting of the clock; and     *)
(* what connect() as a whole, TLS and awaits included, makes of that.      *)
(***************************************************************************)
EXTENDS Setup, TLAPS

USE UnsetAssumption, LastTimeAssumption

(* The decision's own conjuncts say what an acceptance means at the time;  *)
(* what ties one call to another is the store, whose pins must be known to *)
(* come from the user or from calls that allowed trust on first use.       *)
PinsVouched == \A l \in Labels : pins[l] # Unset => <<l, pins[l]>> \in vouched

AInv == TypeOK /\ PinsVouched /\ OneKeyPerLabel

\* What an accepted decision is made of.
Acceptance == RevokedNeverAccepted /\ EveryAuthenticatorHolds /\ RequireMeansAuthenticated

LEMMA InitAInv == Init => AInv /\ Acceptance
<1> SUFFICES ASSUME Init PROVE AInv /\ Acceptance
  OBVIOUS
<1>1. TypeOK
  BY DEF Init, TypeOK, Times
<1>2. PinsVouched /\ OneKeyPerLabel
  BY DEF Init, PinsVouched, OneKeyPerLabel
<1>3. ~last.accepted
  BY DEF Init, NoAcceptance
<1>4. QED
  BY <1>1, <1>2, <1>3 DEF AInv, Acceptance, RevokedNeverAccepted,
     EveryAuthenticatorHolds, RequireMeansAuthenticated

\* A step that accepts nobody leaves nothing to say about an acceptance.
LEMMA NoneAccepted == last' = NoAcceptance => Acceptance'
BY DEF NoAcceptance, Acceptance, RevokedNeverAccepted, EveryAuthenticatorHolds,
       RequireMeansAuthenticated

\* A step that leaves the store alone leaves its invariant alone.
LEMMA StoreUnchanged ==
    ASSUME AInv, TypeOK', UNCHANGED store
    PROVE  AInv'
BY DEF AInv, PinsVouched, OneKeyPerLabel, store

LEMMA PinKeepsInv ==
    ASSUME AInv, NEW l \in Labels, NEW key \in Keys, Pin(l, key)
    PROVE  AInv' /\ Acceptance'
<1>1. TypeOK'
  BY DEF AInv, TypeOK, Pin, NoAcceptance
<1>2. ASSUME NEW k \in Labels
      PROVE  /\ pins'[k] # Unset => <<k, pins'[k]>> \in vouched'
             /\ met'[k] \subseteq {pins'[k]}
  <2>1. CASE k = l
    BY <2>1 DEF AInv, TypeOK, Pin
  <2>2. CASE k # l
    BY <2>2 DEF AInv, TypeOK, PinsVouched, OneKeyPerLabel, Pin
  <2>3. QED BY <2>1, <2>2
<1>3. QED
  BY <1>1, <1>2, NoneAccepted DEF AInv, PinsVouched, OneKeyPerLabel, Pin

LEMMA DecideType ==
    ASSUME AInv, NEW call \in Calls, NEW key \in Keys,
           NEW cert \in Certificates \cup {Unset}, Decide(call, key, cert)
    PROVE  TypeOK'
<1>1. call.label \in Labels \cup {Unset}
  BY DEF Calls
<1>2. pins' \in [Labels -> Keys \cup {Unset}]
  BY <1>1 DEF AInv, TypeOK, Decide, TrustsOnFirstUse
<1>3. vouched' \in SUBSET (Labels \X Keys)
  BY <1>1 DEF AInv, TypeOK, Decide
<1>4. met' \in [Labels -> SUBSET Keys]
  BY <1>1 DEF AInv, TypeOK, Decide
<1>5. last' \in [accepted : {TRUE}, call : Calls, key : Keys] \cup {NoAcceptance}
  BY DEF Decide
<1>6. QED BY <1>2, <1>3, <1>4, <1>5 DEF AInv, TypeOK, Decide

LEMMA DecideStore ==
    ASSUME AInv, NEW call \in Calls, NEW key \in Keys,
           NEW cert \in Certificates \cup {Unset}, Decide(call, key, cert)
    PROVE  PinsVouched' /\ OneKeyPerLabel'
<1>1. call.label \in Labels \cup {Unset} /\ call.require \in BOOLEAN
  BY DEF Calls
<1>2. ASSUME NEW l \in Labels
      PROVE  /\ pins'[l] # Unset => <<l, pins'[l]>> \in vouched'
             /\ met'[l] \subseteq {pins'[l]}
  <2>0. /\ pins[l] # Unset => <<l, pins[l]>> \in vouched
        /\ met[l] \subseteq {pins[l]} /\ met[l] \subseteq Keys
        /\ vouched \subseteq vouched'
    BY DEF AInv, TypeOK, PinsVouched, OneKeyPerLabel, Decide
  <2>1. CASE call.label # l \/ call.require
    <3>1. pins'[l] = pins[l] /\ met'[l] = met[l]
      BY <2>1 DEF AInv, TypeOK, Decide, TrustsOnFirstUse
    <3>2. QED BY <2>0, <3>1
  <2>2. CASE call.label = l /\ ~call.require
    <3>1. <<l, key>> \in vouched' /\ met'[l] \subseteq met[l] \cup {key}
      BY <2>2 DEF AInv, TypeOK, Decide
    <3>2. pins'[l] = key
      BY <2>2 DEF AInv, TypeOK, Decide, TrustsOnFirstUse, Pinned, PinMatches
    <3>3. met[l] \subseteq {key}
      <4>1. CASE pins[l] = Unset
        BY <2>0, <4>1
      <4>2. CASE pins[l] # Unset
        BY <2>0, <2>2, <4>2 DEF Decide, PinMatches, Pinned
      <4>3. QED BY <4>1, <4>2
    <3>4. QED BY <3>1, <3>2, <3>3
  <2>3. QED BY <2>1, <2>2
<1>3. QED BY <1>2 DEF PinsVouched, OneKeyPerLabel

LEMMA DecideAccepts ==
    ASSUME AInv, NEW call \in Calls, NEW key \in Keys,
           NEW cert \in Certificates \cup {Unset}, Decide(call, key, cert)
    PROVE  Acceptance'
<1>1. CASE ~PassesRest(call, key, cert)
  BY <1>1, NoneAccepted DEF Decide
<1>2. CASE PassesRest(call, key, cert)
  <2>1. /\ last'.accepted /\ last'.call = call /\ last'.key = key
        /\ revokedKeys' = revokedKeys /\ revokedSubjects' = revokedSubjects
        /\ now' = now /\ issued' = issued
    BY <1>2 DEF Decide
  <2>2. /\ call.label \in Labels \cup {Unset} /\ call.require \in BOOLEAN
        /\ call.subject \in Subjects \cup {Unset, AnySubject}
    BY DEF Calls
  <2>3. call.subject # Unset => CertificateVerifies(call, key, cert)
    BY <1>2 DEF PassesRest
  <2>4. call.subject # Unset => CertifiedAs(key, call.subject)'
    BY <2>1, <2>3 DEF CertificateVerifies, CertifiedAs
  <2>5. RevokedNeverAccepted'
    BY <2>1, <2>2, <2>3 DEF RevokedNeverAccepted, Decide, NotRevoked, CertificateVerifies
  <2>6. EveryAuthenticatorHolds'
    <3>1. call.key \in {Unset, key}
      BY DEF Decide, KeyMatches
    <3>2. call.label # Unset => \/ pins'[call.label] = key
                                \/ call.require /\ pins'[call.label] = Unset
      BY <2>2 DEF AInv, TypeOK, Decide, TrustsOnFirstUse, Pinned, PinMatches
    <3>3. QED BY <2>1, <2>4, <3>1, <3>2 DEF EveryAuthenticatorHolds, CertifiedAs
  <2>7. RequireMeansAuthenticated'
    <3> SUFFICES ASSUME call.require
                 PROVE  \/ key = call.key
                        \/ <<call.label, key>> \in vouched'
                        \/ call.subject # Unset /\ CertifiedAs(key, call.subject)'
      BY <2>1 DEF RequireMeansAuthenticated, CertifiedAs
    <3>1. VerifiedByKeyOrPin(call) \/ call.subject # Unset
      BY <1>2 DEF PassesRest
    <3>2. CASE call.subject # Unset
      BY <2>4, <3>2
    <3>3. CASE call.key # Unset
      BY <3>3 DEF Decide, KeyMatches
    <3>4. CASE Pinned(call)
      BY <2>2, <3>4 DEF AInv, PinsVouched, Decide, Pinned, PinMatches
    <3>5. QED BY <3>1, <3>2, <3>3, <3>4 DEF VerifiedByKeyOrPin
  <2>8. QED BY <2>5, <2>6, <2>7 DEF Acceptance
<1>3. QED BY <1>1, <1>2

LEMMA NextAInv == AInv /\ Acceptance /\ [Next]_vars => (AInv /\ Acceptance)'
<1> SUFFICES ASSUME AInv, Acceptance, [Next]_vars
             PROVE  AInv' /\ Acceptance'
  OBVIOUS
<1>0. TypeOK
  BY DEF AInv
<1>1. ASSUME NEW call \in Calls, NEW key \in Keys, RefuseOutright(call, key)
      PROVE  AInv' /\ Acceptance'
  <2>1. TypeOK'
    BY <1>0, <1>1 DEF TypeOK, RefuseOutright, store
  <2>2. QED BY <1>1, <2>1, StoreUnchanged, NoneAccepted DEF RefuseOutright
<1>2. ASSUME NEW call \in Calls, NEW key \in Keys,
             NEW cert \in Certificates \cup {Unset}, Decide(call, key, cert)
      PROVE  AInv' /\ Acceptance'
  BY <1>2, DecideType, DecideStore, DecideAccepts DEF AInv
<1>3. ASSUME NEW l \in Labels, NEW key \in Keys, Pin(l, key) \/ TrustOrVerify(l, key)
      PROVE  AInv' /\ Acceptance'
  BY <1>3, PinKeepsInv DEF TrustOrVerify
<1>4. ASSUME NEW key \in Keys, RevokeKey(key) PROVE AInv' /\ Acceptance'
  <2>1. TypeOK'
    BY <1>0, <1>4 DEF TypeOK, RevokeKey, store
  <2>2. QED BY <1>4, <2>1, StoreUnchanged, NoneAccepted DEF RevokeKey
<1>5. ASSUME NEW subject \in Subjects, RevokeSubject(subject)
      PROVE  AInv' /\ Acceptance'
  <2>1. TypeOK'
    BY <1>0, <1>5 DEF TypeOK, RevokeSubject, store
  <2>2. QED BY <1>5, <2>1, StoreUnchanged, NoneAccepted DEF RevokeSubject
<1>6. ASSUME NEW cert \in Certificates, Issue(cert) PROVE AInv' /\ Acceptance'
  <2>1. TypeOK'
    BY <1>0, <1>6 DEF TypeOK, Issue, store
  <2>2. QED BY <1>6, <2>1, StoreUnchanged, NoneAccepted DEF Issue
<1>7. ASSUME NEW t \in Times, SetClock(t) PROVE AInv' /\ Acceptance'
  <2>1. TypeOK'
    BY <1>0, <1>7 DEF TypeOK, SetClock, store
  <2>2. QED BY <1>7, <2>1, StoreUnchanged, NoneAccepted DEF SetClock
<1>8. CASE UNCHANGED vars
  <2>1. AInv'
    BY <1>8 DEF AInv, TypeOK, PinsVouched, OneKeyPerLabel, vars, store
  <2>2. Acceptance'
    BY <1>8 DEF Acceptance, RevokedNeverAccepted, EveryAuthenticatorHolds,
       RequireMeansAuthenticated, CertifiedAs, vars, store
  <2>3. QED BY <2>1, <2>2
<1>9. QED
  BY <1>1, <1>2, <1>3, <1>4, <1>5, <1>6, <1>7, <1>8 DEF Next

LEMMA AInvHolds == Spec => [](AInv /\ Acceptance)
<1>1. Init => AInv /\ Acceptance
  BY InitAInv
<1>2. AInv /\ Acceptance /\ [Next]_vars => (AInv /\ Acceptance)'
  BY NextAInv
<1>3. QED BY <1>1, <1>2, PTL DEF Spec
-----------------------------------------------------------------------------
(* Every variable keeps its type.                                          *)
THEOREM AdmissionTypeCorrect == Spec => []TypeOK
<1>1. AInv => TypeOK
  BY DEF AInv
<1>2. QED BY <1>1, AInvHolds, PTL

(* A revoked key or subject is refused, however the peer authenticates.    *)
THEOREM RevocationHolds == Spec => []RevokedNeverAccepted
<1>1. Acceptance => RevokedNeverAccepted
  BY DEF Acceptance
<1>2. QED BY <1>1, AInvHolds, PTL

(* Every authenticator a call names holds for the peer it accepts.         *)
THEOREM AuthenticatorsHold == Spec => []EveryAuthenticatorHolds
<1>1. Acceptance => EveryAuthenticatorHolds
  BY DEF Acceptance
<1>2. QED BY <1>1, AInvHolds, PTL

(* A call that requires authentication accepts nobody unauthenticated,     *)
(* whatever calls and refusals came before it.                             *)
THEOREM RequireHolds == Spec => []RequireMeansAuthenticated
<1>1. Acceptance => RequireMeansAuthenticated
  BY DEF Acceptance
<1>2. QED BY <1>1, AInvHolds, PTL

(* Trust on first use accepts one key per label until the user pins again. *)
THEOREM ContinuityHolds == Spec => []OneKeyPerLabel
<1>1. AInv => OneKeyPerLabel
  BY DEF AInv
<1>2. QED BY <1>1, AInvHolds, PTL
-----------------------------------------------------------------------------
(* connect() as a whole.  The arguments and the TLS connection are checked *)
(* before the handshake and the decision comes after it, so what the       *)
(* checks found must be carried from the one to the other.                 *)

\* What a call has passed by the time it starts the handshake.
Passed(a) ==
    /\ a.call \in Calls
    /\ a.secure => a.link.verifies /\ a.call.require
    /\ a.certPin \in {Unset, a.link.fingerprint}

SetupInv ==
    /\ attempt # NoAttempt => Passed(attempt)
    /\ made # NoAttempt => Passed(made) /\ last.accepted /\ last.call = made.call

LEMMA BeginPasses ==
    ASSUME NEW args \in GoodArguments, NEW link \in Links, Begin(args, link)
    PROVE  Passed(attempt')
<1>1. args \in Arguments /\ ArgumentsPass(args)
  BY DEF GoodArguments
<1>2. CallOf(args) \in Calls
  BY <1>1 DEF Arguments, ArgumentsPass, CallOf, Calls, Require
<1>3. args.secure => link.verifies /\ CallOf(args).require
  BY <1>1 DEF ArgumentsPass, TlsAllowed, Begin, Opens, CallOf, Require
<1>4. args.certPin \in {Unset, link.fingerprint}
  BY DEF Begin, CertPinMatches
<1>5. attempt' = [call |-> CallOf(args), secure |-> args.secure,
                  certPin |-> args.certPin, link |-> link]
  BY DEF Begin
<1>6. QED BY <1>2, <1>3, <1>4, <1>5 DEF Passed

\* To the stores and the decision, connect() is one of the calls of Admission.
LEMMA SetupStepIsAdmissionStep == SetupInv /\ [SetupNext]_setupVars => [Next]_vars
<1> SUFFICES ASSUME SetupInv, [SetupNext]_setupVars PROVE [Next]_vars
  OBVIOUS
<1>1. CASE \E args \in GoodArguments, link \in Links : Begin(args, link)
  BY <1>1 DEF Begin
<1>2. CASE Finish
  <2>1. attempt.call \in Calls
    BY <1>2 DEF Finish, SetupInv, Passed
  <2>2. QED BY <1>2, <2>1 DEF Finish, Next
<1>3. CASE Abandon
  BY <1>3 DEF Abandon
<1>4. CASE Meanwhile
  BY <1>4 DEF Meanwhile, Next
<1>5. CASE FirstUseElsewhere
  BY <1>5 DEF FirstUseElsewhere, Next
<1>6. CASE UNCHANGED setupVars
  BY <1>6 DEF setupVars
<1>7. QED BY <1>1, <1>2, <1>3, <1>4, <1>5, <1>6 DEF SetupNext

LEMMA NextSetupInv == SetupInv /\ [SetupNext]_setupVars => SetupInv'
<1> SUFFICES ASSUME SetupInv, [SetupNext]_setupVars PROVE SetupInv'
  OBVIOUS
<1>1. ASSUME NEW args \in GoodArguments, NEW link \in Links, Begin(args, link)
      PROVE  SetupInv'
  <2>1. Passed(attempt')
    BY <1>1, BeginPasses
  <2>2. made' = NoAttempt
    BY <1>1 DEF Begin
  <2>3. QED BY <2>1, <2>2 DEF SetupInv
<1>2. CASE Finish
  <2>1. Passed(attempt) /\ attempt' = NoAttempt
    BY <1>2 DEF Finish, SetupInv
  <2>2. last'.accepted => last'.call = attempt.call
    BY <1>2 DEF Finish, RefuseOutright, Decide, NoAcceptance
  <2>3. made' # NoAttempt => last'.accepted /\ made' = attempt
    BY <1>2 DEF Finish
  <2>4. QED BY <2>1, <2>2, <2>3 DEF SetupInv
<1>3. CASE Abandon
  BY <1>3 DEF Abandon, SetupInv, vars
<1>4. CASE Meanwhile
  BY <1>4 DEF Meanwhile, SetupInv
<1>5. CASE FirstUseElsewhere
  BY <1>5 DEF FirstUseElsewhere, SetupInv
<1>6. CASE UNCHANGED setupVars
  BY <1>6 DEF setupVars, SetupInv, vars
<1>7. QED BY <1>1, <1>2, <1>3, <1>4, <1>5, <1>6 DEF SetupNext

LEMMA SetupInvHolds == SetupSpec => []SetupInv
<1>1. SetupInit => SetupInv
  BY DEF SetupInit, SetupInv
<1>2. QED BY <1>1, NextSetupInv, PTL DEF SetupSpec

(* Whatever TLS does and however often connect() fails before the decision *)
(* or is interleaved with the program's other uses of its stores, stores   *)
(* and decisions behave as Admission says: its theorems hold of connect(). *)
THEOREM SetupImplementsAdmission == SetupSpec => Spec
<1>1. SetupInit => Init
  BY DEF SetupInit
<1>2. QED BY <1>1, SetupInvHolds, SetupStepIsAdmissionStep, PTL DEF SetupSpec, Spec

(* What the README promises of secure=True: a verified TLS certificate,    *)
(* and an authenticated peer, never one trusted on first use by this call; *)
(* and a pinned TLS certificate is the one shown.                          *)
THEOREM SecureHolds == SetupSpec => []SecureDoesFourThings
<1>1. SetupInv /\ Acceptance => SecureDoesFourThings
  <2> SUFFICES ASSUME SetupInv, Acceptance, made # NoAttempt
               PROVE  SecureDoesFourThings
    BY DEF SecureDoesFourThings
  <2>1. Passed(made) /\ last.accepted /\ last.call = made.call
    BY DEF SetupInv
  <2>2. made.secure => made.link.verifies /\ last.call.require
    BY <2>1 DEF Passed
  <2>3. made.secure => \/ last.key = made.call.key
                       \/ <<made.call.label, last.key>> \in vouched
                       \/ /\ made.call.subject # Unset
                          /\ CertifiedAs(last.key, made.call.subject)
    BY <2>1, <2>2 DEF Acceptance, RequireMeansAuthenticated
  <2>4. QED BY <2>1, <2>2, <2>3 DEF SecureDoesFourThings, Passed
<1>2. SetupSpec => [](AInv /\ Acceptance)
  BY SetupImplementsAdmission, AInvHolds
<1>3. QED BY <1>1, <1>2, SetupInvHolds, PTL
=============================================================================
