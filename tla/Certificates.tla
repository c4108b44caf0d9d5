---------------------------- MODULE Certificates ----------------------------
(***************************************************************************)
(* Identity certificates (ca.py): what an authority signs, the document a  *)
(* certificate travels in, and what a verifier makes of any document.      *)
(* (Revocation and the peer's key are Admission's.)                        *)
(*                                                                         *)
(* A text is a sequence of lines: the signed text is joined with newlines, *)
(* and a subject may contain newlines itself, and lines that look like the *)
(* other fields.  A signature names its signer and the text it signs, and  *)
(* is made by nobody else.                                                 *)
(*                                                                         *)
(* Clocks, lifetimes and what a document says of its expiry are fractional *)
(* and counted in instants, half seconds; the expiry of a certificate is a *)
(* whole number of seconds.                                                *)
(***************************************************************************)
EXTENDS Integers, Sequences, FiniteSets

CONSTANTS
    Lines,      \* lines of text, hexadecimal keys among them
    Subjects,   \* subjects that occur
    Keys,       \* 32-byte public keys
    ShortKey,   \* bytes of another length
    Issuers,    \* public keys of authorities
    Trusted,    \* the one that is the verifier's trusted_issuer
    Header,     \* "securews-cert/v1"
    Unset,      \* an argument not given; no document yet
    Bad,        \* a field that is missing or does not parse
    Infinite,   \* an expiry of Infinity, which Python's json.loads lets through
    NotJson,    \* a document that is not JSON
    NotObject,  \* one that is JSON but not an object
    LastTime,   \* bound: expiries, and nearly the clock, go up to this second
    MaxIssued   \* bound: certificates issued

ASSUME TextAssumption == Subjects \subseteq Seq(Lines)
ASSUME KeysAssumption == Trusted \in Issuers /\ ShortKey \notin Keys \cup Issuers

\* The objects a certificate document can hold, whatever they say.
Objects == [
    v : {1, Bad}, sub : Subjects \cup {Bad}, key : Keys \cup {ShortKey, Bad},
    exp : Int \cup {Bad, Infinite}, iss : Issuers \cup {Bad},
    sig : {Bad} \cup
          [by : Issuers,
           text : Seq(Lines \cup Keys \cup Issuers \cup Int \cup {Header, ShortKey, Bad})]]

ASSUME SentinelAssumption ==
    /\ Bad \notin Subjects \cup Keys \cup Issuers \cup {ShortKey} \cup Int
    /\ Bad \notin [by : Issuers, text : Seq(Lines \cup Keys \cup Issuers \cup Int \cup {Header})]
    /\ Infinite \notin Int \cup {Bad}
    /\ Unset \notin Int \cup {NotJson, NotObject}
    /\ \A other \in {Unset, NotJson, NotObject} : other \notin Objects
ASSUME LastTimeAssumption == LastTime \in Nat

VARIABLES
    issued,     \* the certificates the trusted authority has made
    now,        \* time.time()
    document,   \* the last document presented
    verdict     \* what from_bytes and verify made of it

vars == <<issued, now, document, verdict>>

\* Seeded fault: the expiry is left out of what is signed.
CanonicalTimeless(sub, key, exp, iss) == <<Header>> \o sub \o <<key, iss>>

\* _canonical
Canonical(sub, key, exp, iss) == <<Header>> \o sub \o <<key, exp, iss>>

Signature(by, text) == [by |-> by, text |-> text]

Certificate(sub, key, exp, iss, sig) ==
    [sub |-> sub, key |-> key, exp |-> exp, iss |-> iss, sig |-> sig]

\* Instants in a second, and int(): towards zero.
Second == 2
Truncated(t) == IF t >= 0 THEN t \div Second ELSE -((-t) \div Second)

Init == issued = {} /\ now = 0 /\ document = Unset /\ verdict = "none"
-----------------------------------------------------------------------------
(* CertificateAuthority                                                    *)

\* The expiry issue() settles on; none when it raises ValueError.
Expiries(notAfter, lifetime) ==
    {exp \in IF lifetime = Unset THEN {notAfter} \ {Unset} ELSE {Truncated(now + lifetime)} :
        /\ exp > 0
        /\ lifetime # Unset => lifetime > 0 /\ notAfter = Unset}

\* issue(); public_key is not in Keys only if it has the wrong length.
Issue(sub, key, notAfter, lifetime) ==
    /\ key \in Keys /\ document = Unset
    /\ Cardinality(issued) < MaxIssued
    /\ \E exp \in Expiries(notAfter, lifetime) :
         /\ exp <= LastTime
         /\ issued' = issued \cup
              {Certificate(sub, key, exp, Trusted,
                           Signature(Trusted, Canonical(sub, key, exp, Trusted)))}
    /\ UNCHANGED <<now, document, verdict>>
-----------------------------------------------------------------------------
(* The verifier                                                            *)

\* to_bytes: an object with the version and the five fields.
ToBytes(c) == [v |-> 1, sub |-> c.sub, key |-> c.key, exp |-> c.exp * Second,
               iss |-> c.iss, sig |-> c.sig]

\* int() of an infinite expiry raises an error that from_bytes does not catch;
\* the fields after it are not looked at any more.
Overflows(doc) ==
    /\ doc \notin {NotJson, NotObject}
    /\ doc.v = 1
    /\ Bad \notin {doc.sub, doc.key}
    /\ doc.exp = Infinite

\* from_bytes returns a certificate.
Parses(doc) ==
    /\ doc \notin {NotJson, NotObject}
    /\ doc.v = 1
    /\ Bad \notin {doc.sub, doc.key, doc.exp, doc.iss, doc.sig}
    /\ doc.exp # Infinite

\* The certificate: int() cuts the expiry. The other fields of a document are
\* already what str() and bytes.fromhex() make of them, however they are spelt.
FromBytes(doc) == Certificate(doc.sub, doc.key, Truncated(doc.exp), doc.iss, doc.sig)

\* Seeded fault: a certificate is not valid at the expiry itself.
VerifiesBeforeExpiry(c) ==
    /\ c.iss = Trusted
    /\ 0 < c.exp /\ now < c.exp * Second
    /\ c.sig = Signature(c.iss, Canonical(c.sub, c.key, c.exp, c.iss))

\* verify() gets past its checks: issuer, expiry, signature.
Verifies(c) ==
    /\ c.iss = Trusted
    /\ 0 < c.exp /\ now <= c.exp * Second
    /\ c.sig = Signature(c.iss, Canonical(c.sub, c.key, c.exp, c.iss))

\* The result, or which exception leaves from_bytes or verify: from_bytes asks
\* whatever it has parsed for .get(), and verify looks at the key's length with
\* validate_public_key.
Verdict(doc) ==
    IF doc = NotObject THEN "AttributeError"
    ELSE IF Overflows(doc) THEN "OverflowError"
    ELSE IF ~Parses(doc) THEN "IdentityError"
    ELSE IF FromBytes(doc).key \notin Keys THEN "ValueError"
    ELSE IF Verifies(FromBytes(doc)) THEN "valid" ELSE "IdentityError"

Present(doc) ==
    /\ document = Unset
    /\ document' = doc
    /\ verdict' = Verdict(doc)
    /\ UNCHANGED <<issued, now>>

\* The clock is set to anything, before another document is presented.
SetClock(t) ==
    /\ now' = t
    /\ document' = Unset /\ verdict' = "none"
    /\ UNCHANGED issued
-----------------------------------------------------------------------------
(* What a peer can present: any fields at all, with a signature it has     *)
(* seen or one of an authority that is not the trusted one.                *)

Fields == [v : {1, Bad}, sub : Subjects \cup {Bad}, key : Keys \cup {ShortKey, Bad},
           exp : (-1 .. LastTime * Second) \cup {Bad, Infinite}, iss : Issuers \cup {Bad}]

SignaturesFor(d) ==
    {c.sig : c \in issued} \cup {Bad} \cup
    {Signature(by, Canonical(d.sub, d.key, Truncated(d.exp), d.iss)) :
        by \in {i \in Issuers \ {Trusted} : d.sub # Bad /\ d.exp \notin {Bad, Infinite}}}

Documents == {NotJson, NotObject} \cup
    UNION {{[v |-> d.v, sub |-> d.sub, key |-> d.key, exp |-> d.exp, iss |-> d.iss,
             sig |-> sig] : sig \in SignaturesFor(d)} : d \in Fields}

Next ==
    \/ \E sub \in Subjects, key \in Keys \cup {ShortKey} :
       \E notAfter \in (-1 .. LastTime) \cup {Unset},
          lifetime \in (-1 .. LastTime * Second) \cup {Unset} : Issue(sub, key, notAfter, lifetime)
    \/ document = Unset /\ \E doc \in Documents : Present(doc)
    \/ \E t \in 0 .. (LastTime + 1) * Second : SetClock(t)

Spec == Init /\ [][Next]_vars
-----------------------------------------------------------------------------
(* Properties.                                                             *)

(* A document that verifies says, field by field, what the trusted         *)
(* authority once issued, and has not expired: the newline-joined text     *)
(* that is signed can be read in one way only, whatever lines a subject is *)
(* made of.  Admission takes this for granted.                             *)
ValidMeansIssued == verdict = "valid" =>
    /\ FromBytes(document) \in issued
    /\ now <= FromBytes(document).exp * Second

(* A certificate that was issued and has not expired verifies after its    *)
(* trip through to_bytes and from_bytes, up to the second it expires at;   *)
(* and it has one, by whichever of not_after and lifetime it was asked for *)
(* (issue() "refuses to mint an eternal certificate").                     *)
IssuedVerifies == \A c \in issued :
    /\ c.exp > 0
    /\ document = ToBytes(c) /\ now <= c.exp * Second => verdict = "valid"

(* What is not a valid certificate is refused with IdentityError, and with *)
(* nothing else.                                                           *)
RefusedWithIdentityError == verdict \in {"none", "valid", "IdentityError"}
=============================================================================
