------------------------- MODULE CertificatesProofs -------------------------
(***************************************************************************)
(* Certificates, for any subjects, keys, authorities and times: that the   *)
(* signed text can be read in one way only, and what follows for whoever   *)
(* verifies one.                                                           *)
(***************************************************************************)
EXTENDS Certificates, SequenceTheorems, TLAPS

\* What lines of a signed text can be.
Words == Lines \cup Keys \cup Issuers \cup Int \cup {Header, ShortKey, Bad}

\* Where a signed text has its fields: after the version the subject, and
\* three lines at the end.
Says(text, sub, key, exp, iss) ==
    /\ Len(text) = Len(sub) + 4
    /\ \A i \in 1 .. Len(sub) : text[i + 1] = sub[i]
    /\ text[Len(sub) + 2] = key
    /\ text[Len(sub) + 3] = exp
    /\ text[Len(sub) + 4] = iss

\* Where _canonical puts them (ca.py).
LEMMA CanonicalText ==
    ASSUME NEW W, Header \in W, NEW sub \in Seq(W), NEW key \in W, NEW exp \in W,
           NEW iss \in W
    PROVE  /\ Canonical(sub, key, exp, iss) \in Seq(W)
           /\ Says(Canonical(sub, key, exp, iss), sub, key, exp, iss)
<1> DEFINE head == <<Header>>
           tail == <<key, exp, iss>>
           start == head \o sub
           text == start \o tail
           n == Len(sub)
<1>1. /\ head \in Seq(W) /\ Len(head) = 1
      /\ tail \in Seq(W) /\ Len(tail) = 3
      /\ tail[1] = key /\ tail[2] = exp /\ tail[3] = iss
  OBVIOUS
<1>2. n \in Nat
  BY LenProperties
<1> HIDE DEF head, tail
<1>3. /\ start \in Seq(W) /\ Len(start) = 1 + n
      /\ \A i \in 1 .. 1 + n : start[i] = IF i <= 1 THEN head[i] ELSE sub[i - 1]
  <2>1. head \in Seq(W)
    BY <1>1
  <2>2. /\ start \in Seq(W) /\ Len(start) = Len(head) + Len(sub)
        /\ \A i \in 1 .. Len(head) + Len(sub) :
               start[i] = IF i <= Len(head) THEN head[i] ELSE sub[i - Len(head)]
    BY <2>1, ConcatProperties
  <2>3. QED BY <1>1, <2>2
<1> HIDE DEF start
<1>4. /\ text \in Seq(W) /\ Len(text) = (1 + n) + 3
      /\ \A i \in 1 .. (1 + n) + 3 :
             text[i] = IF i <= 1 + n THEN start[i] ELSE tail[i - (1 + n)]
  <2>1. start \in Seq(W)
    BY <1>3
  <2>2. tail \in Seq(W)
    BY <1>1
  <2>3. /\ text \in Seq(W) /\ Len(text) = Len(start) + Len(tail)
        /\ \A i \in 1 .. Len(start) + Len(tail) :
               text[i] = IF i <= Len(start) THEN start[i] ELSE tail[i - Len(start)]
    BY <2>1, <2>2, ConcatProperties
  <2>4. QED BY <1>1, <1>3, <2>3
<1> HIDE DEF text, n
<1>5. ASSUME NEW i \in 1 .. n PROVE text[i + 1] = sub[i]
  <2>1. i + 1 \in 1 .. 1 + n /\ ~(i + 1 <= 1) /\ (i + 1) - 1 = i
    BY <1>2
  <2>2. start[i + 1] = sub[i]
    BY <1>3, <2>1
  <2>3. QED BY <1>2, <1>4, <2>1, <2>2
<1>6. text[n + 2] = key /\ text[n + 3] = exp /\ text[n + 4] = iss
  <2>1. text[n + 2] = tail[(n + 2) - (1 + n)]
    BY <1>2, <1>4
  <2>2. text[n + 3] = tail[(n + 3) - (1 + n)]
    BY <1>2, <1>4
  <2>3. text[n + 4] = tail[(n + 4) - (1 + n)]
    BY <1>2, <1>4
  <2>4. (n + 2) - (1 + n) = 1 /\ (n + 3) - (1 + n) = 2 /\ (n + 4) - (1 + n) = 3
    BY <1>2
  <2>5. QED BY <1>1, <2>1, <2>2, <2>3, <2>4
<1>7. Len(text) = n + 4
  BY <1>2, <1>4
<1>8. text = Canonical(sub, key, exp, iss)
  BY DEF text, start, head, tail, Canonical
<1>9. QED BY <1>4, <1>5, <1>6, <1>7, <1>8 DEF n, Says

\* Two certificates with the same signed text are the same in every field:
\* the text begins with the subject, and ends in three lines whatever lines
\* the subject has.
LEMMA OneReading ==
    ASSUME NEW W, Header \in W,
           NEW sub1 \in Seq(W), NEW key1 \in W, NEW exp1 \in W, NEW iss1 \in W,
           NEW sub2 \in Seq(W), NEW key2 \in W, NEW exp2 \in W, NEW iss2 \in W,
           Canonical(sub1, key1, exp1, iss1) = Canonical(sub2, key2, exp2, iss2)
    PROVE  sub1 = sub2 /\ key1 = key2 /\ exp1 = exp2 /\ iss1 = iss2
<1> DEFINE text == Canonical(sub1, key1, exp1, iss1)
           n == Len(sub1)
           m == Len(sub2)
<1>1. Says(text, sub1, key1, exp1, iss1)
  BY CanonicalText
<1>2. Says(text, sub2, key2, exp2, iss2)
  BY CanonicalText
<1> HIDE DEF text
<1>3. n \in Nat /\ m \in Nat
  BY LenProperties
<1>4. n = m
  BY <1>1, <1>2, <1>3 DEF Says
<1>5. \A i \in 1 .. n : sub1[i] = sub2[i]
  BY <1>1, <1>2, <1>4 DEF Says
<1>6. sub1 = sub2
  BY <1>4, <1>5, SeqEqual
<1>7. QED BY <1>1, <1>2, <1>4, <1>6 DEF Says

\* int() makes a whole number, and leaves one as it is (ca.py).
LEMMA WholeSeconds ==
    /\ \A t \in Int : Truncated(t) \in Int
    /\ \A e \in Int : e * Second \in Int /\ Truncated(e * Second) = e
BY DEF Truncated, Second
-----------------------------------------------------------------------------
(* The invariant.                                                          *)

\* issue() makes certificates of its arguments, with an expiry.
WellIssued(c) ==
    /\ c.sub \in Subjects /\ c.key \in Keys
    /\ c.exp \in Int /\ c.exp > 0
    /\ c = Certificate(c.sub, c.key, c.exp, Trusted,
                       Signature(Trusted, Canonical(c.sub, c.key, c.exp, Trusted)))

\* The verdict is the one on the document and the clock as they stand.
CInv ==
    /\ \A c \in issued : WellIssued(c)
    /\ now \in Int
    /\ document \in {Unset} \cup Documents
    /\ document = Unset => verdict = "none"
    /\ document # Unset => verdict = Verdict(document)

LEMMA WordsAreText ==
    /\ Header \in Words /\ Subjects \subseteq Seq(Words)
    /\ Keys \cup {ShortKey, Bad} \subseteq Words /\ Issuers \subseteq Words
    /\ Int \subseteq Words /\ Trusted \in Issuers
<1>1. Lines \subseteq Words
  BY DEF Words
<1>2. ASSUME NEW sub \in Subjects PROVE sub \in Seq(Words)
  <2>1. sub \in Seq(Lines)
    BY TextAssumption
  <2>2. QED BY <1>1, <2>1, SeqMonotonic
<1>3. QED BY <1>2, KeysAssumption DEF Words

\* The signature of a certificate is over its own text, by the authority.
LEMMA IssuedSignature ==
    ASSUME NEW c, WellIssued(c)
    PROVE  /\ c.sig = Signature(Trusted, Canonical(c.sub, c.key, c.exp, Trusted))
           /\ c.sig \in [by : Issuers, text : Seq(Words)]
<1>1. c.sig = Signature(Trusted, Canonical(c.sub, c.key, c.exp, Trusted))
  BY DEF WellIssued, Certificate
<1>2. Canonical(c.sub, c.key, c.exp, Trusted) \in Seq(Words)
  BY WordsAreText, CanonicalText DEF WellIssued
<1>3. QED BY <1>1, <1>2, KeysAssumption DEF Signature

\* The text it signs is made of a header, lines and fields that parse.
LEMMA IssuedText ==
    ASSUME NEW c, WellIssued(c)
    PROVE  Canonical(c.sub, c.key, c.exp, Trusted) \in
               Seq(Lines \cup Keys \cup Issuers \cup Int \cup {Header})
<1> DEFINE W == Lines \cup Keys \cup Issuers \cup Int \cup {Header}
<1>1. Lines \subseteq W /\ c.sub \in Seq(Lines)
  BY TextAssumption DEF WellIssued
<1>2. c.sub \in Seq(W)
  BY <1>1, SeqMonotonic
<1>3. c.key \in W /\ c.exp \in W /\ Trusted \in W /\ Header \in W
  BY KeysAssumption DEF WellIssued
<1> HIDE DEF W
<1>4. Canonical(c.sub, c.key, c.exp, Trusted) \in Seq(W)
  BY <1>2, <1>3, CanonicalText
<1>5. QED BY <1>4 DEF W

\* What a peer can present: an object whose signature is an issued one, or
\* another authority's, or none.
LEMMA DocumentIsObject ==
    ASSUME \A c \in issued : WellIssued(c), NEW doc \in Documents,
           doc \notin {NotJson, NotObject}
    PROVE  /\ doc \in Objects
           /\ doc = [v |-> doc.v, sub |-> doc.sub, key |-> doc.key, exp |-> doc.exp,
                     iss |-> doc.iss, sig |-> doc.sig]
           /\ \/ doc.sig = Bad
              \/ \E c \in issued : doc.sig = c.sig
              \/ doc.sig.by # Trusted
<1>1. PICK d \in Fields : \E sig \in SignaturesFor(d) :
          doc = [v |-> d.v, sub |-> d.sub, key |-> d.key, exp |-> d.exp, iss |-> d.iss,
                 sig |-> sig]
  BY DEF Documents
<1>2. PICK sig \in SignaturesFor(d) :
          doc = [v |-> d.v, sub |-> d.sub, key |-> d.key, exp |-> d.exp, iss |-> d.iss,
                 sig |-> sig]
  BY <1>1
<1>3. /\ d.v \in {1, Bad} /\ d.sub \in Subjects \cup {Bad}
      /\ d.key \in Keys \cup {ShortKey, Bad} /\ d.exp \in Int \cup {Bad, Infinite}
      /\ d.iss \in Issuers \cup {Bad}
  BY LastTimeAssumption DEF Fields, Second
<1>4. CASE \E c \in issued : sig = c.sig
  <2>1. sig \in [by : Issuers, text : Seq(Words)]
    BY <1>4, IssuedSignature
  <2>2. QED BY <1>2, <1>3, <1>4, <2>1 DEF Objects, Words
<1>5. CASE sig = Bad
  BY <1>2, <1>3, <1>5 DEF Objects
<1>6. CASE \E by \in {i \in Issuers \ {Trusted} :
                        d.sub # Bad /\ d.exp \notin {Bad, Infinite}} :
               sig = Signature(by, Canonical(d.sub, d.key, Truncated(d.exp), d.iss))
  <2>1. PICK by \in {i \in Issuers \ {Trusted} :
                       d.sub # Bad /\ d.exp \notin {Bad, Infinite}} :
            sig = Signature(by, Canonical(d.sub, d.key, Truncated(d.exp), d.iss))
    BY <1>6
  <2>2. /\ d.sub \in Seq(Words) /\ d.key \in Words /\ Truncated(d.exp) \in Words
        /\ d.iss \in Words /\ Header \in Words
    BY <1>3, <2>1, WordsAreText, WholeSeconds
  <2>3. Canonical(d.sub, d.key, Truncated(d.exp), d.iss) \in Seq(Words)
    BY <2>2, CanonicalText
  <2>4. sig \in [by : Issuers, text : Seq(Words)] /\ sig.by # Trusted
    BY <2>1, <2>3 DEF Signature
  <2>5. QED BY <1>2, <1>3, <2>4 DEF Objects, Words
<1>7. QED BY <1>4, <1>5, <1>6 DEF SignaturesFor

\* The sentinels are not documents that an authority or a peer makes.
LEMMA UnsetIsNoDocument ==
    ASSUME \A c \in issued : WellIssued(c)
    PROVE  Unset \notin Documents
BY DocumentIsObject, SentinelAssumption

LEMMA IssuedIsObject ==
    ASSUME NEW c, WellIssued(c)
    PROVE  /\ ToBytes(c) \in Objects
           /\ ToBytes(c) \notin {Unset, NotJson, NotObject}
<1>1. c.sig \in [by : Issuers, text : Seq(Words)]
  BY IssuedSignature
<1>2. c.iss = Trusted /\ c.iss \in Issuers
  BY KeysAssumption DEF WellIssued, Certificate
<1>3. ToBytes(c) \in Objects
  BY <1>1, <1>2, WholeSeconds DEF ToBytes, Objects, WellIssued, Words
<1>4. QED BY <1>3, SentinelAssumption
-----------------------------------------------------------------------------
LEMMA InitCInv == Init => CInv
BY DEF Init, CInv

LEMMA IssueKeeps ==
    ASSUME CInv, NEW sub \in Subjects, NEW key,
           NEW notAfter \in (-1 .. LastTime) \cup {Unset},
           NEW lifetime \in (-1 .. LastTime * Second) \cup {Unset},
           Issue(sub, key, notAfter, lifetime)
    PROVE  CInv'
<1>1. /\ key \in Keys /\ document = Unset
      /\ now' = now /\ document' = document /\ verdict' = verdict
  BY DEF Issue
<1>2. PICK exp \in Expiries(notAfter, lifetime) :
          issued' = issued \cup
              {Certificate(sub, key, exp, Trusted,
                           Signature(Trusted, Canonical(sub, key, exp, Trusted)))}
  BY DEF Issue
<1>3. exp \in Int /\ exp > 0
  <2>1. notAfter \in Int \cup {Unset} /\ lifetime \in Int \cup {Unset} /\ now \in Int
    BY LastTimeAssumption DEF CInv, Second
  <2>2. /\ exp \in IF lifetime = Unset THEN {notAfter} \ {Unset}
                   ELSE {Truncated(now + lifetime)}
        /\ exp > 0
    BY DEF Expiries
  <2>3. lifetime # Unset => Truncated(now + lifetime) \in Int
    <3>1. lifetime # Unset => now + lifetime \in Int
      BY <2>1
    <3>2. QED BY <3>1, WholeSeconds
  <2>4. QED BY <2>1, <2>2, <2>3
<1>4. WellIssued(Certificate(sub, key, exp, Trusted,
                             Signature(Trusted, Canonical(sub, key, exp, Trusted))))
  BY <1>1, <1>3 DEF WellIssued, Certificate
<1>5. \A c \in issued' : WellIssued(c)
  BY <1>2, <1>4 DEF CInv
<1>6. QED BY <1>1, <1>5 DEF CInv

LEMMA PresentKeeps ==
    ASSUME CInv, NEW doc \in Documents, Present(doc)
    PROVE  CInv'
<1>1. /\ document' = doc /\ verdict' = Verdict(doc) /\ issued' = issued /\ now' = now
  BY DEF Present
<1>2. doc # Unset
  BY UnsetIsNoDocument DEF CInv
<1>3. Documents' = Documents
  BY <1>1 DEF Documents, SignaturesFor
<1>4. Verdict(document)' = Verdict(doc)
  BY <1>1 DEF Verdict, Verifies
<1>5. QED BY <1>1, <1>2, <1>3, <1>4 DEF CInv

LEMMA NextCInv == CInv /\ [Next]_vars => CInv'
<1> SUFFICES ASSUME CInv, [Next]_vars PROVE CInv'
  OBVIOUS
<1>1. ASSUME NEW sub \in Subjects, NEW key \in Keys \cup {ShortKey},
             NEW notAfter \in (-1 .. LastTime) \cup {Unset},
             NEW lifetime \in (-1 .. LastTime * Second) \cup {Unset},
             Issue(sub, key, notAfter, lifetime)
      PROVE  CInv'
  BY <1>1, IssueKeeps
<1>2. ASSUME NEW doc \in Documents, Present(doc) PROVE CInv'
  BY <1>2, PresentKeeps
<1>3. ASSUME NEW t \in 0 .. (LastTime + 1) * Second, SetClock(t) PROVE CInv'
  BY <1>3, LastTimeAssumption DEF SetClock, CInv, Second
<1>4. CASE UNCHANGED vars
  BY <1>4 DEF vars, CInv, Documents, SignaturesFor, Verdict, Verifies
<1>5. QED BY <1>1, <1>2, <1>3, <1>4 DEF Next

LEMMA CInvHolds == Spec => []CInv
BY InitCInv, NextCInv, PTL DEF Spec
-----------------------------------------------------------------------------
(* What verifies is a certificate that the trusted authority issued, in    *)
(* every field, and has not expired (ca.py from_bytes, verify), for any    *)
(* lines a subject may be made of and any documents a peer puts together.  *)
THEOREM ValidHolds == Spec => []ValidMeansIssued
<1>1. CInv => ValidMeansIssued
  <2> SUFFICES ASSUME CInv, verdict = "valid"
               PROVE  /\ FromBytes(document) \in issued
                      /\ now <= FromBytes(document).exp * Second
    BY DEF ValidMeansIssued
  <2> DEFINE d == document
             c == FromBytes(d)
  <2>1. d \in Documents /\ Verdict(d) = "valid"
    BY DEF CInv
  <2>2. /\ d \notin {NotJson, NotObject} /\ Parses(d)
        /\ c.key \in Keys /\ Verifies(c)
    BY <2>1 DEF Verdict, Parses
  <2>3. /\ d \in Objects
        /\ \/ d.sig = Bad
           \/ \E e \in issued : d.sig = e.sig
           \/ d.sig.by # Trusted
    BY <2>1, <2>2, DocumentIsObject DEF CInv
  <2>4. /\ c = Certificate(d.sub, d.key, Truncated(d.exp), d.iss, d.sig)
        /\ c.sub = d.sub /\ c.key = d.key /\ c.exp = Truncated(d.exp) /\ c.iss = d.iss
        /\ c.sig = d.sig
    BY DEF FromBytes, Certificate
  <2>5. /\ d.iss = Trusted /\ now <= c.exp * Second
        /\ d.sig = Signature(Trusted, Canonical(d.sub, d.key, c.exp, Trusted))
    BY <2>2, <2>4 DEF Verifies
  <2>6. PICK e \in issued : d.sig = e.sig
    <3>1. d.sig # Bad
      BY <2>2 DEF Parses
    <3>2. d.sig.by = Trusted
      BY <2>5 DEF Signature
    <3>3. QED BY <2>3, <3>1, <3>2
  <2>7. WellIssued(e)
    BY DEF CInv
  <2>8. Canonical(d.sub, d.key, c.exp, Trusted) = Canonical(e.sub, e.key, e.exp, Trusted)
    <3>1. e.sig = Signature(Trusted, Canonical(e.sub, e.key, e.exp, Trusted))
      BY <2>7, IssuedSignature
    <3>2. /\ d.sig.text = Canonical(d.sub, d.key, c.exp, Trusted)
          /\ e.sig.text = Canonical(e.sub, e.key, e.exp, Trusted)
      BY <2>5, <3>1 DEF Signature
    <3>3. QED BY <2>6, <3>2
  <2>9. /\ d.sub \in Subjects /\ d.key \in Keys /\ c.exp \in Int
    <3>1. d.exp \in Int
      BY <2>2, <2>3 DEF Objects, Parses
    <3>2. QED BY <2>2, <2>3, <2>4, <3>1, WholeSeconds DEF Objects, Parses
  <2>10. d.sub = e.sub /\ d.key = e.key /\ c.exp = e.exp
    <3>1. /\ e.sub \in Seq(Words) /\ e.key \in Words /\ e.exp \in Words
          /\ d.sub \in Seq(Words) /\ d.key \in Words /\ c.exp \in Words
          /\ Trusted \in Words /\ Header \in Words
      BY <2>7, <2>9, WordsAreText DEF WellIssued
    <3>2. ASSUME NEW sub1 \in Seq(Words), NEW key1 \in Words, NEW exp1 \in Words,
                 NEW sub2 \in Seq(Words), NEW key2 \in Words, NEW exp2 \in Words,
                 Canonical(sub1, key1, exp1, Trusted)
                   = Canonical(sub2, key2, exp2, Trusted)
          PROVE  sub1 = sub2 /\ key1 = key2 /\ exp1 = exp2 /\ Trusted = Trusted
      BY <3>1, <3>2, OneReading
    <3>3. QED BY <2>8, <3>1, <3>2
  <2>11. c = e
    BY <2>4, <2>5, <2>6, <2>7, <2>10, IssuedSignature DEF WellIssued
  <2>12. QED BY <2>5, <2>11
<1>2. QED BY <1>1, CInvHolds, PTL

(* A certificate that was issued has an expiry, and verifies after its     *)
(* trip through to_bytes and from_bytes up to that second (ca.py issue,    *)
(* to_bytes, from_bytes, verify).                                          *)
THEOREM IssuedHolds == Spec => []IssuedVerifies
<1>1. CInv => IssuedVerifies
  <2> SUFFICES ASSUME CInv, NEW c \in issued
               PROVE  /\ c.exp > 0
                      /\ document = ToBytes(c) /\ now <= c.exp * Second => verdict = "valid"
    BY DEF IssuedVerifies
  <2>1. WellIssued(c)
    BY DEF CInv
  <2>2. SUFFICES ASSUME document = ToBytes(c), now <= c.exp * Second PROVE verdict = "valid"
    BY <2>1 DEF WellIssued
  <2> DEFINE d == ToBytes(c)
  <2>3. d \notin {Unset, NotJson, NotObject}
    BY <2>1, IssuedIsObject
  <2>4. verdict = Verdict(d)
    BY <2>2, <2>3 DEF CInv
  <2>5. FromBytes(d) = c
    <3>1. Truncated(c.exp * Second) = c.exp
      BY <2>1, WholeSeconds DEF WellIssued
    <3>2. QED BY <2>1, <3>1 DEF FromBytes, ToBytes, WellIssued, Certificate
  <2>6. Parses(d) /\ ~Overflows(d)
    <3>1. /\ c.sub # Bad /\ c.key # Bad /\ c.iss # Bad
          /\ c.exp * Second \notin {Bad, Infinite}
      <4>1. c.exp * Second \in Int
        BY <2>1, WholeSeconds DEF WellIssued
      <4>2. QED
        BY <2>1, <4>1, SentinelAssumption, KeysAssumption DEF WellIssued, Certificate
    <3>2. c.sig # Bad
      <4>1. c.sig = Signature(Trusted, Canonical(c.sub, c.key, c.exp, Trusted))
        BY <2>1, IssuedSignature
      <4>2. Canonical(c.sub, c.key, c.exp, Trusted) \in
                Seq(Lines \cup Keys \cup Issuers \cup Int \cup {Header})
        BY <2>1, IssuedText
      <4>3. QED BY <4>1, <4>2, SentinelAssumption, KeysAssumption DEF Signature
    <3>3. QED BY <2>3, <3>1, <3>2 DEF Parses, Overflows, ToBytes
  <2>7. c.key \in Keys /\ c.iss = Trusted /\ c.exp > 0
    BY <2>1 DEF WellIssued, Certificate
  <2>8. Verifies(c)
    BY <2>1, <2>2, <2>7, IssuedSignature DEF Verifies
  <2>9. QED BY <2>3, <2>4, <2>5, <2>6, <2>7, <2>8 DEF Verdict
<1>2. QED BY <1>1, CInvHolds, PTL
=============================================================================
