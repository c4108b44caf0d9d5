------------------------ MODULE ClientProgramProofs ------------------------
(***************************************************************************)
(* Proofs about ClientProgram, for any number of keys and identities: what *)
(* holds when processes run at the same time, and what if they never do.    *)
(***************************************************************************)
EXTENDS ClientProgram, TLAPS

\* The kinds of file are different, and load() can tell.
LEMMA FileKinds ==
    /\ Absent # Torn
    /\ \A v : Whole(v) # Absent /\ Whole(v) # Torn /\ Whole(v).value = v
    /\ \A v, w : Whole(v) = Whole(w) => v = w
    /\ \A e : Loads(Absent, e) = {e} /\ Loads(Torn, e) = {}
    /\ \A v, e : Loads(Whole(v), e) = {v}
<1>1. Absent.is = "absent" /\ Torn.is = "torn"
  BY DEF Absent, Torn
<1>2. ASSUME NEW v PROVE Whole(v).is = "whole" /\ Whole(v).value = v
  BY DEF Whole
<1>3. Absent # Torn /\ \A v : Whole(v) # Absent /\ Whole(v) # Torn /\ Whole(v).value = v
  BY <1>1, <1>2
<1>4. \A v, w : Whole(v) = Whole(w) => v = w
  BY <1>2
<1>5. \A e : Loads(Absent, e) = {e} /\ Loads(Torn, e) = {}
  BY <1>1 DEF Loads
<1>6. \A v, e : Loads(Whole(v), e) = {v}
  BY <1>2 DEF Loads
<1>7. QED
  BY <1>3, <1>4, <1>5, <1>6

\* A file is of one of the three kinds.
LEMMA FileCases ==
    ASSUME NEW V, NEW f \in Contents(V)
    PROVE  f = Absent \/ f = Torn \/ \E v \in V : f = Whole(v)
BY DEF Contents

\* And those are files.
LEMMA FileTypes ==
    ASSUME NEW V
    PROVE  /\ Absent \in Contents(V) /\ Torn \in Contents(V)
           /\ \A v \in V : Whole(v) \in Contents(V)
BY DEF Contents

Working == {"save", "write store", "talk"}

\* What connect() leaves in memory until the process ends.
Remembers == \A p \in Programs :
    /\ phase[p] \in {"save", "write store"} => mode[p] # "none"
    /\ phase[p] \in Working /\ mode[p] # "none" =>
         known[p] = peer[p] /\ known[p] \in Keys
    /\ phase[p] \in {"generate", "write identity", "load", "connect"} \cup Working
         => identity[p] \in Identities

\* Where the keys in the file, and in the memory of a process that requires a
\* pin, come from.
PinsAreSaved ==
    /\ \A k \in Keys : pinFile = Whole(k) => k \in saved
    /\ \A p \in Programs :
         mode[p] = "require" /\ known[p] # None => known[p] \in saved

LEMMA TypeInit == Init => TypeOK /\ Remembers /\ PinsAreSaved
<1> SUFFICES ASSUME Init PROVE TypeOK /\ Remembers /\ PinsAreSaved
  OBVIOUS
<1>1. TypeOK
  BY FileTypes DEF Init, TypeOK, Phases, Modes
<1>2. Remembers
  BY DEF Init, Remembers, Working
<1>3. PinsAreSaved
  BY FileKinds DEF Init, PinsAreSaved
<1>4. QED
  BY <1>1, <1>2, <1>3

LEMMA TypeStep == TypeOK /\ Remembers /\ PinsAreSaved /\ [Next]_vars
                    => TypeOK' /\ Remembers' /\ PinsAreSaved'
<1> SUFFICES ASSUME TypeOK, Remembers, PinsAreSaved, [Next]_vars
             PROVE  TypeOK' /\ Remembers' /\ PinsAreSaved'
  OBVIOUS
<1> USE NoneAssumption DEF files, history, From, Phases, Modes, Working
<1>1. ASSUME NEW p \in Programs, NEW m \in Modes, Start(p, m)
      PROVE  TypeOK' /\ Remembers' /\ PinsAreSaved'
  BY <1>1 DEF Start, TypeOK, Remembers, PinsAreSaved
<1>2. ASSUME NEW p \in Programs, ReadIdentity(p)
      PROVE  TypeOK' /\ Remembers' /\ PinsAreSaved'
  <2>1. idFile \in Contents(Identities) /\ idFile # Absent
    BY <1>2 DEF TypeOK, ReadIdentity
  <2>2. CASE idFile = Torn
    BY <1>2, <2>2 DEF ReadIdentity, TypeOK, Remembers, PinsAreSaved
  <2>3. CASE idFile # Torn
    <3>1. PICK i \in Identities : idFile = Whole(i)
      BY <2>1, <2>3, FileCases
    <3>2. idFile.value = i
      BY <3>1, FileKinds
    <3>3. /\ phase[p] = "identity"
          /\ phase' = [phase EXCEPT ![p] = "load"]
          /\ identity' = [identity EXCEPT ![p] = i]
          /\ UNCHANGED <<idFile, pinFile, mode, known, peer, presented, saved, sentTo, overlapped>>
      BY <1>2, <2>3, <3>2 DEF ReadIdentity
    <3>4. TypeOK'
      BY <3>3 DEF TypeOK
    <3>5. Remembers'
      BY <3>3 DEF TypeOK, Remembers
    <3>6. PinsAreSaved'
      BY <3>3 DEF PinsAreSaved
    <3>7. QED
      BY <3>4, <3>5, <3>6
  <2>4. QED
    BY <2>2, <2>3
<1>3. ASSUME NEW p \in Programs, GenerateIdentity(p)
      PROVE  TypeOK' /\ Remembers' /\ PinsAreSaved'
  <2> PICK i \in Identities : identity' = [identity EXCEPT ![p] = i]
    BY <1>3 DEF GenerateIdentity
  <2>a. /\ phase[p] = "identity"
        /\ phase' = [phase EXCEPT ![p] = "generate"]
        /\ UNCHANGED <<idFile, pinFile, mode, known, peer, presented, saved, sentTo, overlapped>>
    BY <1>3 DEF GenerateIdentity
  <2>1. TypeOK'
    BY <2>a DEF TypeOK
  <2>2. Remembers'
    BY <2>a DEF TypeOK, Remembers
  <2>3. PinsAreSaved'
    BY <2>a DEF PinsAreSaved
  <2>4. QED
    BY <2>1, <2>2, <2>3
<1>4. ASSUME NEW p \in Programs, OpenIdentity(p)
      PROVE  TypeOK' /\ Remembers' /\ PinsAreSaved'
  BY <1>4, FileTypes DEF OpenIdentity, TypeOK, Remembers, PinsAreSaved
<1>5. ASSUME NEW p \in Programs, WriteIdentity(p)
      PROVE  TypeOK' /\ Remembers' /\ PinsAreSaved'
  BY <1>5, FileTypes DEF WriteIdentity, TypeOK, Remembers, PinsAreSaved
<1>6. ASSUME NEW p \in Programs, LoadPins(p)
      PROVE  TypeOK' /\ Remembers' /\ PinsAreSaved'
  <2>1. ASSUME NEW k \in Loads(pinFile, None)
        PROVE  k \in Keys \cup {None} /\ (k \in saved \/ k = None)
    <3>1. CASE pinFile = Absent
      BY <2>1, <3>1, FileKinds
    <3>2. CASE pinFile = Torn
      BY <2>1, <3>2, FileKinds
    <3>3. CASE \E v \in Keys : pinFile = Whole(v)
      BY <2>1, <3>3, FileKinds DEF PinsAreSaved
    <3>4. QED
      BY <3>1, <3>2, <3>3, FileCases DEF TypeOK
  <2>2. CASE UNCHANGED known
    BY <1>6, <2>2 DEF LoadPins, TypeOK, Remembers, PinsAreSaved
  <2>3. CASE \E k \in Loads(pinFile, None) : known' = [known EXCEPT ![p] = k]
    <3>1. PICK k \in Loads(pinFile, None) : known' = [known EXCEPT ![p] = k]
      BY <2>3
    <3>2. /\ phase[p] = "load"
          /\ \E next \in {"connect", "down"} : phase' = [phase EXCEPT ![p] = next]
          /\ UNCHANGED <<idFile, pinFile, mode, identity, peer, presented, saved, sentTo,
                         overlapped>>
      BY <1>6 DEF LoadPins
    <3>3. TypeOK'
      BY <2>1, <3>1, <3>2 DEF TypeOK
    <3>4. Remembers'
      BY <3>1, <3>2 DEF TypeOK, Remembers
    <3>5. PinsAreSaved'
      BY <2>1, <3>1, <3>2 DEF TypeOK, PinsAreSaved
    <3>6. QED
      BY <3>3, <3>4, <3>5
  <2>4. QED
    BY <1>6, <2>2, <2>3 DEF LoadPins
<1>7. ASSUME NEW p \in Programs, NEW key \in Keys, Connect(p, key)
      PROVE  TypeOK' /\ Remembers' /\ PinsAreSaved'
  BY <1>7 DEF Connect, Connects, KnownAfter, AfterConnect, TypeOK, Remembers, PinsAreSaved
<1>8. ASSUME NEW p \in Programs, OpenStore(p)
      PROVE  TypeOK' /\ Remembers' /\ PinsAreSaved'
  BY <1>8, FileTypes, FileKinds DEF OpenStore, TypeOK, Remembers, PinsAreSaved
<1>9. ASSUME NEW p \in Programs, WriteStore(p)
      PROVE  TypeOK' /\ Remembers' /\ PinsAreSaved'
  <2>1. known[p] \in Keys /\ (mode[p] = "tofu" \/ known[p] \in saved)
    BY <1>9 DEF WriteStore, TypeOK, Remembers, PinsAreSaved
  <2>2. known[p] \in saved' /\ saved \subseteq saved' /\ saved' \subseteq Keys
    BY <1>9, <2>1 DEF WriteStore, TypeOK
  <2>3. QED
    BY <1>9, <2>1, <2>2, FileTypes, FileKinds
      DEF WriteStore, TypeOK, Remembers, PinsAreSaved
<1>10. ASSUME NEW p \in Programs, SendMessage(p)
       PROVE  TypeOK' /\ Remembers' /\ PinsAreSaved'
  BY <1>10 DEF SendMessage, TypeOK, Remembers, PinsAreSaved
<1>11. ASSUME NEW p \in Programs, Crash(p)
       PROVE  TypeOK' /\ Remembers' /\ PinsAreSaved'
  BY <1>11 DEF Crash, TypeOK, Remembers, PinsAreSaved
<1>12. CASE UNCHANGED vars
  BY <1>12 DEF vars, TypeOK, Remembers, PinsAreSaved
<1>13. QED
  BY <1>1, <1>2, <1>3, <1>4, <1>5, <1>6, <1>7, <1>8, <1>9, <1>10, <1>11, <1>12 DEF Next

(* The variables keep their types.                                         *)
THEOREM ClientTypeCorrect == Spec => []TypeOK
<1>1. Spec => [](TypeOK /\ Remembers /\ PinsAreSaved)
  BY TypeInit, TypeStep, PTL DEF Spec
<1>2. QED
  BY <1>1, PTL

(* However many processes there are, a client that requires a pin sends    *)
(* only to a key that a client trusting on first use has accepted and      *)
(* saved: the store is the only place its trust can come from.             *)
THEOREM TrustFromSave == Spec => []TrustComesFromASave
<1>1. Spec => [](TypeOK /\ Remembers /\ PinsAreSaved)
  BY TypeInit, TypeStep, PTL DEF Spec
<1>2. TypeOK /\ Remembers /\ PinsAreSaved => TrustComesFromASave
  BY NoneAssumption DEF TypeOK, Remembers, PinsAreSaved, TrustComesFromASave, Working
<1>3. QED
  BY <1>1, <1>2, PTL
-----------------------------------------------------------------------------
(* As long as processes run one after the other: what is in the files, and *)
(* in memory once they have been read, covers what was presented and whom  *)
(* messages went to.                                                       *)

\* Everyone but p is down.
Only(p) == \A q \in Programs \ {p} : phase[q] = "down"

\* Nobody runs beside another.
Alone == \A p \in Programs : phase[p] # "down" => Only(p)

\* The identity presented, in the file and in the memory of p.
IdentityFiled ==
    /\ \A i, j \in presented : i = j
    /\ idFile = Absent => presented = {}
    /\ \A i \in Identities : idFile = Whole(i) => presented \subseteq {i}

IdentityKept(p) ==
    /\ phase[p] \in {"generate", "write identity"} => presented = {}
    /\ phase[p] \in {"load", "connect"} \cup Working =>
         presented \subseteq {identity[p]} /\ idFile = Whole(identity[p])

\* And the key that messages went to.
PinFiled ==
    /\ \A k, l \in sentTo : k = l
    /\ pinFile = Absent => sentTo = {}
    /\ \A k \in Keys : pinFile = Whole(k) => sentTo \subseteq {k}

PinKept(p) ==
    /\ phase[p] \in {"connect"} \cup Working /\ mode[p] # "none" =>
         sentTo \subseteq {known[p]} \ {None}
    /\ phase[p] = "talk" /\ mode[p] # "none" => pinFile = Whole(known[p])

Kept == /\ IdentityFiled /\ PinFiled
        /\ \A p \in Programs : IdentityKept(p) /\ PinKept(p)

OneAtATime == ~overlapped => Alone /\ Kept

\* What one process can do.
Step(p) ==
    \/ \E m \in Modes : Start(p, m)
    \/ ReadIdentity(p) \/ GenerateIdentity(p) \/ OpenIdentity(p) \/ WriteIdentity(p)
    \/ LoadPins(p)
    \/ \E key \in Keys : Connect(p, key)
    \/ OpenStore(p) \/ WriteStore(p) \/ SendMessage(p) \/ Crash(p)

\* Once processes have overlapped they have; until then, the process that
\* takes a step is the only one before and after it.
LEMMA OnlyOneSteps ==
    ASSUME TypeOK, NEW p \in Programs, Step(p), ~overlapped'
    PROVE  /\ ~overlapped
           /\ Alone => Only(p) /\ Only(p)' /\ Alone'
<1> USE DEF From, history
<1>1. ~overlapped /\ (phase[p] # "down" \/ \A q \in Programs : phase[q] = "down")
  <2>1. CASE \E m \in Modes : Start(p, m)
    BY <2>1 DEF Start, TypeOK
  <2>2. CASE phase[p] # "down" /\ UNCHANGED overlapped
    BY <2>2
  <2>3. QED
    BY <2>1, <2>2
      DEF Step, ReadIdentity, GenerateIdentity, OpenIdentity, WriteIdentity, LoadPins,
          Connect, OpenStore, WriteStore, SendMessage, Crash
<1>2. \E next : phase' = [phase EXCEPT ![p] = next]
  BY DEF Step, Start, ReadIdentity, GenerateIdentity, OpenIdentity, WriteIdentity,
         LoadPins, Connect, OpenStore, WriteStore, SendMessage, Crash
<1>3. Alone => Only(p)
  BY <1>1 DEF Alone, Only
<1>4. Only(p) => Only(p)' /\ Alone'
  BY <1>2 DEF TypeOK, Only, Alone
<1>5. QED
  BY <1>1, <1>3, <1>4

\* A step that leaves the file and the history alone keeps both, unless it
\* makes p go on to present an identity that it has not read from the file.
LEMMA IdentityFrame ==
    ASSUME NEW p \in Programs, IdentityFiled, IdentityKept(p),
           UNCHANGED <<idFile, presented>>,
           \/ phase'[p] \in {"down", "identity"}
           \/ /\ phase[p] \in {"load", "connect"} \cup Working
              /\ phase'[p] \in Phases \ {"generate", "write identity"}
              /\ identity'[p] = identity[p]
    PROVE  IdentityFiled' /\ IdentityKept(p)'
<1>1. IdentityFiled'
  BY DEF IdentityFiled
<1>2. IdentityKept(p)'
  BY DEF IdentityKept, Working
<1>3. QED
  BY <1>1, <1>2

LEMMA IdentityStep ==
    ASSUME TypeOK, Remembers, NEW p \in Programs, IdentityFiled, IdentityKept(p), Step(p)
    PROVE  IdentityFiled' /\ IdentityKept(p)'
<1> USE DEF files, history, From
<1>a. ASSUME NEW next, phase' = [phase EXCEPT ![p] = next] PROVE phase'[p] = next
  BY <1>a DEF TypeOK
<1>1. CASE \E m \in Modes : Start(p, m)
  BY <1>1, <1>a, IdentityFrame DEF Start
<1>2. CASE ReadIdentity(p)
  <2>1. CASE idFile = Torn
    BY <1>2, <2>1, <1>a, IdentityFrame DEF ReadIdentity
  <2>2. CASE idFile # Torn
    <3>1. PICK i \in Identities : idFile = Whole(i)
      BY <1>2, <2>2, FileCases DEF ReadIdentity, TypeOK
    <3>2. identity'[p] = i /\ UNCHANGED <<idFile, presented>>
      BY <1>2, <2>2, <3>1, FileKinds DEF ReadIdentity, TypeOK
    <3>3. phase'[p] = "load"
      BY <1>2, <2>2, <1>a DEF ReadIdentity
    <3>4. presented \subseteq {i}
      BY <3>1 DEF IdentityFiled
    <3>5. IdentityFiled'
      BY <3>2 DEF IdentityFiled
    <3>6. IdentityKept(p)'
      BY <3>1, <3>2, <3>3, <3>4 DEF IdentityKept
    <3>7. QED
      BY <3>5, <3>6
  <2>3. QED
    BY <2>1, <2>2
<1>3. CASE GenerateIdentity(p)
  <2>1. phase'[p] = "generate" /\ idFile = Absent /\ UNCHANGED <<idFile, presented>>
    BY <1>3, <1>a DEF GenerateIdentity
  <2>2. IdentityFiled'
    BY <2>1 DEF IdentityFiled
  <2>3. IdentityKept(p)'
    BY <2>1 DEF IdentityFiled, IdentityKept, Working
  <2>4. QED
    BY <2>2, <2>3
<1>4. CASE OpenIdentity(p)
  <2>1. phase[p] = "generate" /\ phase'[p] = "write identity"
    BY <1>4, <1>a DEF OpenIdentity
  <2>2. presented = {} /\ presented' = {} /\ idFile' = Torn
    BY <1>4, <2>1 DEF OpenIdentity, IdentityKept
  <2>3. IdentityFiled'
    BY <2>2, FileKinds DEF IdentityFiled
  <2>4. IdentityKept(p)'
    BY <2>1, <2>2 DEF IdentityKept, Working
  <2>5. QED
    BY <2>3, <2>4
<1>5. CASE WriteIdentity(p)
  <2>1. phase[p] = "write identity" /\ phase'[p] = "load"
    BY <1>5, <1>a DEF WriteIdentity
  <2>2. /\ presented = {} /\ presented' = {}
        /\ idFile' = Whole(identity[p]) /\ identity' = identity
    BY <1>5, <2>1 DEF WriteIdentity, IdentityKept
  <2>3. IdentityFiled'
    BY <2>2, FileKinds DEF IdentityFiled
  <2>4. IdentityKept(p)'
    BY <2>1, <2>2 DEF IdentityKept
  <2>5. QED
    BY <2>3, <2>4
<1>6. CASE LoadPins(p)
  <2>1. phase[p] = "load" /\ phase'[p] \in {"connect", "down"}
    BY <1>6, <1>a DEF LoadPins
  <2>2. QED
    BY <1>6, <2>1, IdentityFrame DEF LoadPins, Phases
<1>7. CASE \E key \in Keys : Connect(p, key)
  <2>1. /\ phase[p] = "connect" /\ phase'[p] \in {"down", "talk", "save"}
        /\ presented' = presented \cup {identity[p]}
        /\ UNCHANGED <<idFile, identity>>
    BY <1>7, <1>a DEF Connect, AfterConnect
  <2>2. presented \subseteq {identity[p]} /\ idFile = Whole(identity[p])
    BY <2>1 DEF IdentityKept
  <2>3. presented' = {identity[p]} /\ idFile' = Whole(identity[p])
    BY <2>1, <2>2
  <2>4. IdentityFiled'
    BY <2>3, FileKinds DEF IdentityFiled
  <2>5. IdentityKept(p)'
    BY <2>1, <2>3 DEF IdentityKept
  <2>6. QED
    BY <2>4, <2>5
<1>8. CASE OpenStore(p)
  BY <1>8, <1>a, IdentityFrame DEF OpenStore, Working, Phases
<1>9. CASE WriteStore(p)
  BY <1>9, <1>a, IdentityFrame DEF WriteStore, Working, Phases
<1>10. CASE SendMessage(p)
  BY <1>10, <1>a, IdentityFrame DEF SendMessage, Working, Phases
<1>11. CASE Crash(p)
  BY <1>11, <1>a, IdentityFrame DEF Crash
<1>12. QED
  BY <1>1, <1>2, <1>3, <1>4, <1>5, <1>6, <1>7, <1>8, <1>9, <1>10, <1>11 DEF Step

\* A step that leaves the file and the history alone keeps both if p goes
\* back, or on with the key it had.
LEMMA PinFrame ==
    ASSUME NEW p \in Programs, PinFiled, PinKept(p),
           UNCHANGED <<pinFile, sentTo>>,
           \/ phase'[p] \in Phases \ ({"connect"} \cup Working)
           \/ mode'[p] = "none"
           \/ /\ phase[p] \in {"connect"} \cup Working
              /\ phase'[p] = "talk" => phase[p] = "talk"
              /\ mode'[p] = mode[p] /\ known'[p] = known[p]
    PROVE  PinFiled' /\ PinKept(p)'
<1>1. PinFiled'
  BY DEF PinFiled
<1>2. PinKept(p)'
  BY DEF PinKept, Working
<1>3. QED
  BY <1>1, <1>2

LEMMA PinStep ==
    ASSUME TypeOK, Remembers, NEW p \in Programs, PinFiled, PinKept(p), Step(p)
    PROVE  PinFiled' /\ PinKept(p)'
<1> USE DEF files, history, From
<1>a. ASSUME NEW next, phase' = [phase EXCEPT ![p] = next] PROVE phase'[p] = next
  BY <1>a DEF TypeOK
<1>1. CASE \E m \in Modes : Start(p, m)
  BY <1>1, <1>a, PinFrame DEF Start, Working, Phases
<1>2. CASE ReadIdentity(p)
  <2>1. phase'[p] \in {"down", "load"} /\ UNCHANGED <<pinFile, sentTo>>
    BY <1>2, <1>a DEF ReadIdentity
  <2>2. QED
    BY <2>1, PinFrame DEF Working, Phases
<1>3. CASE GenerateIdentity(p)
  BY <1>3, <1>a, PinFrame DEF GenerateIdentity, Working, Phases
<1>4. CASE OpenIdentity(p)
  BY <1>4, <1>a, PinFrame DEF OpenIdentity, Working, Phases
<1>5. CASE WriteIdentity(p)
  BY <1>5, <1>a, PinFrame DEF WriteIdentity, Working, Phases
<1>6. CASE LoadPins(p)
  <2>1. CASE mode[p] = "none"
    BY <1>6, <2>1, PinFrame DEF LoadPins
  <2>2. CASE phase' = [phase EXCEPT ![p] = "down"]
    BY <1>6, <2>2, <1>a, PinFrame DEF LoadPins, Working, Phases
  <2>3. ASSUME NEW k \in Loads(pinFile, None), known' = [known EXCEPT ![p] = k],
               phase' = [phase EXCEPT ![p] = "connect"]
        PROVE  PinFiled' /\ PinKept(p)'
    <3>1. sentTo \subseteq {k} \ {None}
      <4>1. CASE pinFile = Absent
        BY <2>3, <4>1, FileKinds DEF PinFiled, PinKept
      <4>2. CASE pinFile = Torn
        BY <2>3, <4>2, FileKinds
      <4>3. CASE \E v \in Keys : pinFile = Whole(v)
        <5> PICK v \in Keys : pinFile = Whole(v)
          BY <4>3
        <5>1. k = v
          BY <2>3, FileKinds
        <5>2. QED
          BY <5>1, NoneAssumption DEF PinFiled, TypeOK
      <4>4. QED
        BY <4>1, <4>2, <4>3, FileCases DEF TypeOK
    <3>2. UNCHANGED <<pinFile, mode, sentTo>>
      BY <1>6 DEF LoadPins
    <3>3. phase'[p] = "connect" /\ known'[p] = k
      BY <2>3, <1>a DEF TypeOK
    <3>4. PinFiled'
      BY <3>2 DEF PinFiled
    <3>5. PinKept(p)'
      BY <3>1, <3>2, <3>3 DEF PinKept
    <3>6. QED
      BY <3>4, <3>5
  <2>4. QED
    BY <1>6, <2>1, <2>2, <2>3 DEF LoadPins
<1>7. CASE \E key \in Keys : Connect(p, key)
  <2>1. PICK key \in Keys : Connect(p, key)
    BY <1>7
  <2>2. /\ phase[p] = "connect"
        /\ phase'[p] = IF Connects(p, key) THEN AfterConnect(p) ELSE "down"
        /\ known'[p] = KnownAfter(p, key)
        /\ UNCHANGED <<pinFile, mode, sentTo>>
    BY <2>1, <1>a DEF Connect, TypeOK
  <2>3. PinFiled'
    BY <2>2 DEF PinFiled
  <2>4. PinKept(p)'
    BY <2>2, NoneAssumption
      DEF PinKept, Connects, KnownAfter, AfterConnect, Working, Modes, TypeOK
  <2>5. QED
    BY <2>3, <2>4
<1>8. CASE OpenStore(p)
  <2>1. /\ phase[p] = "save" /\ phase'[p] = "write store" /\ pinFile' = Torn
        /\ UNCHANGED <<mode, known, sentTo>>
    BY <1>8, <1>a DEF OpenStore
  <2>2. PinFiled'
    BY <2>1, FileKinds DEF PinFiled
  <2>3. PinKept(p)'
    BY <2>1 DEF PinKept, Working
  <2>4. QED
    BY <2>2, <2>3
<1>9. CASE WriteStore(p)
  <2>1. /\ phase[p] = "write store" /\ pinFile' = Whole(known[p])
        /\ UNCHANGED <<mode, known, sentTo>>
    BY <1>9 DEF WriteStore
  <2>2. sentTo \subseteq {known[p]}
    BY <2>1 DEF Remembers, PinKept, Working
  <2>3. PinFiled'
    BY <2>1, <2>2, FileKinds DEF PinFiled
  <2>4. PinKept(p)'
    BY <2>1 DEF PinKept, Remembers, Working
  <2>5. QED
    BY <2>3, <2>4
<1>10. CASE SendMessage(p)
  <2>1. /\ phase[p] = "talk" /\ phase'[p] = "talk"
        /\ sentTo' = IF mode[p] = "none" THEN sentTo ELSE sentTo \cup {peer[p]}
        /\ UNCHANGED <<pinFile, mode, known>>
    BY <1>10, <1>a DEF SendMessage
  <2>2. CASE mode[p] = "none"
    BY <2>1, <2>2, PinFrame
  <2>3. CASE mode[p] # "none"
    <3>1. known[p] = peer[p] /\ known[p] \in Keys
      BY <2>1, <2>3 DEF Remembers, Working
    <3>2. sentTo \subseteq {known[p]} /\ pinFile = Whole(known[p])
      BY <2>1, <2>3 DEF PinKept, Working
    <3>3. sentTo' = {known[p]} /\ pinFile' = Whole(known[p]) /\ known' = known
      BY <2>1, <2>3, <3>1, <3>2
    <3>4. PinFiled'
      BY <3>3, FileKinds DEF PinFiled
    <3>5. PinKept(p)'
      BY <3>1, <3>3, NoneAssumption DEF PinKept
    <3>6. QED
      BY <3>4, <3>5
  <2>4. QED
    BY <2>2, <2>3
<1>11. CASE Crash(p)
  BY <1>11, <1>a, PinFrame DEF Crash, Working, Phases
<1>12. QED
  BY <1>1, <1>2, <1>3, <1>4, <1>5, <1>6, <1>7, <1>8, <1>9, <1>10, <1>11 DEF Step

LEMMA OneAtATimeHolds == Spec => []OneAtATime
<1>1. Init => OneAtATime
  BY FileKinds
    DEF Init, OneAtATime, Alone, Only, Kept, IdentityFiled, IdentityKept, PinFiled,
        PinKept, Working
<1>2. TypeOK /\ Remembers /\ OneAtATime /\ [Next]_vars => OneAtATime'
  <2> SUFFICES ASSUME TypeOK, Remembers, OneAtATime, [Next]_vars, ~overlapped'
               PROVE  Alone' /\ Kept'
    BY DEF OneAtATime
  <2>1. ASSUME NEW p \in Programs, Step(p) PROVE Alone' /\ Kept'
    <3>1. Alone /\ Kept
      BY <2>1, OnlyOneSteps DEF OneAtATime
    <3>2. Only(p)' /\ Alone'
      BY <2>1, <3>1, OnlyOneSteps
    <3>3. IdentityFiled' /\ IdentityKept(p)' /\ PinFiled' /\ PinKept(p)'
      BY <2>1, <3>1, IdentityStep, PinStep DEF Kept
    <3>4. ASSUME NEW q \in Programs \ {p} PROVE IdentityKept(q)' /\ PinKept(q)'
      BY <3>2 DEF Only, IdentityKept, PinKept, Working
    <3>5. QED
      BY <3>2, <3>3, <3>4 DEF Kept
  <2>2. CASE UNCHANGED vars
    BY <2>2
      DEF vars, files, history, OneAtATime, Alone, Only, Kept, IdentityFiled,
          IdentityKept, PinFiled, PinKept
  <2>3. QED
    BY <2>1, <2>2 DEF Next, Step
<1>3. Spec => [](TypeOK /\ Remembers /\ PinsAreSaved)
  BY TypeInit, TypeStep, PTL DEF Spec
<1>4. QED
  BY <1>1, <1>2, <1>3, PTL DEF Spec

(* Clients run one after another, each crashing wherever it likes: the     *)
(* pinning ones send to one server key, until two have run at once.        *)
THEOREM OneServerEver == Spec => []OneServer
<1>1. OneAtATime => OneServer
  BY DEF OneAtATime, Kept, PinFiled, OneServer
<1>2. QED
  BY <1>1, OneAtATimeHolds, PTL

(* And they present one identity.                                          *)
THEOREM OneIdentityEver == Spec => []OneIdentity
<1>1. OneAtATime => OneIdentity
  BY DEF OneAtATime, Kept, IdentityFiled, OneIdentity
<1>2. QED
  BY <1>1, OneAtATimeHolds, PTL
=============================================================================
