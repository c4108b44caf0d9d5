--------------------------- MODULE ClientProgram ---------------------------
(***************************************************************************)
(* The client programs (examples/client.py, mitm/victim_client.py,         *)
(* mitm/curious_client.py) from start to end, over and over, with crashes: *)
(* each loads or creates its identity, loads its KnownPeers, connects to   *)
(* "server", saves KnownPeers and talks.  Programs that run at the same    *)
(* time share the two files.  Nothing has to be kept in memory for the     *)
(* next run: trust on first use rests on what the files hold.              *)
(***************************************************************************)
EXTENDS StoreFile

CONSTANTS
    Programs,   \* processes
    Keys,       \* static keys of whoever answers as "server"
    Identities, \* private keys that generate() can return
    None        \* no key

ASSUME NoneAssumption == None \notin Keys \cup Identities

\* --pin and client.py; --require-pin; neither and curious_client.py.
Modes == {"tofu", "require", "none"}

VARIABLES
    idFile,     \* the identity file
    pinFile,    \* the KnownPeers file; of its pins only the one of "server"
    phase,      \* per process: what it does next, "down" when it is not running
    mode,       \* per process
    identity,   \* per process: its StaticIdentity
    known,      \* per process: what its KnownPeers has for "server"
    peer,       \* per process: the static key at the other end of its connection
    presented,  \* history: identities presented in a handshake
    saved,      \* history: keys saved by runs that trust on first use
    sentTo,     \* history: keys that messages were sent to, in the modes that pin
    overlapped  \* history: whether two processes have ever run at the same time

files == <<idFile, pinFile>>
history == <<presented, saved, sentTo, overlapped>>
vars == <<files, phase, mode, identity, known, peer, history>>

Phases == {"down", "identity", "generate", "write identity", "load", "connect",
           "save", "write store", "talk"}

Init ==
    /\ idFile = Absent /\ pinFile = Absent
    /\ phase = [p \in Programs |-> "down"]
    /\ mode = [p \in Programs |-> "none"]
    /\ identity = [p \in Programs |-> None]
    /\ known = [p \in Programs |-> None]
    /\ peer = [p \in Programs |-> None]
    /\ presented = {} /\ saved = {} /\ sentTo = {} /\ overlapped = FALSE

From(p, now, next) == phase[p] = now /\ phase' = [phase EXCEPT ![p] = next]
-----------------------------------------------------------------------------
\* The command line; each run starts with nothing in memory.
Start(p, m) ==
    /\ From(p, "down", "identity")
    /\ mode' = [mode EXCEPT ![p] = m]
    /\ identity' = [identity EXCEPT ![p] = None]
    /\ known' = [known EXCEPT ![p] = None]
    /\ peer' = [peer EXCEPT ![p] = None]
    /\ overlapped' = (overlapped \/ \E q \in Programs : phase[q] # "down")
    /\ UNCHANGED <<files, presented, saved, sentTo>>

\* load_or_create_identity: read the file if it exists, or raise.
ReadIdentity(p) ==
    /\ idFile # Absent
    /\ IF idFile = Torn
         THEN From(p, "identity", "down") /\ UNCHANGED identity
         ELSE /\ From(p, "identity", "load")
              /\ identity' = [identity EXCEPT ![p] = idFile.value]
    /\ UNCHANGED <<files, mode, known, peer, history>>

\* Seeded fault: the new identity is not saved.
GenerateIdentityOnly(p) ==
    /\ From(p, "identity", "load")
    /\ idFile = Absent
    /\ \E k \in Identities : identity' = [identity EXCEPT ![p] = k]
    /\ UNCHANGED <<files, mode, known, peer, history>>

\* It does not: generate() ...
GenerateIdentity(p) ==
    /\ From(p, "identity", "generate")
    /\ idFile = Absent
    /\ \E k \in Identities : identity' = [identity EXCEPT ![p] = k]
    /\ UNCHANGED <<files, mode, known, peer, history>>

\* ... open the file ...
OpenIdentity(p) ==
    /\ From(p, "generate", "write identity")
    /\ idFile' = Torn
    /\ UNCHANGED <<pinFile, mode, identity, known, peer, history>>

\* ... and write it (keys are equally long).
WriteIdentity(p) ==
    /\ From(p, "write identity", "load")
    /\ idFile' = Whole(identity[p])
    /\ UNCHANGED <<pinFile, mode, identity, known, peer, history>>

\* KnownPeers.load, in the modes that use the store; a ValueError ends main().
LoadPins(p) ==
    /\ \/ /\ mode[p] = "none"
          /\ From(p, "load", "connect")
          /\ UNCHANGED known
       \/ /\ mode[p] # "none"
          /\ \E k \in Loads(pinFile, None) : known' = [known EXCEPT ![p] = k]
          /\ From(p, "load", "connect")
       \/ /\ mode[p] # "none"
          /\ Loads(pinFile, None) = {}
          /\ From(p, "load", "down")
          /\ UNCHANGED known
    /\ UNCHANGED <<files, mode, identity, peer, history>>
-----------------------------------------------------------------------------
\* Seeded fault: a missing pin is made good in every mode.
ConnectsOnFirstUse(p, key) ==
    mode[p] # "none" => known[p] \in {None, key}

\* connect() returns, with what it has been given to check the key against.
Connects(p, key) ==
    \/ mode[p] = "none"
    \/ known[p] = key
    \/ known[p] = None /\ mode[p] = "tofu"

\* The pin of "server" after _authenticate_peer.
KnownAfter(p, key) ==
    IF mode[p] # "none" /\ Connects(p, key) THEN key ELSE known[p]

\* The programs save before they send anything.
AfterConnect(p) == IF mode[p] = "none" THEN "talk" ELSE "save"

\* The handshake, then _authenticate_peer: pin, verify or refuse. An
\* IdentityError ends main().
Connect(p, key) ==
    /\ From(p, "connect", IF Connects(p, key) THEN AfterConnect(p) ELSE "down")
    /\ presented' = presented \cup {identity[p]}
    /\ known' = [known EXCEPT ![p] = KnownAfter(p, key)]
    /\ peer' = [peer EXCEPT ![p] = IF Connects(p, key) THEN key ELSE @]
    /\ UNCHANGED <<files, mode, identity, saved, sentTo, overlapped>>

\* KnownPeers.save: open ...
OpenStore(p) ==
    /\ From(p, "save", "write store")
    /\ pinFile' = Torn
    /\ UNCHANGED <<idFile, mode, identity, known, peer, history>>

\* ... and write (one label and one key: every text is equally long).
WriteStore(p) ==
    /\ From(p, "write store", "talk")
    /\ pinFile' = Whole(known[p])
    /\ saved' = IF mode[p] = "tofu" THEN saved \cup {known[p]} ELSE saved
    /\ UNCHANGED <<idFile, mode, identity, known, peer, presented, sentTo, overlapped>>

\* conn.send of a message.
SendMessage(p) ==
    /\ From(p, "talk", "talk")
    /\ sentTo' = IF mode[p] = "none" THEN sentTo ELSE sentTo \cup {peer[p]}
    /\ UNCHANGED <<files, mode, identity, known, peer, presented, saved, overlapped>>

\* The process ends: main() returns, raises for another reason, or is killed.
Crash(p) ==
    /\ phase[p] # "down"
    /\ phase' = [phase EXCEPT ![p] = "down"]
    /\ UNCHANGED <<files, mode, identity, known, peer, history>>

Next == \E p \in Programs :
    \/ \E m \in Modes : Start(p, m)
    \/ ReadIdentity(p) \/ GenerateIdentity(p) \/ OpenIdentity(p) \/ WriteIdentity(p)
    \/ LoadPins(p)
    \/ \E key \in Keys : Connect(p, key)
    \/ OpenStore(p) \/ WriteStore(p) \/ SendMessage(p) \/ Crash(p)

Spec == Init /\ [][Next]_vars
-----------------------------------------------------------------------------
(* Properties.                                                             *)

(* Types of all the variables.                                             *)
TypeOK ==
    /\ idFile \in Contents(Identities)
    /\ pinFile \in Contents(Keys)
    /\ phase \in [Programs -> Phases]
    /\ mode \in [Programs -> Modes]
    /\ identity \in [Programs -> Identities \cup {None}]
    /\ known \in [Programs -> Keys \cup {None}]
    /\ peer \in [Programs -> Keys \cup {None}]
    /\ presented \in SUBSET Identities
    /\ saved \in SUBSET Keys
    /\ sentTo \in SUBSET Keys
    /\ overlapped \in BOOLEAN

(* Run one after the other, and crashed anywhere, the pinning clients only *)
(* ever talk to one server: the key is on disk before the first message    *)
(* leaves, and a store torn by a crash is an error, not an empty store     *)
(* that trusts the next server.                                            *)
OneServer == ~overlapped => \A k, l \in sentTo : k = l

(* They present one identity in all their handshakes: it is on disk before *)
(* it is used, and a torn file is not replaced.                            *)
OneIdentity == ~overlapped => \A i, j \in presented : i = j

(* Even when processes run at the same time and save over each other, one  *)
(* that requires a pin talks only to a server that an earlier run has      *)
(* talked to on first use and saved.                                       *)
TrustComesFromASave == \A p \in Programs :
    phase[p] = "talk" /\ mode[p] = "require" => peer[p] \in saved
=============================================================================
