---------------------------- MODULE ReplayWindow ----------------------------
(***************************************************************************)
(* One ReplayWindow object under arbitrary calls of check, commit and      *)
(* check_and_update (replay.py).  SecureChannel.decrypt calls check, then  *)
(* decrypts, then commits; the tests call all three in any order.          *)
(***************************************************************************)
EXTENDS ReplayOps

\* The arguments callers pass; the tests pass values outside 0 .. MAX_SEQ too.
Inputs == -1 .. MaxSeq + 1

VARIABLES
    window,     \* the object's _highest and _bitmap
    verdict,    \* the last check: its argument and whether it returned
    seen        \* history: every sequence number committed so far

vars == <<window, verdict, seen>>

Init ==
    /\ window = EmptyWindow
    /\ verdict = [seq |-> -1, ok |-> FALSE]
    /\ seen = {}

\* check(seq)
CheckOnly(seq) ==
    /\ verdict' = [seq |-> seq, ok |-> Check(window, seq)]
    /\ UNCHANGED <<window, seen>>

\* check_and_update(seq)
CheckAndUpdate(seq) ==
    /\ verdict' = [seq |-> seq, ok |-> Check(window, seq)]
    /\ IF Check(window, seq)
         THEN /\ window' = Commit(window, seq)
              /\ seen' = seen \cup {seq}
         ELSE UNCHANGED <<window, seen>>

\* commit(seq) on its own; every caller has a number that was in range.
CommitOnly(seq) ==
    /\ seq \in SeqNumbers
    /\ window' = Commit(window, seq)
    /\ seen' = seen \cup {seq}
    /\ UNCHANGED verdict

Next == \E seq \in Inputs :
    CheckOnly(seq) \/ CheckAndUpdate(seq) \/ CommitOnly(seq)

Spec == Init /\ [][Next]_vars
-----------------------------------------------------------------------------
(* The bitmap never outgrows the window: the mask in commit keeps the      *)
(* Python int at WindowSize bits however far the numbers advance.          *)
TypeOK ==
    /\ window \in Windows
    /\ verdict \in [seq : Inputs, ok : BOOLEAN]
    /\ seen \in SUBSET SeqNumbers

(* The window is an exact summary of the history of commits: highest is    *)
(* the largest number committed, and bit o is set iff highest - o was      *)
(* committed, through every slide, gap, jump and out-of-order commit.      *)
WindowSummarisesHistory ==
    /\ window.highest = -1 <=> seen = {}
    /\ window.highest # -1 => window.highest \in seen
    /\ \A s \in seen : s <= window.highest
    /\ window.bitmap = {o \in Mask : window.highest - o \in seen}

(* check and check_and_update answer as an object that remembers every     *)
(* number it ever committed would: the bounded bitmap forgets nothing it   *)
(* needs (replay.py check/commit against ReplayGuard).                     *)
Guard == INSTANCE ReplayGuard
RefinesGuard == Guard!Spec
=============================================================================
