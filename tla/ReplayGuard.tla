---------------------------- MODULE ReplayGuard ----------------------------
(***************************************************************************)
(* What a replay window promises, with no window in it: it remembers every *)
(* sequence number ever committed, and a number passes exactly when it was *)
(* never committed and is not WindowSize or more behind one that was.      *)
(***************************************************************************)
EXTENDS Integers

CONSTANTS WindowSize, MaxSeq, Inputs

VARIABLES
    seen,       \* every sequence number committed so far
    verdict     \* the last check: its argument and whether it passed

vars == <<seen, verdict>>

Fresh(seq) ==
    /\ seq \in 0 .. MaxSeq
    /\ seq \notin seen
    /\ \A t \in seen : t - seq < WindowSize

Init ==
    /\ seen = {}
    /\ verdict = [seq |-> -1, ok |-> FALSE]

Test(seq) ==
    /\ verdict' = [seq |-> seq, ok |-> Fresh(seq)]
    /\ UNCHANGED seen

TestAndRecord(seq) ==
    /\ verdict' = [seq |-> seq, ok |-> Fresh(seq)]
    /\ seen' = IF Fresh(seq) THEN seen \cup {seq} ELSE seen

Record(seq) ==
    /\ seq \in 0 .. MaxSeq
    /\ seen' = seen \cup {seq}
    /\ UNCHANGED verdict

Next == \E seq \in Inputs : Test(seq) \/ TestAndRecord(seq) \/ Record(seq)

Spec == Init /\ [][Next]_vars
=============================================================================
