------------------------------ MODULE RekeyOps ------------------------------
(***************************************************************************)
(* The value and the methods of one RekeyPolicy object (rekey.py).         *)
(*                                                                         *)
(* A policy is [count, age]: _count, and the time since _last_rekey as the *)
(* policy's clock reads it.  due() only asks whether the age has reached   *)
(* max_seconds, so the age stops there and needs no other bound.           *)
(***************************************************************************)
EXTENDS Integers

CONSTANTS
    MaxMessages,    \* RekeyPolicy(max_messages=...)
    MaxSeconds      \* RekeyPolicy(max_seconds=...), in clock ticks

\* RekeyPolicy.__init__ raises ValueError for anything smaller.
ASSUME MaxMessagesAssumption == MaxMessages \in Nat \ {0}
ASSUME MaxSecondsAssumption == MaxSeconds \in Nat \ {0}

Policies == [count : 0 .. MaxMessages, age : 0 .. MaxSeconds]

\* The state __init__ and reset() leave.
Reset == [count |-> 0, age |-> 0]

\* Seeded fault: one message late.
DueLate(r) == r.count > MaxMessages \/ r.age >= MaxSeconds

\* due()
Due(r) == r.count >= MaxMessages \/ r.age >= MaxSeconds

NoteMessage(r) == [r EXCEPT !.count = @ + 1]

\* One tick of the monotonic clock, seen by the policy.
Elapse(r) == [r EXCEPT !.age = IF @ < MaxSeconds THEN @ + 1 ELSE @]
=============================================================================
