----------------------------- MODULE ReplayOps -----------------------------
(***************************************************************************)
(* The value and the methods of one ReplayWindow object (replay.py).       *)
(*                                                                         *)
(* A window is [highest, bitmap].  The code's bitmap is an unbounded       *)
(* Python int used as a set of bits: bit o set means "highest - o has been *)
(* committed".  It is modelled as that set of bit positions, so a shift    *)
(* adds to every element and the mask intersects with the legal positions. *)
(***************************************************************************)
EXTENDS Integers

CONSTANTS
    WindowSize,     \* ReplayWindow(size=...), DEFAULT_WINDOW_SIZE in the code
    MaxSeq          \* framing.MAX_SEQ, 2^64 - 1 in the code

\* ReplayWindow.__init__ raises ValueError for size < 1.
ASSUME WindowSizeAssumption == WindowSize \in Nat \ {0}
ASSUME MaxSeqAssumption == MaxSeq \in Nat

SeqNumbers == 0 .. MaxSeq

\* _mask: the bit positions the window keeps.
Mask == 0 .. WindowSize - 1

Windows == [highest : {-1} \cup SeqNumbers, bitmap : SUBSET Mask]

EmptyWindow == [highest |-> -1, bitmap |-> {}]

\* Seeded fault: a number one too far behind is still let through.
CheckOffByOne(w, seq) ==
    /\ seq \in SeqNumbers
    /\ \/ w.highest < 0
       \/ seq > w.highest
       \/ /\ w.highest - seq <= WindowSize
          /\ w.highest - seq \notin w.bitmap

\* check(seq) returns; where this is FALSE it raises ReplayError.
Check(w, seq) ==
    /\ seq \in SeqNumbers
    /\ \/ w.highest < 0
       \/ seq > w.highest
       \/ /\ w.highest - seq < WindowSize
          /\ w.highest - seq \notin w.bitmap

\* Seeded faults: the shifted bitmap is not masked; the new number's own bit
\* is not set.
SlideUnmasked(bitmap, shift) == {o + shift : o \in bitmap} \cup {0}
SlideWithoutOwnBit(bitmap, shift) == {o + shift : o \in bitmap} \cap Mask

\* (bitmap << shift) | 1, masked; the code's special case shift >= size
\* leaves bit 0 alone, which is what the mask leaves of any such shift.
Slide(bitmap, shift) ==
    IF shift >= WindowSize
      THEN {0}
      ELSE ({o + shift : o \in bitmap} \cup {0}) \cap Mask

\* commit(seq): the window afterwards.
Commit(w, seq) ==
    CASE w.highest < 0 ->
            [highest |-> seq, bitmap |-> {0}]
      [] w.highest >= 0 /\ seq > w.highest ->
            [highest |-> seq, bitmap |-> Slide(w.bitmap, seq - w.highest)]
      [] w.highest >= 0 /\ seq <= w.highest ->
            [w EXCEPT !.bitmap = @ \cup ({w.highest - seq} \cap Mask)]
=============================================================================
