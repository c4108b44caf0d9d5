------------------------- MODULE ReplayWindowProofs -------------------------
(***************************************************************************)
(* For every window size and every MAX_SEQ: the window's type, that it     *)
(* summarises the history of commits exactly, and that it answers every    *)
(* check as the window-free ReplayGuard does.                              *)
(***************************************************************************)
EXTENDS ReplayWindow, TLAPS

IInv == TypeOK /\ WindowSummarisesHistory

\* What it is for a window to summarise a set of committed numbers.
Summarises(w, s) ==
    /\ w.highest = -1 <=> s = {}
    /\ w.highest # -1 => w.highest \in s
    /\ \A t \in s : t <= w.highest
    /\ w.bitmap = {o \in Mask : w.highest - o \in s}

\* Committing a number to a window that summarises s gives a window that
\* summarises s with that number: the heart of commit's three cases.
LEMMA CommitSummarises ==
    ASSUME NEW w \in Windows, NEW s \in SUBSET SeqNumbers,
           NEW seq \in SeqNumbers, Summarises(w, s)
    PROVE  Summarises(Commit(w, seq), s \cup {seq})
<1> USE WindowSizeAssumption, MaxSeqAssumption DEF SeqNumbers, Mask, Windows
<1> DEFINE c == Commit(w, seq)
           s2 == s \cup {seq}
<1>0. s2 # {} OBVIOUS
<1>1. CASE w.highest < 0
  <2>1. c = [highest |-> seq, bitmap |-> {0}]
    BY <1>1 DEF Commit
  <2>2. s = {}
    BY <1>1 DEF Summarises
  <2>3. {0} = {o \in Mask : seq - o \in {seq}}
    OBVIOUS
  <2>4. QED BY <2>1, <2>2, <2>3 DEF Summarises
<1>2. CASE w.highest >= 0 /\ seq > w.highest
  <2> DEFINE shift == seq - w.highest
  <2>1. c = [highest |-> seq, bitmap |-> Slide(w.bitmap, shift)]
    BY <1>2 DEF Commit
  <2>2. \A t \in s : t <= w.highest
    BY DEF Summarises
  <2>3. w.bitmap = {o \in Mask : w.highest - o \in s}
    BY DEF Summarises
  <2>4. shift \in Nat \ {0}
    BY <1>2
  <2>5. Slide(w.bitmap, shift) = {o \in Mask : seq - o \in s2}
    <3>1. CASE shift >= WindowSize
      <4>1. \A o \in Mask : seq - o \in s => FALSE
        BY <2>2, <3>1, <1>2
      <4>2. QED BY <3>1, <4>1 DEF Slide
    <3>2. CASE shift < WindowSize
      <4>1. Slide(w.bitmap, shift) = ({o + shift : o \in w.bitmap} \cup {0}) \cap Mask
        BY <3>2, <2>4 DEF Slide
      <4>2. ASSUME NEW o \in Mask
            PROVE  o \in {x + shift : x \in w.bitmap} <=> seq - o \in s
        <5>1. ASSUME o \in {x + shift : x \in w.bitmap} PROVE seq - o \in s
          <6>1. PICK x \in w.bitmap : o = x + shift
            BY <5>1
          <6>2. x \in Mask /\ w.highest - x \in s
            BY <2>3
          <6>3. seq - o = w.highest - x
            BY <6>1, <6>2, <1>2
          <6>4. QED BY <6>2, <6>3
        <5>2. ASSUME seq - o \in s PROVE o \in {x + shift : x \in w.bitmap}
          <6>1. seq - o <= w.highest
            BY <5>2, <2>2
          <6>2. o - shift \in Mask
            BY <6>1, <2>4, <1>2
          <6>3. w.highest - (o - shift) = seq - o
            BY <1>2
          <6>4. o - shift \in w.bitmap
            BY <6>2, <6>3, <5>2, <2>3
          <6>5. o = (o - shift) + shift
            BY <1>2
          <6>6. QED BY <6>4, <6>5
        <5>3. QED BY <5>1, <5>2
      <4>3. \A o \in Mask : o = 0 <=> seq - o = seq
        OBVIOUS
      <4>4. QED BY <4>1, <4>2, <4>3
    <3>3. QED BY <3>1, <3>2, <2>4
  <2>6. c.highest = seq /\ c.bitmap = Slide(w.bitmap, shift)
    BY <2>1
  <2>7. \A t \in s2 : t <= seq
    BY <1>2, <2>2
  <2>8. seq \in s2 /\ seq # -1
    OBVIOUS
  <2>9. QED BY <1>0, <2>5, <2>6, <2>7, <2>8 DEF Summarises
<1>3. CASE w.highest >= 0 /\ seq <= w.highest
  <2>1. c = [w EXCEPT !.bitmap = @ \cup ({w.highest - seq} \cap Mask)]
    BY <1>3 DEF Commit
  <2>2. c.highest = w.highest /\ c.bitmap = w.bitmap \cup ({w.highest - seq} \cap Mask)
    BY <2>1
  <2>3. \A o \in Mask : o = w.highest - seq <=> w.highest - o = seq
    BY <1>3
  <2>4. c.bitmap = {o \in Mask : w.highest - o \in s2}
    BY <2>2, <2>3 DEF Summarises
  <2>5. QED BY <1>0, <1>3, <2>2, <2>4 DEF Summarises
<1>4. QED BY <1>1, <1>2, <1>3

\* A window that summarises s passes exactly the numbers that are fresh
\* for s (replay.py check).
LEMMA CheckIsFresh ==
    ASSUME NEW w \in Windows, NEW s \in SUBSET SeqNumbers,
           NEW seq \in Inputs, Summarises(w, s)
    PROVE  Check(w, seq) <=> /\ seq \in 0 .. MaxSeq
                             /\ seq \notin s
                             /\ \A t \in s : t - seq < WindowSize
<1> USE WindowSizeAssumption, MaxSeqAssumption
        DEF SeqNumbers, Mask, Windows, Inputs, Summarises, Check
<1>1. CASE w.highest < 0
  BY <1>1
<1>2. CASE w.highest >= 0 /\ seq > w.highest
  BY <1>2
<1>3. CASE w.highest >= 0 /\ seq <= w.highest /\ seq \in SeqNumbers
  <2>1. w.highest \in s
    BY <1>3
  <2>2. (w.highest - seq < WindowSize) <=> \A t \in s : t - seq < WindowSize
    BY <1>3, <2>1
  <2>3. ASSUME w.highest - seq < WindowSize
        PROVE  w.highest - seq \in w.bitmap <=> seq \in s
    <3>1. w.highest - seq \in Mask
      BY <1>3, <2>3
    <3>2. w.highest - (w.highest - seq) = seq
      BY <1>3
    <3>3. QED BY <3>1, <3>2
  <2>4. QED BY <1>3, <2>2, <2>3
<1>4. CASE seq \notin SeqNumbers
  BY <1>4
<1>5. QED BY <1>1, <1>2, <1>3, <1>4

LEMMA SummaryIsInvariantForm == WindowSummarisesHistory <=> Summarises(window, seen)
BY DEF WindowSummarisesHistory, Summarises

LEMMA InitIInv == Init => IInv
<1> SUFFICES ASSUME Init PROVE IInv
  OBVIOUS
<1>1. window.highest = -1 /\ window.bitmap = {} /\ seen = {}
  BY DEF Init, EmptyWindow
<1>2. TypeOK
  BY WindowSizeAssumption, MaxSeqAssumption
     DEF Init, TypeOK, EmptyWindow, Windows, SeqNumbers, Mask, Inputs
<1>3. QED BY <1>1, <1>2 DEF IInv, WindowSummarisesHistory

LEMMA NextIInv == IInv /\ [Next]_vars => IInv'
<1> SUFFICES ASSUME IInv, [Next]_vars PROVE IInv'
  OBVIOUS
<1>1. TypeOK /\ Summarises(window, seen)
  BY SummaryIsInvariantForm DEF IInv
<1>2. ASSUME NEW seq \in Inputs, CheckOnly(seq) PROVE IInv'
  <2>1. verdict' \in [seq : Inputs, ok : BOOLEAN]
    BY <1>2 DEF CheckOnly, Check
  <2>2. window' = window /\ seen' = seen
    BY <1>2 DEF CheckOnly
  <2>3. QED
    BY <1>1, <2>1, <2>2 DEF IInv, TypeOK, WindowSummarisesHistory, Summarises
<1>3. ASSUME NEW seq \in SeqNumbers, window' = Commit(window, seq),
             seen' = seen \cup {seq}, verdict' \in [seq : Inputs, ok : BOOLEAN]
      PROVE  IInv'
  <2>1. Summarises(window', seen')
    BY <1>1, <1>3, CommitSummarises DEF TypeOK
  <2>2. window' = [highest |-> window'.highest, bitmap |-> window'.bitmap]
    <3>1. window \in Windows /\ window.highest \in Int /\ seq \in Int
      BY <1>1, MaxSeqAssumption DEF TypeOK, Windows, SeqNumbers
    <3>2. CASE window.highest < 0
      <4>1. window' = [highest |-> seq, bitmap |-> {0}]
        BY <1>3, <3>1, <3>2 DEF Commit
      <4>2. QED BY <4>1
    <3>3. CASE window.highest >= 0 /\ seq > window.highest
      <4>1. window' = [highest |-> seq,
                       bitmap |-> Slide(window.bitmap, seq - window.highest)]
        BY <1>3, <3>1, <3>3 DEF Commit
      <4>2. QED BY <4>1
    <3>4. CASE window.highest >= 0 /\ seq <= window.highest
      BY <1>3, <3>1, <3>4 DEF Commit, Windows
    <3>5. QED BY <3>1, <3>2, <3>3, <3>4
  <2>3. window' \in Windows
    BY <1>1, <1>3, <2>1, <2>2 DEF TypeOK, Summarises, Windows
  <2>4. TypeOK'
    BY <1>1, <1>3, <2>3 DEF TypeOK
  <2>5. QED BY <2>1, <2>4 DEF IInv, WindowSummarisesHistory, Summarises
<1>4. ASSUME NEW seq \in Inputs, CheckAndUpdate(seq) PROVE IInv'
  <2>1. verdict' \in [seq : Inputs, ok : BOOLEAN]
    BY <1>4 DEF CheckAndUpdate, Check
  <2>2. CASE Check(window, seq)
    BY <1>3, <1>4, <2>1, <2>2 DEF CheckAndUpdate, Check
  <2>3. CASE ~Check(window, seq)
    BY <1>1, <1>4, <2>1, <2>3
       DEF CheckAndUpdate, IInv, TypeOK, WindowSummarisesHistory, Summarises
  <2>4. QED BY <2>2, <2>3
<1>5. ASSUME NEW seq \in Inputs, CommitOnly(seq) PROVE IInv'
  BY <1>1, <1>3, <1>5 DEF CommitOnly, TypeOK
<1>6. CASE UNCHANGED vars
  BY <1>1, <1>6 DEF vars, IInv, TypeOK, WindowSummarisesHistory, Summarises
<1>7. QED BY <1>2, <1>4, <1>5, <1>6 DEF Next

\* The window object keeps its type: its bitmap never has a bit at or above
\* WindowSize, for every window size and every history of calls.
THEOREM TypeCorrect == Spec => []TypeOK
<1>1. IInv => TypeOK
  BY DEF IInv
<1>2. QED BY InitIInv, NextIInv, <1>1, PTL DEF Spec

\* The window is an exact summary of every number ever committed to it.
THEOREM WindowCorrect == Spec => []WindowSummarisesHistory
<1>1. IInv => WindowSummarisesHistory
  BY DEF IInv
<1>2. QED BY InitIInv, NextIInv, <1>1, PTL DEF Spec

\* Every behaviour of the window is one of the guard that forgets nothing:
\* check never passes a number committed before, never passes one that is
\* WindowSize behind, and never refuses any other number in range.
THEOREM WindowImplementsGuard == Spec => RefinesGuard
<1>1. Init => Guard!Init
  BY DEF Init, Guard!Init
<1>2. IInv /\ [Next]_vars => [Guard!Next]_Guard!vars
  <2> SUFFICES ASSUME IInv, [Next]_vars PROVE [Guard!Next]_Guard!vars
    OBVIOUS
  <2>1. window \in Windows /\ seen \in SUBSET SeqNumbers /\ Summarises(window, seen)
    BY SummaryIsInvariantForm DEF IInv, TypeOK
  <2>2. \A seq \in Inputs : Check(window, seq) <=> Guard!Fresh(seq)
    BY <2>1, CheckIsFresh DEF Guard!Fresh
  <2>3. ASSUME NEW seq \in Inputs, CheckOnly(seq) PROVE Guard!Next
    <3>1. verdict' = [seq |-> seq, ok |-> Guard!Fresh(seq)]
      BY <2>2, <2>3 DEF CheckOnly, Check, Guard!Fresh
    <3>2. Guard!Test(seq)
      BY <2>3, <3>1 DEF CheckOnly, Guard!Test
    <3>3. QED BY <3>2 DEF Guard!Next
  <2>4. ASSUME NEW seq \in Inputs, CheckAndUpdate(seq) PROVE Guard!Next
    <3>1. verdict' = [seq |-> seq, ok |-> Guard!Fresh(seq)]
      BY <2>2, <2>4 DEF CheckAndUpdate, Check, Guard!Fresh
    <3>2. Guard!TestAndRecord(seq)
      BY <2>2, <2>4, <3>1 DEF CheckAndUpdate, Guard!TestAndRecord
    <3>3. QED BY <3>2 DEF Guard!Next
  <2>5. ASSUME NEW seq \in Inputs, CommitOnly(seq) PROVE Guard!Next
    BY <2>5 DEF CommitOnly, SeqNumbers, Guard!Record, Guard!Next
  <2>6. CASE UNCHANGED vars
    BY <2>6 DEF vars, Guard!vars
  <2>7. QED BY <2>3, <2>4, <2>5, <2>6 DEF Next
<1>3. QED BY InitIInv, NextIInv, <1>1, <1>2, PTL DEF Spec, RefinesGuard, Guard!Spec
=============================================================================
