------------------------------ MODULE MCSetup ------------------------------
(***************************************************************************)
(* Setup, and with it Admission, with their symmetry, for TLC.             *)
(***************************************************************************)
EXTENDS Setup, TLC

\* No definition tells one key, subject, label or certificate from another.
Symmetry == Permutations(Keys) \cup Permutations(Subjects)
                \cup Permutations(Labels) \cup Permutations(Fingerprints)
=============================================================================
