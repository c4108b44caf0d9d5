---------------------------- MODULE MCReconnect ----------------------------
(***************************************************************************)
(* Reconnect with its symmetry, for TLC: no definition tells one plaintext *)
(* from another.                                                           *)
(***************************************************************************)
EXTENDS Reconnect, TLC

Symmetry == Permutations(Msgs)
=============================================================================
