------------------------------- MODULE MCEcho -------------------------------
(***************************************************************************)
(* EchoSession with a script that TLC can be given.                        *)
(***************************************************************************)
EXTENDS EchoSession
CONSTANTS m1, m2

MCScript == <<m1, m2, m1>>

ASSUME EchoAssumption == OneTaskPerProgram /\ EnoughNumbers
=============================================================================
