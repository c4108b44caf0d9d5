--------------------------- MODULE MCCertificates ---------------------------
(***************************************************************************)
(* Certificates with subjects that TLC can enumerate.                      *)
(***************************************************************************)
EXTENDS Certificates
CONSTANTS a, k1

MCSubjects == {<<a>>, <<a, k1>>}
=============================================================================
