---------------------------- MODULE MCRegistration ----------------------------
(***************************************************************************)
(* Instances of Registration for TLC.                                      *)
(***************************************************************************)
EXTENDS Registration

CONSTANTS h1, ip1

StartsAtOne == [h \in Hosts |-> ip1]
=============================================================================
