------------------------------ MODULE MCBilling ------------------------------
(***************************************************************************)
(* Instances of Billing for TLC.                                           *)
(***************************************************************************)
EXTENDS Billing

CONSTANTS t1, t2, u1

OneOwner == [t \in Tasks |-> u1]
OneOrTwoGpus == [t \in Tasks |-> IF t = t1 THEN 2 ELSE 1]

\* On one GPU 17 seconds cost less than half a cent and 19 seconds more.
ShortTimes == {17, 19}
=============================================================================
