--------------------------- MODULE MCTaskScheduler ---------------------------
(***************************************************************************)
(* Instances of TaskScheduler for TLC.                                     *)
(***************************************************************************)
EXTENDS TaskScheduler, TLC

CONSTANTS t1, t2, t3, n1

\* One node, with two GPUs or with one.
TwoOnOne == {<<n1, 0>>, <<n1, 1>>}
OneGpu == {<<n1, 0>>}

AllNormal == [t \in Tasks |-> 0]
LowAndNormal == [t \in Tasks |-> IF t = t1 THEN -1 ELSE 0]

OneEachTask == [t \in Tasks |-> 1]
OneAndTwo == [t \in Tasks |-> IF t = t1 THEN 1 ELSE 2]

AnyGpu == [t \in Tasks |-> Gpus]

\* The API requests are alike: no definition names one of them.
RequestsAlike == Permutations(Workers)
=============================================================================
