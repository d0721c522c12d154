------------------------------ MODULE MCCluster ------------------------------
(***************************************************************************)
(* Instances of Cluster for TLC.                                           *)
(***************************************************************************)
EXTENDS Cluster

CONSTANTS t1, t2, n1

OneGpu == {<<n1, 0>>}
AllNormal == [t \in Tasks |-> 0]
OneGpuEach == [t \in Tasks |-> 1]
AnyGpu == [t \in Tasks |-> Gpus]
=============================================================================
