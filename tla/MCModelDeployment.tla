-------------------------- MODULE MCModelDeployment --------------------------
(* Instances of ModelDeployment for TLC. *)
EXTENDS ModelDeployment

TwoOnOne == {<<"n1", 0>>, <<"n1", 1>>}
OneEachNode == {<<"n1", 0>>, <<"n2", 0>>}

\* Replicas that take one GPU each, of any kind; 8001, the port of the first instance on a
\* node, is the one its server is reached at.
Replicas(n) == [replicas |-> n, need |-> 1, suits |-> Gpus, port |-> 1]
One == [m \in Models |-> {Replicas(1)}]
TwoOrNone == [m \in Models |-> {Replicas(2), Replicas(0)}]
=============================================================================
