----------------------------- MODULE MCAiGateway -----------------------------
(* Instances of AiGateway for TLC. *)
EXTENDS AiGateway, TLC

\* m1 has two replicas, one on each node; m2 has one, next to one of those.
TwoAndOne == {<<"n1", 0>>, <<"n1", 1>>, <<"n2", 0>>}
TwoReplicasAndOne == [m \in Models |->
    {[replicas |-> IF m = "m1" THEN 2 ELSE 1, need |-> 1, suits |-> Gpus,
      port |-> IF m = "m1" THEN 1 ELSE 2]}]

CallsAlike == Permutations(Calls)
=============================================================================
