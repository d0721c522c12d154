--------------------------- MODULE MCAllocatorLoop ---------------------------
(***************************************************************************)
(* Instances of AllocatorLoop for TLC.                                     *)
(***************************************************************************)
EXTENDS AllocatorLoop

\* A node with four GPUs, of which one does not suit the task, and one with two.
SixGpus == {<<1, 0>>, <<1, 1>>, <<1, 2>>, <<1, 3>>, <<2, 0>>, <<2, 1>>}
AllButOne == SixGpus \ {<<1, 0>>}
=============================================================================
