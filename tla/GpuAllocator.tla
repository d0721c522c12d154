----------------------------- MODULE GpuAllocator -----------------------------
(***************************************************************************)
(* GpuAllocator.allocate of the scheduler as operators on sets.  A GPU row *)
(* is a pair <<node, index>>; "idle" is the set of rows whose status is    *)
(* 'idle', "suits" the rows that match the model and memory the task asks  *)
(* for, and k its gpu_count.                                               *)
(***************************************************************************)
EXTENDS Integers, FiniteSets

NodeOf(gpu) == gpu[1]
IndexOf(gpu) == gpu[2]

\* A seeded mistake: the status filter is missing.
Filtered_AnyStatus(node, idle, suits) == {g \in suits : NodeOf(g) = node}

\* The rows of one node that are idle and meet the task's requirements.
Filtered(node, idle, suits) == {g \in idle \cap suits : NodeOf(g) = node}

\* The nodes with enough of them.
Candidates(nodes, idle, suits, k) ==
    {n \in nodes : Cardinality(Filtered(n, idle, suits)) >= k}

\* selected_gpus[:k] of a list in gpu_index order.
FirstByIndex(gpus, k) ==
    {g \in gpus : Cardinality({h \in gpus : IndexOf(h) < IndexOf(g)}) < k}

\* The first component of the sort key: the candidates with most free rows.
Widest(nodes, idle, suits, k) ==
    {n \in Candidates(nodes, idle, suits, k) :
        \A m \in Candidates(nodes, idle, suits, k) :
            Cardinality(Filtered(m, idle, suits)) <= Cardinality(Filtered(n, idle, suits))}

\* _select_node_for_cpu_task: the nodes with most idle rows, suitable or not.
WidestForCpu(nodes, idle) ==
    {n \in nodes : \A m \in nodes :
        Cardinality({g \in idle : NodeOf(g) = m})
            <= Cardinality({g \in idle : NodeOf(g) = n})}

\* Every node the allocator may select and the rows it takes there, whatever
\* the utilizations: they decide only among nodes that tie on the first key.
Allocations(nodes, idle, suits, k) ==
    IF k <= 0
    THEN {[node |-> n, gpus |-> {}] : n \in WidestForCpu(nodes, idle)}
    ELSE {[node |-> n, gpus |-> FirstByIndex(Filtered(n, idle, suits), k)] :
              n \in Widest(nodes, idle, suits, k)}
=============================================================================
