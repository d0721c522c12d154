---------------------------- MODULE AllocatorLoop ----------------------------
(***************************************************************************)
(* GpuAllocator.allocate node by node.  TaskScheduler takes the rows and   *)
(* the node in one step, Allocations(online, idle, ...); the code reads    *)
(* one node after the other, each with its own SELECT ... FOR UPDATE,      *)
(* while heartbeats and releases rewrite the rows it has not locked, and   *)
(* sorts at the end what it remembers.  This module checks that what the   *)
(* loop returns is what Allocations allows for the rows the loop holds.    *)
(*                                                                         *)
(* Node ids are integers, in the order of their strings.                   *)
(***************************************************************************)
EXTENDS GpuAllocator, Functions

CONSTANTS
    Nodes,      \* the online nodes the scheduler read before the call
    Gpus,       \* the gpu_devices rows, pairs <<node, index>>
    Suits,      \* the rows that match gpu_model and min_memory_mb
    Need,       \* gpu_count
    Loads       \* bound: the values of gpu_devices.utilization

ASSUME LoopAssumption ==
    /\ Nodes \subseteq Int
    /\ Gpus \subseteq Nodes \X Nat /\ IsFiniteSet(Gpus)
    /\ Suits \subseteq Gpus
    /\ Need \in Int
    /\ Loads \subseteq Nat /\ Loads # {}

VARIABLES
    gpuStatus,   \* gpu_devices.status
    load,        \* gpu_devices.utilization
    unread,      \* the nodes the loop has not reached
    candidates,  \* node -> its filtered rows, each with the utilization read
    locked,      \* the rows held FOR UPDATE
    result       \* the placement returned; <<>> while the loop runs or for None

table == <<gpuStatus, load>>
loopVars == <<table, unread, candidates, locked, result>>

Idle == {g \in Gpus : gpuStatus[g] = "idle"}
Placement == [node : Nodes, gpus : SUBSET Gpus]

LoopTypeOK ==
    /\ gpuStatus \in [Gpus -> {"idle", "allocated", "busy"}]
    /\ load \in [Gpus -> Loads]
    /\ unread \subseteq Nodes
    /\ DOMAIN candidates \subseteq Nodes \ unread
    /\ \A n \in DOMAIN candidates :
          DOMAIN candidates[n] \subseteq {g \in Gpus : NodeOf(g) = n}
    /\ locked \subseteq Gpus
    /\ result \in Placement \cup {<<>>}

LoopInit ==
    /\ gpuStatus \in [Gpus -> {"idle", "allocated", "busy"}]
    /\ load \in [Gpus -> Loads]
    /\ unread = Nodes
    /\ candidates = <<>>
    /\ locked = {}
    /\ result = <<>>

-----------------------------------------------------------------------------
(* Seeded mistakes *)

\* The SELECT without FOR UPDATE.
LockedBy_Nothing(n) == {}

\* Keeps the candidates of the last call.
Return_KeepsCandidates ==
    /\ unread = {}
    /\ gpuStatus' = [g \in Gpus |->
          IF result # <<>> /\ g \in result.gpus THEN "allocated" ELSE gpuStatus[g]]
    /\ unread' = Nodes
    /\ locked' = {}
    /\ result' = <<>>
    /\ UNCHANGED <<load, candidates>>

-----------------------------------------------------------------------------
(* The loop *)

\* A task without GPUs counts the idle rows, whatever their model; it locks none.
Eligible(n) == IF Need > 0 THEN Filtered(n, Idle, Suits) ELSE Filtered(n, Idle, Gpus)

LockedBy(n) == IF Need > 0 THEN Filtered(n, Idle, Gpus) ELSE {}

\* A seeded mistake: a node needs more rows than the task.
ReadNode_OneMore ==
    /\ \E n \in unread :
          /\ \A m \in unread : n <= m
          /\ unread' = unread \ {n}
          /\ locked' = locked \cup LockedBy(n)
          /\ LET found == {x \in {n} : Cardinality(Eligible(x)) > Need}
             IN  candidates' = [x \in DOMAIN candidates \cup found |->
                    IF x = n THEN [g \in Eligible(n) |-> load[g]] ELSE candidates[x]]
    /\ UNCHANGED <<table, result>>

\* One turn of "for node in nodes", in the order of the ids.
ReadNode ==
    /\ \E n \in unread :
          /\ \A m \in unread : n <= m
          /\ unread' = unread \ {n}
          /\ locked' = locked \cup LockedBy(n)
          /\ LET found == {x \in {n} : Cardinality(Eligible(x)) >= Need}
             IN  candidates' = [x \in DOMAIN candidates \cup found |->
                    IF x = n THEN [g \in Eligible(n) |-> load[g]] ELSE candidates[x]]
    /\ UNCHANGED <<table, result>>

FirstRows(n) == FirstByIndex(DOMAIN candidates[n], Need)

\* The sum of the utilizations of the rows the task would get; all candidates
\* divide it by the same number.
Burden(n) == SumFunction(Restrict(candidates[n], FirstRows(n)))

\* A seeded mistake: sorts by utilization first.
Before_LoadFirst(n, m) ==
    LET size(x) == Cardinality(DOMAIN candidates[x])
    IN  \/ Burden(n) < Burden(m)
        \/ Burden(n) = Burden(m) /\ size(n) > size(m)
        \/ Burden(n) = Burden(m) /\ size(n) = size(m) /\ n < m

\* The order of the sort key: most rows, least utilization, least id.
Before(n, m) ==
    LET size(x) == Cardinality(DOMAIN candidates[x])
    IN  \/ size(n) > size(m)
        \/ size(n) = size(m) /\ Burden(n) < Burden(m)
        \/ size(n) = size(m) /\ Burden(n) = Burden(m) /\ n < m

\* The sort and candidates[0].
Choose ==
    /\ unread = {}
    /\ result = <<>>
    /\ \E n \in DOMAIN candidates :
          /\ \A m \in DOMAIN candidates \ {n} : Before(n, m)
          /\ result' = [node |-> n, gpus |-> FirstRows(n)]
    /\ UNCHANGED <<table, unread, candidates, locked>>

\* The transaction ends, with the rows allocated or, for None or a failed launch,
\* unchanged; the next call starts.
Return ==
    /\ unread = {}
    /\ result # <<>> \/ DOMAIN candidates = {}
    /\ \/ gpuStatus' = [g \in Gpus |->
             IF result # <<>> /\ g \in result.gpus THEN "allocated" ELSE gpuStatus[g]]
       \/ UNCHANGED gpuStatus
    /\ unread' = Nodes
    /\ candidates' = <<>>
    /\ locked' = {}
    /\ result' = <<>>
    /\ UNCHANGED load

\* A heartbeat, a release or an offline mark rewrites a row that is not locked.
Rewrite(g) ==
    /\ g \notin locked
    /\ \E s \in {"idle", "allocated", "busy"}, u \in Loads :
          /\ gpuStatus' = [gpuStatus EXCEPT ![g] = s]
          /\ load' = [load EXCEPT ![g] = u]
    /\ UNCHANGED <<unread, candidates, locked, result>>

LoopNext == ReadNode \/ Choose \/ Return \/ \E g \in Gpus : Rewrite(g)

LoopSpec == LoopInit /\ [][LoopNext]_loopVars

-----------------------------------------------------------------------------
(* Correctness *)

\* The rows a task gets are idle when they are marked, whoever wrote to the table
\* since they were read: the loop never takes a row from its holder.
ChosenStillIdle == result # <<>> => result.gpus \subseteq Idle

\* For a task that wants GPUs the loop returns a placement that Allocations allows for
\* the rows it holds, which is the step TaskScheduler takes; among the nodes that
\* tie it took the one whose rows carry least load now, not only when they were
\* read, and of two alike the one with the lesser id.
LoopMeetsAllocations ==
    Need > 0 /\ result # <<>> =>
        LET now(n) == SumFunction(Restrict(load, FirstByIndex(Filtered(n, locked, Suits), Need)))
        IN  /\ result \in Allocations(Nodes, locked, Suits, Need)
            /\ \A n \in Widest(Nodes, locked, Suits, Need) \ {result.node} :
                  \/ now(result.node) < now(n)
                  \/ now(result.node) = now(n) /\ result.node < n

\* None is returned only if no node had enough suitable idle rows when it was read;
\* those it had are still held and still idle.
NoneOnlyIfShort ==
    unread = {} /\ DOMAIN candidates = {} =>
        Allocations(Nodes, locked, Suits, Need) = {} /\ locked \subseteq Idle
=============================================================================
