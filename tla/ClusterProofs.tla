----------------------------- MODULE ClusterProofs -----------------------------
(***************************************************************************)
(* Proofs about Cluster: what the scheduler's row locks keep while the     *)
(* heartbeats and the offline check write the same table, for every number *)
(* of tasks, nodes, GPUs, requests and heartbeats on their way.            *)
(***************************************************************************)
EXTENDS Cluster, TaskSchedulerProofs

\* What the transaction of a launch has locked contains what it allocates and is idle.
LockedIsIdle ==
    /\ allocGpus \subseteq locked
    /\ \A g \in locked : gpuStatus[g] = "idle"

\* The steps of TaskScheduler that the composition takes over are steps of its Next.
LEMMA TaskStepsAreSteps ==
    /\ TaskStep => Next
    /\ \A t \in Tasks : ClusterDelete(t) => Next
    /\ \A r \in requests : AgentCreatesOnly(r) => Next
    /\ \A b \in boxes : ClusterBoxExit(b) => Next
  BY DEF TaskStep, Next, ApiStep, AgentStep, ClusterDelete, AgentCreatesOnly, ClusterBoxExit

-----------------------------------------------------------------------------
(* Types *)

LEMMA ClusterTypeInit == ClusterInit => ClusterTypeOK
  BY TypeInit DEF ClusterInit, ClusterTypeOK, NoSweep

LEMMA HeartbeatTypes ==
    ASSUME ClusterTypeOK, NEW p \in payloads, Heartbeat(p) PROVE ClusterTypeOK'
<1> USE DEF rows, section, agents
<1>1. p \in Payload
  BY DEF ClusterTypeOK
<1>2. ASSUME NEW g \in Gpus PROVE NewStatus(p, g) \in {"idle", "allocated", "busy"}
  BY DEF NewStatus
<1>3. gpuStatus' \in [Gpus -> {"idle", "allocated", "busy"}] /\ online' \subseteq Nodes
  BY <1>1, <1>2 DEF Heartbeat, ClusterTypeOK, TypeOK, Payload
<1>4. TypeOK'
  BY <1>3 DEF Heartbeat, ClusterTypeOK, TypeOK
<1>5. ctrRows' \subseteq [node : Nodes, ticket : Tickets, task : Tasks]
  BY <1>1 DEF Heartbeat, ClusterTypeOK, Payload, Box
<1> QED BY <1>4, <1>5 DEF Heartbeat, ClusterTypeOK

LEMMA ClusterTypeStep ==
    ASSUME ClusterTypeOK, [ClusterNext]_clusterVars PROVE ClusterTypeOK'
<1> USE DEF registry
<1>1. CASE UNCHANGED clusterVars
  <2>1. TypeOK'
    BY <1>1, TypeStep DEF ClusterTypeOK, clusterVars
  <2> QED BY <1>1, <2>1 DEF ClusterTypeOK, clusterVars
<1>2. CASE TaskStep /\ UNCHANGED registry
  <2>1. TypeOK'
    BY <1>2, TaskStepsAreSteps, TypeStep DEF ClusterTypeOK
  <2> QED BY <1>2, <2>1 DEF ClusterTypeOK
<1>3. ASSUME NEW t \in Tasks, ClusterDelete(t) PROVE ClusterTypeOK'
  <2>1. TypeOK'
    BY <1>3, TaskStepsAreSteps, TypeStep DEF ClusterTypeOK
  <2> QED BY <1>3, <2>1 DEF ClusterTypeOK, ClusterDelete
<1>4. ASSUME NEW r \in requests, AgentCreatesOnly(r) PROVE ClusterTypeOK'
  <2>1. TypeOK' /\ r \in Box
    BY <1>4, TaskStepsAreSteps, TypeStep DEF ClusterTypeOK, TypeOK
  <2> QED BY <1>4, <2>1 DEF ClusterTypeOK, AgentCreatesOnly
<1>5. ASSUME NEW b \in boxes, ClusterBoxExit(b) PROVE ClusterTypeOK'
  <2>1. TypeOK' /\ b \in Box
    BY <1>5, TaskStepsAreSteps, TypeStep DEF ClusterTypeOK, TypeOK
  <2> QED BY <1>5, <2>1 DEF ClusterTypeOK, ClusterBoxExit
<1>6. ASSUME NEW n \in Nodes, BuildPayload(n) PROVE ClusterTypeOK'
  <2>1. TypeOK'
    BY <1>6, TypeStep DEF ClusterTypeOK, BuildPayload
  <2>2. Active(n) \subseteq Box /\ Listed(n) \subseteq Box
    BY DEF ClusterTypeOK, TypeOK, Active, Listed
  <2>3. payloads' \subseteq Payload
    BY <1>6, <2>2 DEF BuildPayload, ClusterTypeOK, Payload, GpusOfNode
  <2> QED BY <1>6, <2>1, <2>3 DEF BuildPayload, ClusterTypeOK
<1>7. ASSUME NEW p \in payloads, Heartbeat(p) PROVE ClusterTypeOK'
  BY <1>7, HeartbeatTypes
<1>8. ASSUME NEW p \in payloads, HeartbeatFails(p) PROVE ClusterTypeOK'
  <2>1. TypeOK'
    BY <1>8, TypeStep DEF ClusterTypeOK, HeartbeatFails
  <2> QED BY <1>8, <2>1 DEF HeartbeatFails, ClusterTypeOK
<1>9. ASSUME NEW S \in SUBSET Nodes, OfflineRead(S) PROVE ClusterTypeOK'
  <2>1. TypeOK'
    BY <1>9, TypeStep DEF ClusterTypeOK, OfflineRead
  <2> QED BY <1>9, <2>1 DEF OfflineRead, ClusterTypeOK
<1>10. CASE OfflineCommit
  <2>1. /\ gpuStatus' \in [Gpus -> {"idle", "allocated", "busy"}]
        /\ status' \in [Tasks -> Statuses]
        /\ online' \subseteq Nodes
    BY <1>10 DEF OfflineCommit, ClusterTypeOK, TypeOK, Statuses
  <2>2. TypeOK'
    BY <1>10, <2>1 DEF OfflineCommit, ClusterTypeOK, TypeOK, section, agents
  <2> QED BY <1>10, <2>2 DEF OfflineCommit, ClusterTypeOK, NoSweep
<1>11. CASE OfflineFails
  <2>1. TypeOK'
    BY <1>11, TypeStep DEF ClusterTypeOK, OfflineFails
  <2> QED BY <1>11, <2>1 DEF OfflineFails, ClusterTypeOK, NoSweep
<1> QED
  BY <1>1, <1>2, <1>3, <1>4, <1>5, <1>6, <1>7, <1>8, <1>9, <1>10, <1>11
  DEF ClusterNext, RegistryStep

\* Every reachable state of the composition is well typed, in particular no overlap of the
\* offline check with the tasks it fails writes a status that is none.
THEOREM ClusterTypeCorrect == ClusterSpec => []ClusterTypeOK
  BY ClusterTypeInit, ClusterTypeStep, PTL DEF ClusterSpec

-----------------------------------------------------------------------------
(* Row locks *)

\* Inside the scheduler: rows are locked when they are idle, and written by the transaction
\* that has locked them only when it ends.
LEMMA LockedKeptByTasks ==
    ASSUME TypeOK, LockedIsIdle, Next PROVE LockedIsIdle'
<1> USE DEF rows, section, agents
<1>1. CASE UNCHANGED <<gpuStatus, allocGpus, locked>>
  BY <1>1 DEF LockedIsIdle
<1>2. CASE allocGpus' = {} /\ locked' = {}
  BY <1>2 DEF LockedIsIdle
<1>3. CASE ApiStep
  BY <1>1, <1>3
  DEF ApiStep, Create, Delete, SubmitRead, CancelRead, SubmitPush, SubmitAborts,
      SubmitCommit, CancelCommit, Callback, CallbackUnknown
<1>4. CASE AgentStep
  BY <1>1, <1>4 DEF AgentStep, AgentStart, AgentRefuse, BoxExit
<1>5. CASE Skip \/ PutBack \/ CommitRunning \/ CommitFailed \/ RowVanished \/ Crash
  BY <1>2, <1>5
  DEF Skip, PutBack, CommitRunning, CommitFailed, RowVanished, Crash, LeaveSection
<1>6. CASE Dequeue \/ LaunchTimeout \/ ListenerFails
  BY <1>1, <1>6 DEF Dequeue, LaunchTimeout, ListenerFails
<1>7. CASE FinishTask
  BY <1>2, <1>7 DEF FinishTask, TypeOK
<1>8. CASE Place
  <2> DEFINE t == cur.task
  <2>1. PICK p \in Placements(t) : allocGpus' = p.gpus
    BY <1>8 DEF Place
  <2>2. /\ p.node \in online
        /\ p.gpus \subseteq Idle
        /\ \A g \in p.gpus : NodeOf(g) = p.node
    BY <2>1, ChoicesAreIdle DEF Placements
  <2>3. GpuCount[t] <= 0 => p.gpus = {}
    BY <2>1 DEF Placements, Allocations, WidestForCpu
  <2>4. cur \in Entry /\ t \in Tasks
    BY <1>8 DEF Place, TypeOK, Entry
  <2>5. GpuCount[t] > 0 \/ GpuCount[t] <= 0
    BY <2>4, ConstantsAssumption
  <2>6. locked' = IF GpuCount[t] > 0 THEN {g \in Idle : NodeOf(g) \in online} ELSE {}
    BY <1>8 DEF Place
  <2>7. allocGpus' \subseteq locked' /\ locked' \subseteq Idle
    BY <2>1, <2>2, <2>3, <2>5, <2>6
  <2>8. UNCHANGED gpuStatus
    BY <1>8 DEF Place
  <2> QED BY <2>7, <2>8 DEF LockedIsIdle, Idle
<1> QED
  BY <1>3, <1>4, <1>5, <1>6, <1>7, <1>8 DEF Next, SchedulerStep

\* The other writers wait for locked rows, or want to write what they hold.
LEMMA LockedKept ==
    ASSUME ClusterTypeOK, LockedIsIdle, [ClusterNext]_clusterVars PROVE LockedIsIdle'
<1>1. CASE UNCHANGED <<gpuStatus, allocGpus, locked>>
  BY <1>1 DEF LockedIsIdle
<1>2. CASE Next
  BY <1>2, LockedKeptByTasks DEF ClusterTypeOK
<1>3. CASE UNCHANGED vars
  BY <1>1, <1>3 DEF vars, section
<1>4. ASSUME NEW p \in payloads, Heartbeat(p) PROVE LockedIsIdle'
  <2>1. UNCHANGED <<allocGpus, locked>> /\ locked \subseteq Gpus
    BY <1>4 DEF Heartbeat, section, ClusterTypeOK, TypeOK
  <2>2. ASSUME NEW g \in locked PROVE gpuStatus'[g] = gpuStatus[g]
    <3>1. g \in Gpus /\ gpuStatus'[g] = IF NodeOf(g) = p.node THEN NewStatus(p, g)
                                       ELSE gpuStatus[g]
      BY <1>4, <2>1, <2>2 DEF Heartbeat
    <3>2. NodeOf(g) = p.node => NewStatus(p, g) = gpuStatus[g]
      BY <1>4, <2>2, <3>1 DEF Heartbeat, GpusOfNode
    <3> QED BY <3>1, <3>2
  <2> QED BY <2>1, <2>2 DEF LockedIsIdle
<1>5. CASE OfflineCommit
  BY <1>5 DEF OfflineCommit, section, LockedIsIdle, ClusterTypeOK, TypeOK
<1>6. CASE TaskStep \/ RegistryStep
  BY <1>2, <1>3, <1>4, <1>6, TaskStepsAreSteps DEF RegistryStep, BuildPayload, HeartbeatFails
<1>7. CASE UNCHANGED clusterVars \/ (\E S \in SUBSET Nodes : OfflineRead(S)) \/ OfflineFails
  BY <1>3, <1>7 DEF clusterVars, OfflineRead, OfflineFails
<1> QED BY <1>5, <1>6, <1>7 DEF ClusterNext

\* While a launch is in progress nobody else changes the rows it allocates: when its
\* transaction ends, by a commit, a rollback or a crash, they are as it found them.
THEOREM AllocationIsProtected == ClusterSpec => []AllocationStaysIdle
<1>1. ClusterInit => LockedIsIdle
  BY DEF ClusterInit, Init, LockedIsIdle
<1>2. ClusterTypeOK /\ LockedIsIdle /\ [ClusterNext]_clusterVars => LockedIsIdle'
  BY LockedKept
<1>3. LockedIsIdle => AllocationStaysIdle
  BY DEF LockedIsIdle, AllocationStaysIdle
<1> QED BY <1>1, <1>2, <1>3, ClusterTypeCorrect, PTL DEF ClusterSpec

-----------------------------------------------------------------------------
(* The queue *)

\* No step of the registry touches a list, a ticket or what the scheduler is serving.
LEMMA QueueKeptByRegistry ==
    ASSUME [ClusterNext]_clusterVars
    PROVE  Next \/ UNCHANGED <<queue, nextTicket, launched, cur, pc>>
<1> USE DEF section
<1>1. CASE TaskStep \/ UNCHANGED clusterVars
  BY <1>1, TaskStepsAreSteps DEF clusterVars, vars
<1>2. CASE RegistryStep
  BY <1>2, TaskStepsAreSteps DEF RegistryStep, BuildPayload, Heartbeat, HeartbeatFails, vars
<1>3. CASE (\E S \in SUBSET Nodes : OfflineRead(S)) \/ OfflineCommit \/ OfflineFails
  BY <1>3 DEF OfflineRead, OfflineCommit, OfflineFails, vars
<1> QED BY <1>1, <1>2, <1>3 DEF ClusterNext

LEMMA ServiceKept ==
    ASSUME ClusterTypeOK, ServedOnce, NormalFifo, ListsByPriority, [ClusterNext]_clusterVars
    PROVE  ServedOnce' /\ NormalFifo' /\ ListsByPriority'
<1>1. CASE Next
  BY <1>1, ServedOnceStep, FifoStep DEF ClusterTypeOK
<1>2. CASE UNCHANGED <<queue, nextTicket, launched, cur, pc>>
  <2>1. ServedOnce'
    BY <1>2, TicketsKept DEF ClusterTypeOK
  <2>2. NormalFifo' /\ ListsByPriority'
    BY <1>2, FifoKept
  <2> QED BY <2>1, <2>2
<1> QED BY <1>1, <1>2, QueueKeptByRegistry

\* Heartbeats and the offline check, which may fail a task whose entry still waits, do not
\* change what the queue promises: at most one launch for each push, and first come, first
\* served among tasks of normal priority.
THEOREM ClusterServesInOrder == ClusterSpec => []ServedOnce /\ []NormalFifo
<1>1. ClusterInit => ServedOnce /\ NormalFifo /\ ListsByPriority
  BY DEF ClusterInit, Init, ServedOnce, NormalFifo, ListsByPriority, EmptyQueues, Levels, NoEntry
<1>2. ClusterTypeOK /\ ServedOnce /\ NormalFifo /\ ListsByPriority /\ [ClusterNext]_clusterVars
         => ServedOnce' /\ NormalFifo' /\ ListsByPriority'
  BY ServiceKept
<1> QED BY <1>1, <1>2, ClusterTypeCorrect, PTL DEF ClusterSpec
=============================================================================
