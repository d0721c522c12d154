------------------------------- MODULE Cluster -------------------------------
(***************************************************************************)
(* The scheduler of TaskScheduler together with the second writer of nodes *)
(* and gpu_devices: the heartbeats the agents send every 10 seconds        *)
(* (HeartbeatReporter, NodeService.handle_heartbeat) and the periodic      *)
(* check that marks silent nodes offline (mark_offline_nodes).             *)
(*                                                                         *)
(* An agent lists every managed container docker knows, the exited ones    *)
(* too; each listed container becomes a running_containers row, whose      *)
(* task_id refers to the tasks table.                                      *)
(***************************************************************************)
EXTENDS TaskScheduler

CONSTANT MaxPayloads   \* bound: heartbeats on their way from one node

ASSUME MaxPayloadsAssumption == MaxPayloads \in Nat \ {0}

VARIABLES
    created,   \* containers docker created and failed to start: they stay
    exited,    \* containers that ended: docker keeps listing them
    payloads,  \* heartbeats on their way to the API
    ctrRows,   \* the running_containers table, as [node, ticket, task]
    sweep      \* the memory of the offline check: what it is going to write

registry == <<created, exited, payloads, ctrRows, sweep>>
clusterVars == <<vars, registry>>

\* What docker lists on a node, and what counts as using a GPU there
\* (status created, restarting or running).
Active(n) == {b \in boxes \cup created : b.node = n}
Listed(n) == Active(n) \cup {b \in exited : b.node = n}

GpusOfNode(n) == {g \in Gpus : NodeOf(g) = n}

NoSweep == [nodes |-> {}, gpus |-> {}, tasks |-> {}]

Payload == [node : Nodes, active : SUBSET Box, listed : SUBSET Box, loaded : SUBSET Gpus]

ClusterTypeOK ==
    /\ TypeOK
    /\ created \subseteq Box /\ exited \subseteq Box
    /\ payloads \subseteq Payload
    /\ ctrRows \subseteq [node : Nodes, ticket : Tickets, task : Tasks]
    /\ sweep \in [nodes : SUBSET Nodes, gpus : SUBSET Gpus, tasks : SUBSET Tasks]

ClusterInit ==
    /\ Init
    /\ created = {}
    /\ exited = {}
    /\ payloads = {}
    /\ ctrRows = {}
    /\ sweep = NoSweep

-----------------------------------------------------------------------------
(* Seeded mistakes *)

NewStatus_KeepsAllocated(p, g) ==
    IF gpuStatus[g] = "allocated" \/ \E b \in p.active : g \in b.gpus THEN "allocated"
    ELSE IF g \in p.loaded THEN "busy" ELSE "idle"

NewStatus_IgnoresContainers(p, g) == IF g \in p.loaded THEN "busy" ELSE "idle"

\* Writes rows the scheduler holds FOR UPDATE.
Heartbeat_Unlocked(p) ==
    /\ p \in payloads
    /\ \A b \in p.listed : Exists(b.task)
    /\ online' = online \cup {p.node}
    /\ gpuStatus' = [g \in Gpus |->
          IF NodeOf(g) # p.node THEN gpuStatus[g]
          ELSE IF \E b \in p.active : g \in b.gpus THEN "allocated"
          ELSE IF g \in p.loaded THEN "busy" ELSE "idle"]
    /\ ctrRows' = {c \in ctrRows : c.node # p.node} \cup
                     {[node |-> p.node, ticket |-> b.ticket, task |-> b.task] : b \in p.listed}
    /\ payloads' = payloads \ {p}
    /\ UNCHANGED <<rows, queue, nextTicket, worker, section, agents, reports, notices,
                   launched, created, exited, sweep>>

-----------------------------------------------------------------------------
(* The agents *)

\* run_container: docker creates the container and then fails to start it.
AgentCreatesOnly(r) ==
    /\ AgentRefuse(r)
    /\ created' = created \cup {r}
    /\ UNCHANGED <<exited, payloads, ctrRows, sweep>>

\* A container ends; nothing removes it.
ClusterBoxExit(b) ==
    /\ BoxExit(b)
    /\ exited' = exited \cup {b}
    /\ UNCHANGED <<created, payloads, ctrRows, sweep>>

\* build_payload: what docker lists now, and the GPUs on which nvidia-smi sees
\* processes, load or memory in use, be it of a container or of anything else.
BuildPayload(n) ==
    /\ Cardinality({p \in payloads : p.node = n}) < MaxPayloads
    /\ \E load \in SUBSET GpusOfNode(n) :
          payloads' = payloads \cup
             {[node |-> n, active |-> Active(n), listed |-> Listed(n), loaded |-> load]}
    /\ UNCHANGED <<vars, created, exited, ctrRows, sweep>>

-----------------------------------------------------------------------------
(* The API: NodeService.handle_heartbeat *)

\* The status computed for one row.
NewStatus(p, g) ==
    IF \E b \in p.active : g \in b.gpus THEN "allocated"
    ELSE IF g \in p.loaded THEN "busy" ELSE "idle"

\* Every row the handler inserts refers to a task that exists.
Accepted(p) == \A b \in p.listed : Exists(b.task)

\* One transaction: the node is online, its running_containers rows are replaced
\* and its GPU rows get the computed status.  A row that changes must not be
\* locked by the scheduler; the handler waits for it.  The rows the handler read that
\* had the computed status already are not written: for those it ran when it read them.
Heartbeat(p) ==
    /\ p \in payloads
    /\ Accepted(p)
    /\ \A g \in GpusOfNode(p.node) : NewStatus(p, g) # gpuStatus[g] => g \notin locked
    /\ online' = online \cup {p.node}
    /\ gpuStatus' = [g \in Gpus |-> IF NodeOf(g) = p.node THEN NewStatus(p, g) ELSE gpuStatus[g]]
    /\ ctrRows' = {c \in ctrRows : c.node # p.node} \cup
                     {[node |-> p.node, ticket |-> b.ticket, task |-> b.task] : b \in p.listed}
    /\ payloads' = payloads \ {p}
    /\ UNCHANGED <<rows, queue, nextTicket, worker, section, agents, reports, notices,
                   launched, created, exited, sweep>>

\* The call is lost, or the foreign key fails: nothing is written.
HeartbeatFails(p) ==
    /\ p \in payloads
    /\ payloads' = payloads \ {p}
    /\ UNCHANGED <<vars, created, exited, ctrRows, sweep>>

\* delete_task: refused by the foreign key while a running_containers row names
\* the task.
ClusterDelete(t) ==
    /\ Delete(t)
    /\ \A c \in ctrRows : c.task # t
    /\ UNCHANGED registry

-----------------------------------------------------------------------------
(* Celery: mark_offline_nodes, in one process (a worker runs it every 30 seconds) *)

\* The SELECTs.  Some nodes were silent for 60 seconds: when that is depends on the
\* network and the load of the API, so any online node may be found silent.
OfflineRead(S) ==
    /\ sweep = NoSweep
    /\ S # {}
    /\ S \subseteq online
    /\ sweep' = [nodes |-> S,
                 gpus  |-> {g \in Gpus : NodeOf(g) \in S /\ gpuStatus[g] # "idle"},
                 tasks |-> {t \in Tasks : taskNode[t] \in S /\ status[t] \in {"queued", "running"}}]
    /\ UNCHANGED <<vars, created, exited, payloads, ctrRows>>

\* A seeded mistake: the tasks of a silent node get the status of the node.
OfflineCommit_StatusOfNode ==
    /\ sweep # NoSweep
    /\ \A t \in sweep.tasks : Exists(t)
    /\ sweep.gpus \cap locked = {}
    /\ online' = online \ sweep.nodes
    /\ gpuStatus' = [g \in Gpus |-> IF g \in sweep.gpus THEN "idle" ELSE gpuStatus[g]]
    /\ status' = [t \in Tasks |-> IF t \in sweep.tasks THEN "offline" ELSE status[t]]
    /\ sweep' = NoSweep
    /\ UNCHANGED <<taskNode, taskGpus, taskBox, queue, nextTicket, worker, section, agents,
                   reports, notices, launched, created, exited, payloads, ctrRows>>

\* The commit.  A row that already had the new value when it was read is not written,
\* and one that is written gets it whatever it holds by now.
OfflineCommit ==
    /\ sweep # NoSweep
    /\ \A t \in sweep.tasks : Exists(t)
    /\ sweep.gpus \cap locked = {}
    /\ online' = online \ sweep.nodes
    /\ gpuStatus' = [g \in Gpus |-> IF g \in sweep.gpus THEN "idle" ELSE gpuStatus[g]]
    /\ status' = [t \in Tasks |-> IF t \in sweep.tasks THEN "failed" ELSE status[t]]
    /\ sweep' = NoSweep
    /\ UNCHANGED <<taskNode, taskGpus, taskBox, queue, nextTicket, worker, section, agents,
                   reports, notices, launched, created, exited, payloads, ctrRows>>

\* A task was deleted meanwhile: the UPDATE fails and everything is rolled back.
OfflineFails ==
    /\ \E t \in sweep.tasks : ~Exists(t)
    /\ sweep' = NoSweep
    /\ UNCHANGED <<vars, created, exited, payloads, ctrRows>>

-----------------------------------------------------------------------------
(* Composition: every step of TaskScheduler but Delete and BoxExit, which the *)
(* registry refines, and the steps above.                                    *)

TaskStep ==
    \/ \E t \in Tasks : Create(t)
    \/ \E w \in Workers :
          \/ \E t \in Tasks : SubmitRead(w, t) \/ CancelRead(w, t)
          \/ SubmitPush(w) \/ SubmitAborts(w) \/ SubmitCommit(w) \/ CancelCommit(w)
    \/ \E r \in reports : Callback(r) \/ CallbackUnknown(r)
    \/ SchedulerStep
    \/ \E r \in requests : AgentStart(r) \/ AgentRefuse(r)

RegistryStep ==
    \/ \E t \in Tasks : ClusterDelete(t)
    \/ \E r \in requests : AgentCreatesOnly(r)
    \/ \E b \in boxes : ClusterBoxExit(b)
    \/ \E n \in Nodes : BuildPayload(n)
    \/ \E p \in payloads : Heartbeat(p) \/ HeartbeatFails(p)

ClusterNext ==
    \/ TaskStep /\ UNCHANGED registry
    \/ RegistryStep
    \/ \E S \in SUBSET Nodes : OfflineRead(S)
    \/ OfflineCommit \/ OfflineFails

ClusterSpec == ClusterInit /\ [][ClusterNext]_clusterVars

\* The reporter thread sends a heartbeat again and again, the API handles one of
\* them again and again (a waiter for a row lock is served in turn), the scheduler
\* leaves its section and a launch call ends.
ClusterFairness ==
    /\ \A n \in Nodes :
          /\ WF_clusterVars(BuildPayload(n))
          /\ SF_clusterVars(\E p \in payloads : p.node = n /\ Heartbeat(p))
    /\ WF_clusterVars((Skip \/ PutBack \/ Place) /\ UNCHANGED registry)
    /\ WF_clusterVars((CommitRunning \/ CommitFailed \/ RowVanished) /\ UNCHANGED registry)
    /\ WF_clusterVars(\E r \in requests :
          (AgentStart(r) \/ AgentRefuse(r)) /\ UNCHANGED registry)

ClusterFairSpec == ClusterSpec /\ ClusterFairness

-----------------------------------------------------------------------------
(* Correctness *)

\* A container of the node names a deleted task: the API refuses every heartbeat.
Refused(n) == \E b \in Listed(n) : ~Exists(b.task)

\* Liveness: a row that stays 'allocated' without a container on it (after a crash,
\* a lost finished message, a deleted task or a second launch) is freed by the
\* heartbeats of its node, if they are not refused.
LeakedRowsHeal ==
    \A g \in Gpus :
        gpuStatus[g] = "allocated" /\ (\A b \in boxes \cup created : g \notin b.gpus)
            ~> \/ gpuStatus[g] # "allocated" \/ Refused(NodeOf(g))
               \/ \E b \in boxes \cup created : g \in b.gpus

UsedBy(k, g) == \E b \in boxes : b.ticket = k /\ g \in b.gpus

\* Liveness: a row with a container on it does not stay on offer, although a late
\* start, a release or an offline mark sets it to 'idle' while the container runs,
\* if the heartbeats of its node are not refused.
UsedRowsLeaveThePool ==
    \A k \in Tickets, g \in Gpus :
        UsedBy(k, g) /\ gpuStatus[g] = "idle"
            ~> ~UsedBy(k, g) \/ gpuStatus[g] # "idle" \/ Refused(NodeOf(g))

\* The rows of a launch in progress are committed 'idle' until its transaction
\* ends, whatever heartbeats and offline marks want to write meanwhile: a rollback
\* leaves what every other writer has seen.  This is what FOR UPDATE buys.
AllocationStaysIdle == \A g \in allocGpus : gpuStatus[g] = "idle"
=============================================================================
