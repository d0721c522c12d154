---------------------------- MODULE TaskScheduler ----------------------------
(***************************************************************************)
(* The path of a task through the API (TaskService, QueueService), Redis,  *)
(* the scheduler service (Scheduler, QueueManager, ContainerManager) and   *)
(* the agents.                                                             *)
(*                                                                         *)
(* The API runs requests concurrently: a request that reads a row, calls   *)
(* Redis or an agent and then commits is several actions of one worker.    *)
(* The scheduler's main loop and its pub/sub listener share one lock, so   *)
(* there is one critical section at a time: "pc" says where it stands and  *)
(* which local variables are set.  Both threads run the same section, so   *)
(* who started it does not matter, and a "new task" message only starts a  *)
(* section the polling loop would start anyway.                            *)
(*                                                                         *)
(* task, taskNode ... hold COMMITTED rows.  What the scheduler flushes     *)
(* inside its transaction shows in the local variables (allocNode,         *)
(* allocGpus, locked) and reaches the rows at its commit.                  *)
(***************************************************************************)
EXTENDS TaskQueue, GpuAllocator

CONSTANTS
    Tasks,       \* task ids; an id is used for one row only
    Nodes,       \* node ids
    Gpus,        \* the gpu_devices rows, pairs <<node, index>>
    Priority,    \* the priority of each task
    GpuCount,    \* config_json.gpu_count of each task
    Suits,       \* the rows that match each task's gpu_model and min_memory_mb
    Workers,     \* concurrent API requests
    Faults,      \* which failures may happen
    Deletable,   \* the tasks their owner may delete
    MaxTickets,  \* bound: pushes to Redis in a behaviour
    None

FaultNames == {"redis", "timeout", "crash", "listener", "retry"}

ASSUME ConstantsAssumption ==
    /\ None \notin Tasks \cup Nodes
    /\ Gpus \subseteq Nodes \X Nat
    /\ Priority \in [Tasks -> Int]
    /\ GpuCount \in [Tasks -> Int]
    /\ Suits \in [Tasks -> SUBSET Gpus]
    /\ Faults \subseteq FaultNames
    /\ Deletable \subseteq Tasks
    /\ MaxTickets \in Nat

VARIABLES
    status,      \* tasks.status; "absent" before and "deleted" after the row
    taskNode,    \* tasks.assigned_node_id
    taskGpus,    \* tasks.assigned_gpu_indices, as rows; {} for NULL and for []
    taskBox,     \* tasks.container_id, as the ticket of the launch; 0 for NULL
    gpuStatus,   \* gpu_devices.status
    online,      \* the nodes with status 'online'
    queue,       \* the Redis lists
    nextTicket,  \* identifies the next push
    worker,      \* the API requests in progress
    pc,          \* the scheduler's critical section
    cur,         \* its task_data
    allocNode,   \* its allocation
    allocGpus,
    locked,      \* the GPU rows it holds FOR UPDATE
    requests,    \* launch calls an agent has not finished
    boxes,       \* containers running on the nodes
    reports,     \* callbacks on their way to the API
    notices,     \* finished messages on their way to the listener
    launched     \* history: tickets whose launch was requested

rows == <<status, taskNode, taskGpus, taskBox>>
section == <<pc, cur, allocNode, allocGpus, locked>>
agents == <<requests, boxes>>
vars == <<rows, gpuStatus, online, queue, nextTicket, worker, section, agents,
          reports, notices, launched>>

Statuses == {"absent", "pending", "queued", "running", "success", "failed",
             "cancelled", "deleted"}
Terminal == {"success", "failed", "cancelled"}
Exists(t) == status[t] \notin {"absent", "deleted"}

Tickets == 1 .. MaxTickets
Entry == [task : Tasks, ticket : Tickets]
NoEntry == [task |-> None, ticket |-> 0]
Box == [ticket : Tickets, task : Tasks, node : Nodes, gpus : SUBSET Gpus]
Report == [ticket : Tickets, task : Tasks, status : {"running", "success", "failed"}]
IdleWorker == [step |-> "idle", task |-> None]

Idle == {g \in Gpus : gpuStatus[g] = "idle"}

Init ==
    /\ status = [t \in Tasks |-> "absent"]
    /\ taskNode = [t \in Tasks |-> None]
    /\ taskGpus = [t \in Tasks |-> {}]
    /\ taskBox = [t \in Tasks |-> 0]
    /\ gpuStatus = [g \in Gpus |-> "idle"]
    /\ online \in SUBSET Nodes
    /\ queue = EmptyQueues
    /\ nextTicket = 1
    /\ worker = [w \in Workers |-> IdleWorker]
    /\ pc = "idle"
    /\ cur = NoEntry
    /\ allocNode = None
    /\ allocGpus = {}
    /\ locked = {}
    /\ requests = {}
    /\ boxes = {}
    /\ reports = {}
    /\ notices = <<>>
    /\ launched = {}

-----------------------------------------------------------------------------
(* Seeded mistakes: what a plausible bug would make of a definition below.  *)
(* Each is swapped in to see that a property notices.                       *)

CancelCommit_OtherSpelling(w) ==
    /\ worker[w].step = "cancelling"
    /\ status' = [status EXCEPT ![worker[w].task] = "canceled"]
    /\ worker' = [worker EXCEPT ![w] = IdleWorker]
    /\ UNCHANGED <<taskNode, taskGpus, taskBox, gpuStatus, online, queue, nextTicket,
                   section, agents, reports, notices, launched>>

Callback_PublishesSuccessOnly(r) ==
    /\ r \in reports
    /\ Exists(r.task)
    /\ status' = [status EXCEPT ![r.task] = r.status]
    /\ taskBox' = [taskBox EXCEPT ![r.task] = r.ticket]
    /\ notices' = IF r.status = "success" THEN Append(notices, r.task) ELSE notices
    /\ reports' = reports \ {r}
    /\ UNCHANGED <<taskNode, taskGpus, gpuStatus, online, queue, nextTicket, worker,
                   section, agents, launched>>

\* Reads the oldest entry without removing it.
Dequeue_Peeks ==
    /\ pc = "idle"
    /\ SomeEntry(queue)
    /\ cur' = Popped(queue)
    /\ pc' = "popped"
    /\ UNCHANGED <<rows, gpuStatus, online, queue, nextTicket, worker, allocNode, allocGpus,
                   locked, agents, reports, notices, launched>>

\* Commits the allocation before the launch call.
Place_CommitsFirst ==
    /\ pc = "popped"
    /\ status[cur.task] = "queued"
    /\ \E p \in Allocations(online, Idle, Suits[cur.task], GpuCount[cur.task]) :
          /\ allocNode' = p.node
          /\ allocGpus' = p.gpus
          /\ gpuStatus' = [g \in Gpus |-> IF g \in p.gpus THEN "allocated" ELSE gpuStatus[g]]
          /\ requests' = requests \cup
                {[ticket |-> cur.ticket, task |-> cur.task, node |-> p.node, gpus |-> p.gpus]}
    /\ launched' = launched \cup {cur.ticket}
    /\ pc' = "launching"
    /\ UNCHANGED <<rows, online, queue, nextTicket, worker, cur, locked, boxes, reports,
                   notices>>

\* Tries a failed launch again.
CommitFailed_Retries ==
    /\ pc = "refused"
    /\ queue' = Requeue(queue, cur)
    /\ pc' = "idle" /\ cur' = NoEntry
    /\ allocNode' = None /\ allocGpus' = {} /\ locked' = {}
    /\ UNCHANGED <<rows, gpuStatus, online, nextTicket, worker, agents, reports, notices,
                   launched>>

\* Forgets allocator.release.
CommitFailed_KeepsRows ==
    /\ pc = "refused"
    /\ Exists(cur.task)
    /\ status' = [status EXCEPT ![cur.task] = "failed"]
    /\ gpuStatus' = [g \in Gpus |-> IF g \in allocGpus THEN "allocated" ELSE gpuStatus[g]]
    /\ pc' = "idle" /\ cur' = NoEntry
    /\ allocNode' = None /\ allocGpus' = {} /\ locked' = {}
    /\ UNCHANGED <<taskNode, taskGpus, taskBox, online, queue, nextTicket, worker, agents,
                   reports, notices, launched>>

\* Forgets to clear assigned_gpu_indices.
FinishTask_KeepsIndices ==
    /\ pc = "idle"
    /\ notices # <<>>
    /\ gpuStatus' = [g \in Gpus |->
          IF g \in taskGpus[Head(notices)] THEN "idle" ELSE gpuStatus[g]]
    /\ notices' = Tail(notices)
    /\ UNCHANGED <<rows, online, queue, nextTicket, worker, section, agents, reports, launched>>

\* Releases only if the row still shows a finished task.
FinishTask_ChecksStatus ==
    /\ pc = "idle"
    /\ notices # <<>>
    /\ LET t == Head(notices)
           freed == IF status[t] \in Terminal THEN taskGpus[t] ELSE {}
       IN  /\ gpuStatus' = [g \in Gpus |-> IF g \in freed THEN "idle" ELSE gpuStatus[g]]
           /\ taskGpus' = [taskGpus EXCEPT ![t] = @ \ freed]
    /\ notices' = Tail(notices)
    /\ UNCHANGED <<status, taskNode, taskBox, online, queue, nextTicket, worker, section,
                   agents, reports, launched>>

-----------------------------------------------------------------------------
(* The API: TaskService *)

\* create_task
Create(t) ==
    /\ status[t] = "absent"
    /\ status' = [status EXCEPT ![t] = "pending"]
    /\ UNCHANGED <<taskNode, taskGpus, taskBox, gpuStatus, online, queue, nextTicket,
                   worker, section, agents, reports, notices, launched>>

\* submit_task up to the check of the status it read.
SubmitRead(w, t) ==
    /\ worker[w].step = "idle"
    /\ status[t] = "pending"
    /\ worker' = [worker EXCEPT ![w] = [step |-> "submitting", task |-> t]]
    /\ UNCHANGED <<rows, gpuStatus, online, queue, nextTicket, section, agents,
                   reports, notices, launched>>

\* The LPUSH of enqueue_task, which comes before the commit.
SubmitPush(w) ==
    /\ worker[w].step = "submitting"
    /\ nextTicket <= MaxTickets
    /\ LET t == worker[w].task
       IN  queue' = Push(queue, BackendLevel(Priority[t]), BackendEntry(t, nextTicket))
    /\ nextTicket' = nextTicket + 1
    /\ worker' = [worker EXCEPT ![w].step = "pushed"]
    /\ UNCHANGED <<rows, gpuStatus, online, section, agents, reports, notices, launched>>

\* LPUSH or PUBLISH raised RedisError: 503 and no commit; an entry that was
\* pushed stays in the list.
SubmitAborts(w) ==
    /\ "redis" \in Faults
    /\ worker[w].step \in {"submitting", "pushed"}
    /\ worker' = [worker EXCEPT ![w] = IdleWorker]
    /\ UNCHANGED <<rows, gpuStatus, online, queue, nextTicket, section, agents,
                   reports, notices, launched>>

\* The commit: an UPDATE of the row by its id alone, and no row (an error
\* to the caller) when it was deleted meanwhile.
SubmitCommit(w) ==
    /\ worker[w].step = "pushed"
    /\ LET t == worker[w].task
       IN  status' = IF Exists(t) THEN [status EXCEPT ![t] = "queued"] ELSE status
    /\ worker' = [worker EXCEPT ![w] = IdleWorker]
    /\ UNCHANGED <<taskNode, taskGpus, taskBox, gpuStatus, online, queue, nextTicket,
                   section, agents, reports, notices, launched>>

\* cancel_task up to the call of safe_stop_task, whose failure is ignored.
CancelRead(w, t) ==
    /\ worker[w].step = "idle"
    /\ status[t] \in {"pending", "queued"}
    /\ worker' = [worker EXCEPT ![w] = [step |-> "cancelling", task |-> t]]
    /\ \/ /\ taskNode[t] # None /\ taskBox[t] # 0
          /\ boxes' = {b \in boxes : b.ticket # taskBox[t]}
       \/ UNCHANGED boxes
    /\ UNCHANGED <<rows, gpuStatus, online, queue, nextTicket, section, requests,
                   reports, notices, launched>>

CancelCommit(w) ==
    /\ worker[w].step = "cancelling"
    /\ LET t == worker[w].task
       IN  status' = IF Exists(t) THEN [status EXCEPT ![t] = "cancelled"] ELSE status
    /\ worker' = [worker EXCEPT ![w] = IdleWorker]
    /\ UNCHANGED <<taskNode, taskGpus, taskBox, gpuStatus, online, queue, nextTicket,
                   section, agents, reports, notices, launched>>

\* delete_task: the row and its logs go.
Delete(t) ==
    /\ t \in Deletable
    /\ status[t] \in Terminal
    /\ status' = [status EXCEPT ![t] = "deleted"]
    /\ taskNode' = [taskNode EXCEPT ![t] = None]
    /\ taskGpus' = [taskGpus EXCEPT ![t] = {}]
    /\ taskBox' = [taskBox EXCEPT ![t] = 0]
    /\ UNCHANGED <<gpuStatus, online, queue, nextTicket, worker, section, agents,
                   reports, notices, launched>>

\* handle_callback.  The status is written whatever it was; container_id is
\* optional in the payload; after the commit a final status is published, and
\* the message is lost when Redis fails.  A caller that saw no answer may
\* send the callback again.
Callback(r) ==
    /\ r \in reports
    /\ LET t == r.task
       IN  /\ Exists(t)
           /\ status' = [status EXCEPT ![t] = r.status]
           /\ \E box \in {r.ticket, taskBox[t]} : taskBox' = [taskBox EXCEPT ![t] = box]
           /\ \/ r.status = "running" /\ UNCHANGED notices
              \/ /\ r.status # "running"
                 /\ Len(notices) < MaxTickets
                 /\ notices' = Append(notices, t)
              \/ r.status # "running" /\ "redis" \in Faults /\ UNCHANGED notices
    /\ \/ reports' = reports \ {r}
       \/ "retry" \in Faults /\ UNCHANGED reports
    /\ UNCHANGED <<taskNode, taskGpus, gpuStatus, online, queue, nextTicket, worker,
                   section, agents, launched>>

\* The 404 of a callback for a row that is gone.
CallbackUnknown(r) ==
    /\ r \in reports
    /\ ~Exists(r.task)
    /\ reports' = reports \ {r}
    /\ UNCHANGED <<rows, gpuStatus, online, queue, nextTicket, worker, section, agents,
                   notices, launched>>

-----------------------------------------------------------------------------
(* The scheduler: Scheduler._schedule_one under _schedule_lock *)

LeaveSection ==
    /\ pc' = "idle"
    /\ cur' = NoEntry
    /\ allocNode' = None
    /\ allocGpus' = {}
    /\ locked' = {}

\* RPOP: from here on the entry exists only in the scheduler's memory.
Dequeue ==
    /\ pc = "idle"
    /\ SomeEntry(queue)
    /\ cur' = Popped(queue)
    /\ queue' = Pop(queue)
    /\ pc' = "popped"
    /\ UNCHANGED <<rows, gpuStatus, online, nextTicket, worker, allocNode, allocGpus,
                   locked, agents, reports, notices, launched>>

\* The row is gone or its committed status is not 'queued': the entry is dropped.
Skip ==
    /\ pc = "popped"
    /\ status[cur.task] # "queued"
    /\ LeaveSection
    /\ UNCHANGED <<rows, gpuStatus, online, queue, nextTicket, worker, agents,
                   reports, notices, launched>>

Placements(t) == Allocations(online, Idle, Suits[t], GpuCount[t])

\* allocate returned None: back to the list its payload names, or lost.
PutBack ==
    /\ pc = "popped"
    /\ status[cur.task] = "queued"
    /\ Placements(cur.task) = {}
    /\ \/ queue' = Requeue(queue, cur)
       \/ "redis" \in Faults /\ UNCHANGED queue
    /\ LeaveSection
    /\ UNCHANGED <<rows, gpuStatus, online, nextTicket, worker, agents, reports,
                   notices, launched>>

\* allocate marks the rows (flushed, not committed), holding every idle row of
\* the online nodes FOR UPDATE, and the launch call goes out.
Place ==
    /\ pc = "popped"
    /\ status[cur.task] = "queued"
    /\ \E p \in Placements(cur.task) :
          /\ allocNode' = p.node
          /\ allocGpus' = p.gpus
          /\ requests' = requests \cup
                {[ticket |-> cur.ticket, task |-> cur.task, node |-> p.node, gpus |-> p.gpus]}
    /\ locked' = IF GpuCount[cur.task] > 0
                 THEN {g \in Idle : NodeOf(g) \in online} ELSE {}
    /\ launched' = launched \cup {cur.ticket}
    /\ pc' = "launching"
    /\ UNCHANGED <<rows, gpuStatus, online, queue, nextTicket, worker, cur, boxes,
                   reports, notices>>

\* The launch call raised after agent_timeout; the agent knows nothing of it.
LaunchTimeout ==
    /\ "timeout" \in Faults
    /\ pc = "launching"
    /\ pc' = "refused"
    /\ UNCHANGED <<rows, gpuStatus, online, queue, nextTicket, worker, cur, allocNode,
                   allocGpus, locked, agents, reports, notices, launched>>

\* The commit of a successful launch.
CommitRunning ==
    /\ pc = "launched"
    /\ LET t == cur.task
       IN  /\ Exists(t)
           /\ status' = [status EXCEPT ![t] = "running"]
           /\ taskNode' = [taskNode EXCEPT ![t] = allocNode]
           /\ taskGpus' = [taskGpus EXCEPT ![t] = allocGpus]
           /\ taskBox' = [taskBox EXCEPT ![t] = cur.ticket]
    /\ gpuStatus' = [g \in Gpus |-> IF g \in allocGpus THEN "allocated" ELSE gpuStatus[g]]
    /\ LeaveSection
    /\ UNCHANGED <<online, queue, nextTicket, worker, agents, reports, notices, launched>>

\* The commit of a failed launch: release() undid the marks of allocate in the
\* same transaction, so the GPU rows keep their committed status.
CommitFailed ==
    /\ pc = "refused"
    /\ Exists(cur.task)
    /\ status' = [status EXCEPT ![cur.task] = "failed"]
    /\ LeaveSection
    /\ UNCHANGED <<taskNode, taskGpus, taskBox, gpuStatus, online, queue, nextTicket,
                   worker, agents, reports, notices, launched>>

\* The row was deleted during the launch: the UPDATE matches no row, the
\* session rolls back and nobody stops the container.
RowVanished ==
    /\ pc \in {"launched", "refused"}
    /\ ~Exists(cur.task)
    /\ LeaveSection
    /\ UNCHANGED <<rows, gpuStatus, online, queue, nextTicket, worker, agents, reports,
                   notices, launched>>

\* The process dies: the transaction rolls back, messages to it are lost.
Crash ==
    /\ "crash" \in Faults
    /\ LeaveSection
    /\ notices' = <<>>
    /\ UNCHANGED <<rows, gpuStatus, online, queue, nextTicket, worker, agents, reports,
                   launched>>

\* The listener raised: it subscribes again 3 seconds later, and what was
\* published in between reaches nobody.
ListenerFails ==
    /\ "listener" \in Faults
    /\ notices' = <<>>
    /\ UNCHANGED <<rows, gpuStatus, online, queue, nextTicket, worker, section, agents,
                   reports, launched>>

\* handle_task_finished: release_by_task, then assigned_gpu_indices = None,
\* in one transaction under the lock.  It then calls _schedule_one.
FinishTask ==
    /\ pc = "idle"
    /\ notices # <<>>
    /\ LET t == Head(notices)
       IN  /\ gpuStatus' = [g \in Gpus |-> IF g \in taskGpus[t] THEN "idle" ELSE gpuStatus[g]]
           /\ taskGpus' = [taskGpus EXCEPT ![t] = {}]
    /\ notices' = Tail(notices)
    /\ UNCHANGED <<status, taskNode, taskBox, online, queue, nextTicket, worker, section,
                   agents, reports, launched>>

-----------------------------------------------------------------------------
(* The agents: agent.run_task and what the container does afterwards *)

Awaited(r) == pc = "launching" /\ cur.ticket = r.ticket

\* The container starts, whether or not the scheduler still waits.
AgentStart(r) ==
    /\ r \in requests
    /\ requests' = requests \ {r}
    /\ boxes' = boxes \cup {r}
    /\ reports' = reports \cup {[ticket |-> r.ticket, task |-> r.task, status |-> "running"]}
    /\ pc' = IF Awaited(r) THEN "launched" ELSE pc
    /\ UNCHANGED <<rows, gpuStatus, online, queue, nextTicket, worker, cur, allocNode,
                   allocGpus, locked, notices, launched>>

\* The agent, or launch() before it calls the agent, raises and starts nothing.
AgentRefuse(r) ==
    /\ r \in requests
    /\ requests' = requests \ {r}
    /\ pc' = IF Awaited(r) THEN "refused" ELSE pc
    /\ UNCHANGED <<rows, gpuStatus, online, queue, nextTicket, worker, cur, allocNode,
                   allocGpus, locked, boxes, reports, notices, launched>>

\* The container exits and its caller reports the result.
BoxExit(b) ==
    /\ b \in boxes
    /\ boxes' = boxes \ {b}
    /\ \E s \in {"success", "failed"} :
          reports' = reports \cup {[ticket |-> b.ticket, task |-> b.task, status |-> s]}
    /\ UNCHANGED <<rows, gpuStatus, online, queue, nextTicket, worker, section, requests,
                   notices, launched>>

-----------------------------------------------------------------------------
ApiStep ==
    \/ \E t \in Tasks : Create(t) \/ Delete(t)
    \/ \E w \in Workers :
          \/ \E t \in Tasks : SubmitRead(w, t) \/ CancelRead(w, t)
          \/ SubmitPush(w) \/ SubmitAborts(w) \/ SubmitCommit(w) \/ CancelCommit(w)
    \/ \E r \in reports : Callback(r) \/ CallbackUnknown(r)

SchedulerStep ==
    \/ Dequeue \/ Skip \/ PutBack \/ Place \/ LaunchTimeout
    \/ CommitRunning \/ CommitFailed \/ RowVanished \/ FinishTask
    \/ Crash \/ ListenerFails

AgentStep ==
    \/ \E r \in requests : AgentStart(r) \/ AgentRefuse(r)
    \/ \E b \in boxes : BoxExit(b)

Next == ApiStep \/ SchedulerStep \/ AgentStep

Spec == Init /\ [][Next]_vars

(***************************************************************************)
(* Fairness.  A request that was started is answered; the loop polls every *)
(* second and a section that was entered goes on; the listener blocks on   *)
(* the lock, which the loop leaves free while it sleeps, so a finished     *)
(* message is handled if the lock is free again and again (SF); a launch   *)
(* call ends, a container exits and its report arrives.                    *)
(***************************************************************************)
Fairness ==
    /\ \A w \in Workers : WF_vars(SubmitPush(w)) /\ WF_vars(SubmitCommit(w))
                          /\ WF_vars(CancelCommit(w))
    /\ WF_vars(Dequeue) /\ WF_vars(Skip \/ PutBack \/ Place)
    /\ WF_vars(CommitRunning \/ CommitFailed \/ RowVanished)
    /\ SF_vars(FinishTask)
    /\ WF_vars(\E r \in requests : AgentStart(r) \/ AgentRefuse(r))
    /\ WF_vars(\E b \in boxes : BoxExit(b))
    /\ WF_vars(\E r \in reports : r.status # "running" /\ (Callback(r) \/ CallbackUnknown(r)))

FairSpec == Spec /\ Fairness

-----------------------------------------------------------------------------
(* Correctness *)

\* The type invariant: the values each column, list and local variable can
\* take, and which locals are set in which part of the critical section.
TypeOK ==
    /\ status \in [Tasks -> Statuses]
    /\ taskNode \in [Tasks -> Nodes \cup {None}]
    /\ taskGpus \in [Tasks -> SUBSET Gpus]
    /\ taskBox \in [Tasks -> Tickets \cup {0}]
    /\ gpuStatus \in [Gpus -> {"idle", "allocated", "busy"}]
    /\ online \subseteq Nodes
    /\ queue \in [Levels -> Seq(Entry)]
    /\ nextTicket \in 1 .. MaxTickets + 1
    /\ worker \in [Workers -> {IdleWorker} \cup
           [step : {"submitting", "pushed", "cancelling"}, task : Tasks]]
    /\ pc \in {"idle", "popped", "launching", "launched", "refused"}
    /\ cur \in Entry \cup {NoEntry}
    /\ allocNode \in Nodes \cup {None}
    /\ allocGpus \subseteq Gpus
    /\ locked \subseteq Gpus
    /\ requests \subseteq Box
    /\ boxes \subseteq Box
    /\ reports \subseteq Report
    /\ notices \in Seq(Tasks)
    /\ launched \subseteq Tickets
    /\ pc = "idle" <=> cur = NoEntry
    /\ pc \in {"idle", "popped"} => allocNode = None /\ allocGpus = {} /\ locked = {}
    /\ pc \in {"launching", "launched", "refused"} =>
           allocNode \in Nodes /\ cur.ticket \in launched

\* Exclusive allocation: while no other process writes gpu_devices, every row
\* recorded on a task is 'allocated', two tasks never record the same row, and
\* the rows of a launch in progress are committed 'idle', so that a failed
\* launch, a rollback or a crash leaves nothing allocated.  It relates the
\* transaction of _schedule_one with that of handle_task_finished.
ExclusiveGpus ==
    /\ \A t \in Tasks : \A g \in taskGpus[t] : gpuStatus[g] = "allocated"
    /\ \A t, u \in Tasks : t # u => taskGpus[t] \cap taskGpus[u] = {}
    /\ \A g \in allocGpus : gpuStatus[g] = "idle"

\* No entry is served twice: a ticket that was launched is in no list, an entry
\* in the scheduler's memory is in no list, and a list position is the only one
\* with its ticket.  So each push to Redis leads to at most one launch request,
\* whatever is put back, rolled back, lost or restarted.
ServedOnce ==
    /\ \A level \in Levels : \A i \in DOMAIN queue[level] :
          /\ queue[level][i].ticket \notin launched
          /\ queue[level][i].ticket # cur.ticket
          /\ queue[level][i].ticket < nextTicket
    /\ \A l1, l2 \in Levels : \A i \in DOMAIN queue[l1] : \A j \in DOMAIN queue[l2] :
          queue[l1][i].ticket = queue[l2][j].ticket => l1 = l2 /\ i = j
    /\ pc = "popped" => cur.ticket \notin launched
    /\ cur.ticket < nextTicket /\ \A k \in launched : k < nextTicket

\* First come, first served among tasks of normal priority: their entries wait
\* in the normal list in push order, and the one being served is older than all
\* of them, although every entry that found no GPU is pushed again.
NormalFifo ==
    LET q == queue["normal"]
        normal(e) == BackendLevel(Priority[e.task]) = "normal"
    IN  /\ \A i, j \in DOMAIN q :
              i < j /\ normal(q[i]) /\ normal(q[j]) => q[i].ticket < q[j].ticket
        /\ pc # "idle" /\ normal(cur) =>
              \A i \in DOMAIN q : normal(q[i]) => cur.ticket < q[i].ticket

\* A row that is 'allocated' is held by a task.  True when one request at a time
\* is served, no finished task is deleted before its finished message is handled,
\* and only then: a second launch of one task overwrites assigned_gpu_indices,
\* and a deleted row no longer says what to release.
NothingLeaks ==
    \A g \in Gpus : gpuStatus[g] = "allocated" => \E t \in Tasks : g \in taskGpus[t]

\* A committed row changes to 'allocated' only together with the row of the task
\* that gets it, and to 'idle' only together with that of the task that loses it,
\* after that task was reported finished: the two tables never disagree between
\* two transactions.
RowsMoveTogether ==
    \A g \in Gpus : gpuStatus[g] # gpuStatus'[g] =>
        \E t \in Tasks :
           \/ /\ gpuStatus'[g] = "allocated"
              /\ g \notin taskGpus[t] /\ g \in taskGpus'[t]
              /\ cur.ticket \in launched /\ status'[t] = "running"
           \/ /\ gpuStatus'[g] = "idle"
              /\ g \in taskGpus[t] /\ g \notin taskGpus'[t]
              /\ notices # <<>> /\ Head(notices) = t

GpusMoveWithTasks == [][RowsMoveTogether]_vars

\* Liveness: while every node is online an entry in Redis is eventually taken for
\* good: neither waiting nor held.  A task that does not fit is put back in front
\* of everything, so this needs every GPU to come back: finished messages must not
\* get lost.
EntriesServed ==
    \A k \in Tickets :
        (online = Nodes /\ \E e \in EntriesOf(queue) : e.ticket = k)
            ~> (cur.ticket # k /\ \A e \in EntriesOf(queue) : e.ticket # k)

\* Liveness: no task keeps its rows forever, also when the callback of a short
\* container overtakes the commit of its own launch and the row says 'running'
\* from then on.
RowsComeBack ==
    \A t \in Tasks : taskGpus[t] # {} ~> taskGpus[t] = {}

\* The scheduler implements GpuLease: whatever fails, is repeated or overlaps, the committed
\* rows of the two tables change only as leases that are granted, given back or forgotten
\* with their task.  idle rows are the rows on offer.
Lease == INSTANCE GpuLease WITH held <- taskGpus, free <- Idle

ImplementsLease == Lease!LeaseSpec

(***************************************************************************)
(* What the documents say and the code does not do.                        *)
(***************************************************************************)

\* docs/phase3-scheduling.md:636 draws the state queued as "waiting in the Redis
\* queue": a task whose committed status is 'queued' has an entry in some list,
\* unless the scheduler is just serving it.
QueuedWaitsInRedis ==
    \A t \in Tasks : status[t] = "queued" =>
        \/ cur.task = t
        \/ \E e \in EntriesOf(queue) : e.task = t

\* docs/phase3-scheduling.md:714-717 promises that containers are isolated on
\* the GPUs assigned to them: two running containers share no GPU.
ContainersIsolated ==
    \A b, c \in boxes : b # c => b.gpus \cap c.gpus = {}
=============================================================================
