# A TLA+ model of the GPU task platform

The repository is a platform that runs containers on GPU nodes: a FastAPI
backend, a scheduler service, an agent on every node, celery workers and a web
frontend, over PostgreSQL and Redis. This directory models the part where
several of them write the same rows and lists, checks it with TLC and proves
the main safety properties with TLAPS.

## The system

| Component | State it keeps | Operations that change it |
|---|---|---|
| Task API (`TaskService`, `QueueService`) | `tasks`, `task_logs` | create, submit, cancel, callback, delete |
| Task queue | three Redis lists, two pub/sub channels | LPUSH by the API, RPOP and RPUSH by the scheduler, PUBLISH |
| Scheduler (`Scheduler`, `GpuAllocator`, `ContainerManager`) | one lock, the local variables of one critical section, one transaction | take an entry, allocate, launch, commit or roll back, put back, release on a finished message |
| Agent (`ContainerTracker`, `HeartbeatReporter`) | docker's containers | run, stop, report what is listed every 10 s |
| Heartbeat API (`NodeService`) | `nodes`, `gpu_devices`, `running_containers` | insert a node, replace what it reported |
| Offline check (celery, 30 s) | `nodes`, `gpu_devices`, `tasks` | mark silent nodes offline, fail their tasks |
| Billing (celery, 300 s) | `users.credits`, `billing_records`, `tasks.billed` | charge the successful tasks |
| Model deployment (`ModelService`) | `models`, `model_instances`, `gpu_devices` | deploy, wait for health, stop, clean up |
| AI gateway (`AIService`) | round robin counters, `api_calls` | forward a call, record its usage |
| Frontend (Pinia stores, socket) | lists of tasks and nodes, counters, a reconnect timer | polling; the socket never opens, see "Not modelled" |
| Authentication, metrics, views, migrations | — | single reads and inserts, rendering |

How they interact. The API pushes an entry and publishes a hint; the scheduler
polls once a second and on every hint, under one lock shared by its main loop
and its pub/sub listener. It holds one database transaction across the launch
call to an agent. Agents report containers with heartbeats; who sends the
callbacks of a task is not in the repository, so a callback is modelled from
what `handle_callback` accepts. A final callback publishes a finished message,
which makes the listener release the GPUs. Heartbeats and the offline check
write the same GPU rows on their own account, and so does a deployment: it
picks idle rows itself, starts the containers of a model on the agents, waits
until they are healthy and records them as instances. The gateway forwards each
OpenAI call to one of the running instances in turn and records it.

What is hard. A request reads a row, calls Redis or an agent and commits later,
so anything can happen in between; the scheduler's entry exists only in memory
between RPOP and its commit; launch calls time out while the agent goes on;
pub/sub messages are lost while the listener is away; callbacks come late, out
of order and twice; heartbeats are old when they are handled and overlap; tasks are deleted
while others work on them; billing runs overlap; a deployment fails between any
two of its replicas, in its clean-up too, and the instance a call was given may be
gone when the call arrives. `PROJECT.json` lists each of
these hazards at its line with the properties that are about it. The tests of
the repository reach none of them: there are none.

What makes each component correct. Task API: the states of a task follow the
diagram of `docs/phase3-scheduling.md`. Queue: no entry is lost or served twice,
priorities and arrival order are kept. Scheduler: a GPU belongs to one task, a
failed launch leaves nothing allocated, everything allocated comes back.
Heartbeats and offline check: the tables converge to what the nodes have and run,
and do not give away what is in use. Billing: a task is charged once, a balance is
never negative, balance and records agree. Model deployment: a model is deployed
once, its status says what became of its instances, no mark it makes on a GPU row
outlives its instance, whatever failed. Gateway: turns are even, a call reaches no
other recorded instance and is recorded once.

## The modules

```
TaskQueue     GpuAllocator           operators: the Redis lists, allocate
      \        /         \
     TaskScheduler     AllocatorLoop the task path; the loop inside allocate
      |       \
   Cluster   implements GpuLease     heartbeats, offline check; the promise
  Registration                       overlapping heartbeats, new nodes
  Billing                            charging tasks
  ModelDeployment                    deploying and stopping models
      |
  AiGateway                          the calls to their instances
  TaskSchedulerProofs, ClusterProofs, GpuLeaseProofs, AllocatorLoopProofs, BillingProofs,
  ModelDeploymentProofs, AiGatewayProofs, RegistrationProofs   theorems
  MC*                                instances for TLC
```

**TaskQueue** has the three lists as sequences. The head of a sequence is the
right end of the Redis list: LPUSH appends, RPOP takes the head, the RPUSH of
`requeue` puts back in front. An entry written by the API has no `priority` key,
so the list an entry is put back to does not depend on its task.

**GpuAllocator** has `allocate` as one operator, `Allocations`: the node with most
suitable idle rows and its first rows by index. The utilization, the second key
of the sort, only decides among nodes that tie, and there any choice is allowed.

**AllocatorLoop** is the same function as the code runs it: node by node, each
read with its own `SELECT ... FOR UPDATE`, while other writers change every row
that is not locked, and the complete sort at the end. It returns a placement that
`Allocations` allows for the rows it has locked (`LoopMeetsAllocations`), so
TaskScheduler may take the placement in one step.

**TaskScheduler** is the core. Its state holds the *committed* rows. Steps:

| Code | Actions |
|---|---|
| `submit_task` | `SubmitRead`, `SubmitPush`, `SubmitCommit`, or `SubmitAborts` when Redis fails |
| `cancel_task` | `CancelRead` (with the stop call), `CancelCommit` |
| `create_task`, `delete_task` | `Create`, `Delete` |
| `handle_callback` | `Callback`, `CallbackUnknown` |
| `_schedule_one` | `Dequeue`, then `Skip`, `PutBack` or `Place`; after the launch call `CommitRunning`, `CommitFailed` or `RowVanished` |
| the launch call | `AgentStart`, `AgentRefuse`, `LaunchTimeout` |
| `handle_task_finished` | `FinishTask`; `ListenerFails` loses the message |
| the process | `Crash`: the transaction rolls back, memory is gone |

`pc` is the place in the critical section; the lock admits one at a time, so one
`pc` stands for both threads. What a transaction has flushed is in `allocNode`,
`allocGpus` and `locked`. A *ticket* numbers the pushes to Redis: it stands for
`enqueued_at` and for the identity of a container.

**GpuLease** is what the scheduler promises about GPUs: a row is on offer, leased to
one task, or lost when its task is launched again or deleted. `ImplementsLease` says
that TaskScheduler is an implementation, with the rows recorded on a task as its lease
and the idle rows as those on offer; queue, lock, transaction and launch are hidden.

**Cluster** extends TaskScheduler by what agents and celery do to the same tables:
`BuildPayload` and `Heartbeat` are apart, so a heartbeat may be handled when it
is old; `OfflineRead` and `OfflineCommit` are the two halves of
`mark_offline_nodes`; the foreign key of `running_containers` refuses
`ClusterDelete` or a heartbeat. A writer waits for the rows the scheduler has
locked. `handle_heartbeat` is one step: a row whose value it had read as already
right is not written, which is the same as having handled it at that moment.

**Registration** has `handle_heartbeat` statement by statement, `Read`, `Delete`,
`Commit` or `Refuse`, and the hosts that send: containers come and go (`Start`,
`Remove`), nvidia-smi lists fewer GPUs or none (`GpusChange`), an agent is started with
another `NODE_IP` (`Move`). A statement sees what was committed before it; the unique
keys decide which of two overlapping heartbeats is refused (`Clash`, `GpuClash`,
`Refused`), `Notice` is what the commit of one means to the other. When two delete one
row or insert one node the second waits for the first, and which is first is settled by
`Commit`. Rows are kept as keys only.

**Billing** has `calculate_task_billing` in steps: select the tasks, load the
users, charge one task in memory, commit. Amounts are integers of 0.0001
credits with the rounding of the code. Beside a run, `Callback` is `handle_callback` in
any state of the task (a second `success` writes `finished_at` again, after the charge
too), `LaunchCommit` a launch of a task that was launched before, `ClearIndices` the
finished message, `DeleteTask` the deletion of a task that ended, charged or not: the
`task_id` of its billing records becomes NULL and they stay. `paid` is therefore what the
records say, and not what the task's row would cost now. For billing a cancelled task is
one that failed.

**ModelDeployment** is `ModelService`. `_deploy_lock` admits one operation at a time in
the one API process, so `step` and the locals after it stand for its place:

| Code | Actions |
|---|---|
| `create_model`, `update_model`, `delete_model` | `CreateModel`, `UpdateModel`, `DeleteModel`, at any time: they do not take the lock |
| `deploy_model` | `DeployBegin`, then for each replica the next two rows, then `Finish` |
| `_allocate_for_model` | `Choose` (or `NothingToChoose`), `Flush`, which waits for locked rows |
| `_launch_model_instance` | `Launch` or `LaunchFails`, `InsertInstance` or `InsertFails`, `Healthy` or `Unhealthy` |
| the inner and outer handlers | `UndoCall`, `UndoCommit`, `MarkError` |
| a write or commit the database refuses | `WriteRefused` in a deployment, `UndoRefused` in a clean-up (the instance stays, `model_service.py:252`), `MarkErrorRefused`, `StopRefused` |
| `stop_model` | `StopBegin`, `StopCall` for each instance, `StopCommit`; `StopCallFails` or `StopOfDeleted` ends it |
| the process, docker | `ApiCrash`, `BoxExits` |
| the other writers of `gpu_devices` | `TaskTakes`, `TaskStarts`, `TaskEnds`, `TaskForgets`, `Silence`, `BuildPayload`, `Heartbeat`: the scheduler and the heartbeats of the modules above, as far as they can be seen from here |

`seen` is the identity map of the session: on the node it used last, a deployment goes by
the rows it remembers. `update_model` writes any column and any status next to an operation;
a deployment goes to its end by what it has read (`plan`: the session does not read the model
again), so what it promises is said of that, and of statuses no administrator has written
(`byHand`). `TaskForgets` is a finished message that is lost, or of a task that was deleted or
launched again: its rows stay as they are, nobody's. A heartbeat writes what a payload of
any age says, so any row of its node may become idle, allocated or busy. The port mapping is modelled as it is sent: the request has
`{host port: container port}` (`model_service.py:173`), the agent hands it to docker's
SDK (`container_tracker.py:56`), which takes `{container port: host port}`. So on the
host a container gets the port its *server* listens to (`port` of its `Setting`), and a second
container of the same model on one node cannot be started.

**AiGateway** extends it by the calls: `Select` is `_select_running_instance`, `Connect`
the moment a container takes the call, `Answer`, `Break`, `Leave` and `LeaveEarly` the
ways it ends, `GatewayCrash` the end of the process with its calls and counters.

Seeded mistakes: operators such as `FinishTask_KeepsIndices` stand next to the
definition they resemble. No specification uses them. Each is what a plausible
bug would make of the definition; put in its place, it violates the property
`PROJECT.json` pairs it with.

## The runs

Runs that pass:

| Run | Instance | Shows |
|---|---|---|
| `faults` | 2 tasks (one for 1 GPU, one for 2), 1 node with 2 GPUs, 2 requests at a time, all faults but repeated callbacks | GPU rows are exclusive, entries are served once, GPU and task rows change together, under double submits, cancel against submit and delete against launch too |
| `live` | 3 tasks, 2 priorities, 1 GPU, no faults, fair | entries are served, normal ones in their order; rows come back, nothing leaks and no row is shared; the refinement of GpuLease |
| `cluster_registry` | 1 task, 1 GPU, 2 heartbeats on their way, launches that time out, crashes, lost messages, repeated callbacks, deletions, fair | nobody writes a row under allocation; heartbeats repair the GPU table in both directions |
| `registration` | 1 host with 2 addresses, 1 GPU and 1 container, 2 heartbeats at a time, fair | a heartbeat nothing overtook is stored exactly; hosts, containers and GPUs get into the tables and out of them |
| `allocator_two` | 2 nodes, 6 GPUs, a task for 2 | the loop returns what `Allocations` allows for the rows it holds |
| `billing_all` | 2 tasks, 1 user, 2 billing runs that may overlap, callbacks, deletions, 1 mishap (a run killed, a second launch or a late callback), fair | no balance becomes negative; without an overlap one charge a task, balance and records agree to half a cent a charge; what can be billed is billed |
| `models_live` | 1 model of 2 replicas (an edit may make it 0), 2 nodes with a GPU each, 3 launches, 1 mishap of any kind, 1 edit, deletion; tasks, heartbeats and silence on one of the nodes, fair | no second deployment beside the first; the status tells the instances; no mark without an instance; operations end, a stop succeeds in the end |
| `gateway_calls` | 2 models (one of 2 replicas), 2 nodes with 3 GPUs, 2 calls, 3 launches, 1 mishap | even turns, one record a call, no answer by another recorded instance |

Runs that end in a counterexample, each of a sentence in the repository's own
documents (quoted in `PROJECT.json`, "findings"):

| Run | What happens |
|---|---|
| `lostqueued` | the scheduler pops an entry before the submit is committed, reads `pending` and drops it; the task stays queued for ever |
| `cluster_stale` | without any fault, a heartbeat older than the allocation frees the row and two containers get one GPU |
| `billing_free` | the finished message clears the GPU list before the billing run counts it: the task is billed at no cost |
| `models_shared` | without any fault, a deployment waits for rows the scheduler holds and then marks them as its own: a task and a model share a GPU |

Disagreements that can be read off the models and have no run of their own:

- `requeue` takes the priority from a payload that has none (`Requeue`): an entry put
  back goes to the front of the normal list, whatever its task's priority, although
  `docs/code-remediation.md:20` says this was repaired.
- `Callback` and `CommitRunning` write the status whatever it is by then: a cancelled
  task becomes running, against the diagram of `docs/phase3-scheduling.md:646`.
- A task whose launch is in progress is not failed when its node goes offline
  (`OfflineRead`), against `docs/phase6-scaling.md:83`.
- A task deleted before its container was listed makes the foreign key refuse all later
  heartbeats of the node (`Accepted`).
- A launch that times out leads to two containers on one GPU (`LaunchTimeout`, then
  `AgentStart`), and two billing runs that overlap charge a task twice, which is why
  `ChargedOnce` and `SumIsKept` speak of separate runs only.
- The mapping of ports (`NewBox`): with the default `container_port` of 8000 no instance
  becomes healthy, where `docs/implementation-roadmap.md:877` has `-p 8001:8000`.
  In the runs servers listen to the port the instance is given, so that deployments can succeed.
- A model container is reported with a task id no task has, so the foreign key refuses
  every heartbeat of its node (`BuildPayload`); once found silent the node stays
  offline, where `docs/implementation-roadmap.md:305` has a heartbeat update its node.
- A container whose launch call was lost keeps its endpoint. `_next_host_port` gives the port
  again, to another model too: its own container cannot bind it or comes up beside it, the
  health check is answered by the one left over, and so are the calls of the gateway.
  `AnsweredByChosen` allows a `Leftover`, and nothing else.
- A clean-up whose commit is refused leaves the model in 'error' with an instance
  (`UndoRefused`), and an edit may say 'offline' or 'online' of any model (`UpdateModel`);
  `StatusTellsInstances` leaves out `broken` and `byHand`.
- An agent that comes back with another address while its containers have rows at the
  former one is refused by the unique `container_id` as long as docker lists one of them
  (`Shut`): only the former node's heartbeats would remove the rows, and no agent sends
  those any more. The liveness properties of Registration exclude it.
- An instance whose container is gone cannot be stopped any more (`StopCallFails` with
  404): `StopSucceeds` excludes it (`ContainerGone`).

**Bounds.** `MaxTickets` bounds the pushes (2: one entry waits while another is
served, and one task can be submitted twice; 3 for `live`), `MaxPayloads` the
heartbeats of a node on their way (2: an older one can be handled after a newer
one; 1 in the counterexamples, where a heartbeat is old as soon as one step happens
after it was built), `Durations` and `Purses` the inputs of billing (17 s on a GPU cost less
than half a cent, 19 s and 17 s on two GPUs more, so of a purse of one cent a first charge
takes nothing or all, and a second may find it empty; 4 cents in `billing_free`), `MaxMishaps` the
billing runs that are killed and the callbacks and launches after a final callback, `Loads`
the utilizations. Two competing
tasks and one or two GPU rows are enough for every overlap of two holders; a third
task is needed only for order (`live`). In `cluster_registry` a single task launched
twice competes with itself. Failures that do not add to a question are left out of
the run that asks it; `Faults` names them: `redis` (a Redis call fails), `timeout`
(the launch call), `crash` (the scheduler), `listener` (a message is lost), `retry`
(a callback is sent again: in `cluster_registry`; in `faults` the second container of
a task launched twice reports and finishes once more, and the theorems hold with it).
In `faults` the two API requests are symmetric: no
definition names one of them; nor does any name one of the calls of `gateway_calls`.
`Events` names what may happen around a deployment, `MaxMishaps` counts failed calls, refused
commits and crashes (1: any single one, at every point), `MaxEdits` the calls of `update_model`
(1), `Settings` and `Texts` are what they may write, `Shared` the nodes the scheduler and the
heartbeats work on (one; the other node is left to the deployment, so that it succeeds in part), `MaxLaunches` the calls of `/api/run` (3: a
deployment of two replicas and another launch after it failed or was stopped). Two
replicas on two nodes are enough for a deployment to fail with one replica up and one
to come; two models on a node, for a port to be given again. Two calls are enough for
one to be under way while the other takes its turn.

In `registration` two heartbeats are enough for one to overtake the other, one container
for a row to be missed, two addresses for a node to be left (`MaxMoves` is 1). Two hosts
that swap addresses, and the wait for each other that follows, are beyond this instance;
the theorems cover them.

`CHECK_DEADLOCK FALSE` stands in the runs of TaskScheduler, ModelDeployment and
AiGateway: they really stop when all tasks have ended and the tickets are used up, or
the launches are used up and nobody has anything left to ask. The other specifications
never stop.

**Fairness.** A request that was begun is answered (WF): nothing blocks it. The
scheduler's loop polls every second (WF of `Dequeue` and of the steps of a
section). The listener competes for the lock, which the loop leaves free for a
second between two sections, so a finished message is handled if the lock is free
again and again (SF of `FinishTask`). Launch calls have a timeout, so they end;
containers are assumed to exit and their final callback to arrive, which is what
a batch task promises. In Cluster the reporter thread sends heartbeats for ever
and a waiter for a row lock is served in turn, so heartbeats that are possible
again and again are handled again and again (SF); single ones may be lost. A
heartbeat that names a deleted task is refused by the foreign key, for ever if the
container stays listed, so the two repair properties exclude that case. In
ModelDeployment an operation that was begun goes on (WF): calls to agents and health
checks have timeouts. A flush that waits for a row goes on when the row is free again
and again (SF), as PostgreSQL serves waiters in turn, and the scheduler's transactions
end (WF of `TaskStarts`). `StopFairness` is the user who keeps asking for a stop, which
`StopSucceeds` is about; the lock serves in turn. Nothing is assumed of deployments,
mishaps or tasks. In Registration reporters send for ever (SF:
the slots are a bound of the model), what was begun goes on (WF), and not every
heartbeat of a host is rolled back in its commit (SF); a refused one ends. In Billing beat starts a run every five minutes, a run goes on, and a
worker is killed only `MaxMishaps` times.

## The proofs

Every invariant and action property the passing runs check is a theorem, for every number
of tasks, nodes, GPUs, requests and pushes, models, replicas and calls, and for every set of
faults or events:

| Module | Theorem | States |
|---|---|---|
| TaskSchedulerProofs | `TypeCorrect` | `TypeOK` |
| | `GpusAreExclusive` | `ExclusiveGpus` |
| | `RowsChangeTogether` | `GpusMoveWithTasks` |
| | `EntriesServedOnce` | `ServedOnce` |
| | `NormalTasksAreFifo` | `NormalFifo` |
| | `NoRowLeaks` | `NothingLeaks`, for one request at a time and no deletion |
| | `SchedulerImplementsLease` | `ImplementsLease`: the refinement |
| GpuLeaseProofs | `LeasesAreExclusive` | `Exclusive` of GpuLease |
| ClusterProofs | `ClusterTypeCorrect` | `ClusterTypeOK` |
| | `AllocationIsProtected` | `AllocationStaysIdle` |
| | `ClusterServesInOrder` | `ServedOnce` and `NormalFifo`, with heartbeats and the offline check |
| AllocatorLoopProofs | `LoopIsTyped` | `LoopTypeOK` |
| | `RowsStayIdle` | `ChosenStillIdle` |
| | `LoopRefinesAllocations` | `LoopMeetsAllocations`: the loop against the operator |
| | `NoneMeansShort` | `NoneOnlyIfShort` |
| BillingProofs | `BillingTypeCorrect` | `BillingTypeOK` |
| | `NoBalanceIsNegative` | `CreditsNeverNegative`, any number of overlapping runs |
| | `SeparateRunsChargeOnce` | `ChargedOnce`: single charges while runs did not overlap |
| | `TheSumIsKept` | `SumIsKept`: balance and records, while runs did not overlap |
| ModelDeploymentProofs | `DeploymentTypeCorrect` | `DeployTypeOK` |
| | `DeployedOnceHolds` | `DeployedOnce` |
| | `StatusIsTrue` | `StatusTellsInstances` |
| | `RowsHaveOwners` | `MarksHaveOwners` |
| RegistrationProofs | `RegTypeCorrect` | `RegTypeOK` |
| | `LoneHeartbeatHolds` | `LoneHeartbeatIsExact` |
| AiGatewayProofs | `GatewayIsTyped` | `GatewayTypeOK` |
| | `CallsAreRecordedOnce` | `RecordedOnce` |
| | `AnsweredByChosenHolds` | `AnsweredByChosen` |
| | `TurnsAreEven` | `EvenTurns` |

Assumptions: the named ASSUMEs of the modules, all about the constants. Where something is
counted or summed, the tasks (Billing), the GPUs (AllocatorLoop) or the calls (AiGateway)
are finitely many. The node ids of AllocatorLoop, which break ties, are integers that stand
for the uuids in the order of their strings. `NoRowLeaks` alone has hypotheses of its own (`OneAtATime`): a second request
or a deletion makes it false, as TLC shows in a few steps.

*Types.* `TypeOK` says which locals are set in which part of the section and is
inductive as it stands.

*Exclusive GPUs.* Disjointness of what tasks record is not inductive: a commit
adds rows, so one must know that no other task records them. The link is the
status: rows recorded on a task are `allocated`, the rows of a launch in progress
are committed `idle` (they are locked, and a section that releases cannot run
meanwhile), so the two are disjoint. These conjuncts are part of `ExclusiveGpus`
itself, which with the types is inductive. The scheduler is the only writer of
the table in this module; `cluster_stale` shows that with heartbeats containers
are no longer isolated, and `AllocationIsProtected` what the locks still keep.

*Refinement.* The mapping is to committed state only, so every step of the section but
its commits is a stutter. A commit of a launch is a `Grant`, because by `ExclusiveGpus`
the rows it marks are still on offer; a finished message is a `GiveBack`, a deletion a
`Forget`.

*Cluster.* The rows a launch in progress has locked are idle (`LockedIsIdle`, of all
locked rows, where the property speaks of the chosen ones): that is inductive because
each writer waits for them.

*Rows change together.* Follows from the same invariant, action by action.

*Served once.* Uniqueness in the lists is not enough, because an entry leaves them
and comes back. `ServedOnce` adds the entry in memory, the launched tickets and
that all of them were issued: a push uses a new number, a put back moves the only
copy.

*First come, first served.* Order in the normal list and of the entry in memory is kept by
every step but a take, which must take the oldest normal entry. It does because
`ListsByPriority` leaves no normal entry in another list: a put back, which goes to the
normal list whatever the priority, only adds entries of others there. In Cluster the
offline check writes statuses, which the order does not depend on.

*Nothing leaks.* A row is lost when a second launch of a task overwrites what the first
recorded. `QueuedOnce` excludes it: a launch starts from `queued`, a task with rows is past
it, and only the one request that read `pending` writes it, so nobody returns.

*The loop of the allocator.* `ReadRows`: what is locked was read as idle and is idle still,
and a candidate remembers exactly the rows held of its node with their load, which nobody
writes either. `Chosen`: the placement is before all other candidates in the order of the
sort. As every suitable idle row that was read is held, the candidates are the nodes with
enough rows among the locked ones, which is what `Allocations` counts.

*Billing.* Balances in memory are not negative either (`Solvent`), because a run
starts from balances of the table and takes off only what is covered; so whatever
run writes last, it writes a natural number. For single charges the flag and the
records are tied together (`ChargesMatchFlags`): what a run works on was not
billed when it read it and, with nobody else, still is not.
For the sum, `BillsAreFresh` says that a run charges a task once, so each charge adds its cost
to the dues of the run; `Balanced` that the tables agree, and for the active run that its
wallets, with the charges of its memory, agree with the balances it has read. A charge moves
both by at most half a cent more or less, a commit turns the dues of the run into records.
Sums over tasks need what the fold of the library gives for any finite set. Its induction
theorems take an operator and cannot be used, so `PickInduction` states induction for a
*set* of good subsets, from `WFMin` and the well-founded order of finite subsets, and
`SumsExist`, `SumIsTaken` and `SumAdds` follow from it: the sum over one task more is the
sum and that task.

*Deployment.* `DeployInv` is the conjunction of what the operation knows. `IdsAreOwn`
and `PortsAreOwn`: launches and ports are not given twice, the one in hand included.
`KnowsInstances`: in a deployment all instances of its model are in `made` or `current`,
unless a commit of its clean-up was refused (`broken`), and those in `made` run; this is why
a clean-up removes all of them and why 'online' is true. `CountsReplicas` and `Counted` count
them by id, since a row changes while it is counted, against the replicas the deployment has
read (`plan`), which an edit does not touch. `StopKnows`: a stop has in hand every marked row
of the instances it has visited, which makes its one commit leave no mark behind, and the
status it has read is still there unless an administrator wrote it. `MarksHaveOwners` needs
the first of these, because the owner goes in the same commit as the mark; of a row that a
heartbeat, a task or the offline check has written since, it says nothing.

*Registration.* `LoneKnows`: what a heartbeat has read and found is still what its node has,
unless another of the node was committed. That the commits of other nodes leave it alone needs
`FoundRowsStay`: a row that a DELETE has found belongs to its node until it ends, so
an insert for another node meets it as a clash.

*Gateway.* Everything above holds beside the gateway, whose steps leave the deployment
alone (`GatewayDeploys`). Records follow the step of the call. For answers (by the chosen instance or a leftover), `Endpoints`
ties the container of a recorded instance to its row, `CallsKnow` what a call remembers
to the row while it is there; with `PortsAreOwn` two instances at one endpoint are one.
Even turns are not inductive, because the property does not say who is next. `Round` does:
the counts began at the place the counter pointed to, the places from there on round to the
counter have one call more than the rest, and the next is the counter modulo the number of
instances (`NextRemainder`, for a modulus that is any number). A change of the running
instances begins a new round wherever the counter is; the index in the list is the rank of
the id (`RunningById`), which the round counts by. The counter is never past the number of
calls that have begun, which is its type.

Model-checked only: the liveness properties (`EntriesServed`, `RowsComeBack` and the others
under fairness): fairness and ENABLED are outside the prover.

## Not modelled

Registration of users, nodes in maintenance (a status `_allocate_for_model` accepts and
no code writes), metric columns, logs, listings and ownership checks: they change nothing another
component decides on. Clocks: a node may be found silent at any time. Lock order inside
PostgreSQL: a waiter waits. The cycle of two multi-row writers is not formed; what the abort
of one leaves is, in ModelDeployment, among the refused commits. API calls are not charged by any code
that runs (`record_api_call` of the billing service has no caller).

Of deployments: the text of requests, commands and health answers; a launch that the
agent performs only after the call has timed out and the rows were given away (it
starts the container before the timeout or not at all); a `refresh` that fails after its
commit. Of calls: tokens
and latency, answers that are not the JSON they claim to be (a plain call with one ends
with an exception and without a record), and a database that fails while a call is
recorded.

The frontend: the backend serves no `/ws/tasks`, so the socket of
`utils/websocket.ts` never opens, the update handlers of the stores never run, and what
is left of a store is the last answer of a poll.

## Plan

1. Done: TaskQueue, GpuAllocator, TaskScheduler, GpuLease and the refinement; Cluster; Registration;
   AllocatorLoop; Billing; ModelDeployment; AiGateway; the theorems above.
2. AgentNode: the agent's handlers and docker's container states, refined by the
   `AgentStart`, `AgentRefuse`, `BoxExit` of TaskScheduler.
3. A model of row locks in primary key order, for the deadlock of two writers.
4. Theorems about what no run checks yet: that AllocatorLoop, with the transaction of the
   scheduler around it, implements the step TaskScheduler takes.
