--------------------------- MODULE ModelDeployment ---------------------------
(***************************************************************************)
(* ModelService of the backend: deploying a model (allocate, launch, wait  *)
(* for health, once per replica), cleaning up a deployment that failed,    *)
(* stopping a model, and the rows of models, model_instances and           *)
(* gpu_devices that this writes next to the scheduler and the heartbeats.  *)
(*                                                                         *)
(* deploy_model and stop_model hold _deploy_lock, and one API process runs *)
(* them: there is one operation at a time, "step" says where it stands and *)
(* the variables after it are its locals.  Everything else runs in between.*)
(* The variables of the tables hold committed rows.                        *)
(***************************************************************************)
EXTENDS Integers, FiniteSets

CONSTANTS
    Models,       \* model ids; an id is used for one row only
    Nodes,
    Gpus,         \* the gpu_devices rows, pairs <<node, index>>
    Settings,     \* bound: what an administrator may give each model, see Setting
    Texts,        \* bound: what an administrator may write into a status
    Events,       \* what may happen around the service
    Shared,       \* bound: the nodes whose rows the scheduler and the heartbeats write
    MaxLaunches,  \* bound: calls of /api/run in a behaviour
    MaxMishaps,   \* bound: calls and commits that go wrong, crashes
    MaxEdits,     \* bound: calls of update_model
    None

EventNames == {"timeout", "refusal", "stop", "health", "exit", "crash", "abort", "tasks",
               "silence", "heartbeat", "delete", "edit"}

\* The columns of a model a deployment reads: replicas as it was given, the number of GPUs
\* and the rows whose gpu_model has the hint in it, both from gpu_requirement, and the port
\* its server listens to, config_json's container_port; ports count from 8001, and 0 is one
\* below that, such as the default 8000.
Setting == [replicas : Int, need : Nat \ {0}, suits : SUBSET Gpus, port : Nat]
NoSetting == [replicas |-> 0, need |-> 1, suits |-> {}, port |-> 0]

ASSUME DeploymentAssumption ==
    /\ None \notin Models \cup Nodes
    /\ Gpus \subseteq Nodes \X Nat
    /\ \A m \in Models : Settings[m] \subseteq Setting
    /\ Texts \cap {"absent", "deleted"} = {}
    /\ Events \subseteq EventNames /\ Shared \subseteq Nodes
    /\ MaxLaunches \in Nat /\ MaxMishaps \in Nat /\ MaxEdits \in Nat

VARIABLES
    modelStatus, \* models.status; "absent" before and "deleted" after the row
    settings,    \* the other columns of the models rows
    instances,   \* the model_instances rows
    gpuStatus,   \* gpu_devices.status
    online,      \* the nodes with status 'online'
    boxes,       \* the model containers docker knows
    taken,       \* rows of the scheduler's transaction in progress
    locked,      \* rows it holds FOR UPDATE
    held,        \* rows recorded on tasks that were not released
    payloads,    \* nodes with a heartbeat on its way that lists no model container
    step,        \* the operation under _deploy_lock
    model,       \* its model_id
    alloc,       \* its allocation
    seen,        \* rows of that node its session remembers as idle
    made,        \* created_instances, or the instances a stop still has to visit
    current,     \* the launch or instance it works on; 0 for none
    freed,       \* rows a stop has set to idle and not committed
    known,       \* the status a stop has read
    plan,        \* what the last deployment of each model read, and goes by to its end
    marked,      \* history: rows whose value a deployment has written last, 'allocated'
    byHand,      \* history: models whose status an administrator has written last
    broken,      \* history: models with an operation that was cut off and not made good
    launches,    \* launch calls so far: the next container id
    mishaps,     \* what went wrong so far
    edits        \* calls of update_model so far

tables == <<modelStatus, settings, instances, gpuStatus>>
others == <<online, taken, locked, held, payloads>>
locals == <<step, model, alloc, seen, made, current, freed, known>>
history == <<plan, marked, byHand, broken>>
bounds == <<launches, mishaps, edits>>
deployVars == <<tables, others, boxes, locals, history, bounds>>

NodeOf(gpu) == gpu[1]
Idle == {g \in Gpus : gpuStatus[g] = "idle"}
ModelExists(m) == modelStatus[m] \notin {"absent", "deleted"}
InstancesOf(m) == {i \in instances : i.model = m}

\* How many replicas a deployment of these settings makes.
Goal(setting) == IF setting.replicas > 1 THEN setting.replicas ELSE 1

Ids == 1 .. MaxLaunches
Ports == 1 .. MaxLaunches
Allocation == [node : Nodes, gpus : SUBSET Gpus, port : Ports]
NoAllocation == [node |-> None, gpus |-> {}, port |-> 0]
Instance == [id : Ids, model : Models, node : Nodes, gpus : SUBSET Gpus, port : Ports,
             status : {"starting", "running"}]
ModelBox == [id : Ids, model : Models, node : Nodes, gpus : SUBSET Gpus, port : Ports,
             host : Nat, state : {"up", "exited", "created"}]

\* The rows the operation has flushed and not committed: it holds their locks.
Flushed == IF step \in {"flushed", "launched"} THEN alloc.gpus ELSE {}

Free(rows) == [g \in Gpus |-> IF g \in rows THEN "idle" ELSE gpuStatus[g]]
Mark(rows) == [g \in Gpus |-> IF g \in rows THEN "allocated" ELSE gpuStatus[g]]

DeployInit ==
    /\ modelStatus = [m \in Models |-> "absent"]
    /\ settings = [m \in Models |-> NoSetting]
    /\ instances = {}
    /\ gpuStatus = [g \in Gpus |-> "idle"]
    /\ online = Nodes
    /\ boxes = {}
    /\ taken = {} /\ locked = {} /\ held = {} /\ payloads = {}
    /\ step = "none" /\ model = None /\ alloc = NoAllocation /\ seen = {} /\ made = {}
    /\ current = 0 /\ freed = {} /\ known = None
    /\ plan = [m \in Models |-> NoSetting] /\ marked = {} /\ byHand = {} /\ broken = {}
    /\ launches = 0 /\ mishaps = 0 /\ edits = 0

-----------------------------------------------------------------------------
(* How an operation ends: the lock is left, or the exception reaches the outer *)
(* handler of deploy_model, which rolls back and turns to created_instances.   *)

LeaveLock ==
    /\ step' = "none" /\ model' = None /\ alloc' = NoAllocation /\ seen' = {} /\ made' = {}
    /\ current' = 0 /\ freed' = {} /\ known' = None

Fail ==
    /\ step' = "failing"
    /\ alloc' = NoAllocation /\ seen' = {} /\ current' = 0
    /\ UNCHANGED <<model, made, freed, known>>

\* A deployment, or MarkError, has written a status, and no administrator since.
WriteStatus(m, text) ==
    /\ modelStatus' = [modelStatus EXCEPT ![m] = text]
    /\ byHand' = byHand \ {m}

\* Room for one more thing to go wrong.
Mishap(event) == event \in Events /\ mishaps < MaxMishaps /\ mishaps' = mishaps + 1

-----------------------------------------------------------------------------
(* Seeded mistakes: what a plausible bug would make of a definition below.  *)

\* Overlooks instances that a crash of the API has left 'starting'.
DeployBegin_RunningOnly(m) ==
    /\ step = "none"
    /\ ModelExists(m)
    /\ \A i \in InstancesOf(m) : i.status # "running"
    /\ launches + Goal(settings[m]) <= MaxLaunches
    /\ WriteStatus(m, "deploying")
    /\ plan' = [plan EXCEPT ![m] = settings[m]]
    /\ broken' = broken \ {m}
    /\ step' = "allocating" /\ model' = m
    /\ UNCHANGED <<settings, instances, gpuStatus, others, boxes, alloc, seen, made, current,
                   freed, known, marked, bounds>>

\* Always the base port.
NextHostPort_Base(n, port) == port = 1

\* Forgets _release_gpu_allocation.
UndoCommit_KeepsRows ==
    /\ step = "undone"
    /\ instances' = {i \in instances : i.id # current}
    /\ Fail
    /\ UNCHANGED <<modelStatus, settings, gpuStatus, others, boxes, history, bounds>>

\* Forgets _cleanup_partial_instances.
MarkError_KeepsInstances ==
    /\ step = "failing"
    /\ IF ModelExists(model) THEN WriteStatus(model, "error") ELSE UNCHANGED <<modelStatus, byHand>>
    /\ LeaveLock
    /\ UNCHANGED <<settings, instances, gpuStatus, others, boxes, plan, marked, broken, bounds>>

\* Writes the status before the rollback, which undoes it.
MarkError_RolledBack ==
    /\ step = "failing"
    /\ made = {}
    /\ LeaveLock
    /\ UNCHANGED <<tables, others, boxes, history, bounds>>

\* Stops only models that are online.
StopBegin_OnlineOnly(m) ==
    /\ step = "none"
    /\ modelStatus[m] = "online"
    /\ step' = "stopping" /\ model' = m /\ known' = modelStatus[m]
    /\ made' = {i.id : i \in InstancesOf(m)}
    /\ UNCHANGED <<tables, others, boxes, alloc, seen, current, freed, history, bounds>>

\* A status no other place knows.
StopCommit_SaysStopped ==
    /\ step = "stopping"
    /\ made = {}
    /\ ModelExists(model)
    /\ gpuStatus' = Free(freed) /\ marked' = marked \ freed
    /\ instances' = instances \ InstancesOf(model)
    /\ WriteStatus(model, "stopped")
    /\ broken' = broken \ {model}
    /\ LeaveLock
    /\ UNCHANGED <<settings, others, boxes, plan, bounds>>

-----------------------------------------------------------------------------
(* The models: create_model, update_model, delete_model.  None takes the lock. *)

CreateModel(m) ==
    /\ modelStatus[m] = "absent"
    /\ modelStatus' = [modelStatus EXCEPT ![m] = "offline"]
    /\ \E setting \in Settings[m] : settings' = [settings EXCEPT ![m] = setting]
    /\ UNCHANGED <<instances, gpuStatus, others, boxes, locals, history, bounds>>

\* Any of the columns, and any text for the status, whatever is deployed or going on; a
\* status that is there already is not written.
UpdateModel(m) ==
    /\ "edit" \in Events /\ edits < MaxEdits
    /\ ModelExists(m)
    /\ \E setting \in Settings[m] \cup {settings[m]} :
          settings' = [settings EXCEPT ![m] = setting]
    /\ \E text \in Texts \cup {modelStatus[m]} :
          /\ modelStatus' = [modelStatus EXCEPT ![m] = text]
          /\ byHand' = IF text = modelStatus[m] THEN byHand ELSE byHand \cup {m}
    /\ edits' = edits + 1
    /\ UNCHANGED <<instances, gpuStatus, others, boxes, locals, plan, marked, broken, launches,
                   mishaps>>

\* Refused while an instance names the model, by the check or by the foreign key.
DeleteModel(m) ==
    /\ "delete" \in Events
    /\ ModelExists(m)
    /\ InstancesOf(m) = {}
    /\ modelStatus' = [modelStatus EXCEPT ![m] = "deleted"]
    /\ UNCHANGED <<settings, instances, gpuStatus, others, boxes, locals, history, bounds>>

-----------------------------------------------------------------------------
(* deploy_model *)

\* The checks, and the commit of 'deploying'.  The session keeps the model as it read it
\* here: what an administrator changes later is for the next deployment.
DeployBegin(m) ==
    /\ step = "none"
    /\ ModelExists(m)
    /\ \A i \in InstancesOf(m) : i.status \notin {"starting", "running"}
    /\ launches + Goal(settings[m]) <= MaxLaunches
    /\ WriteStatus(m, "deploying")
    /\ plan' = [plan EXCEPT ![m] = settings[m]]
    /\ broken' = broken \ {m}
    /\ step' = "allocating" /\ model' = m
    /\ UNCHANGED <<settings, instances, gpuStatus, others, boxes, alloc, seen, made, current,
                   freed, known, marked, bounds>>

\* What the session believes to be idle on a node: the rows of the node it allocated
\* last stay in its identity map as they were then, every other node is read afresh.
Believed(n) == IF n = alloc.node THEN seen ELSE {g \in Idle : NodeOf(g) = n}

\* _next_host_port: the lowest port no instance of the node has, counted from 8001.
NextHostPort(n, port) ==
    /\ \A i \in instances : i.node = n => i.port # port
    /\ \A p \in 1 .. port - 1 : \E i \in instances : i.node = n /\ i.port = p

\* _allocate_for_model up to the flush: the first node, in any order of their
\* heartbeats, with enough rows, and the rows with least load there.  Nothing is locked.
\* Nodes in maintenance would do as well, but no code gives a node that status.
Choose(n, rows) ==
    /\ step = "allocating"
    /\ n \in online
    /\ rows \subseteq Believed(n) \cap plan[model].suits
    /\ Cardinality(rows) = plan[model].need
    /\ \E port \in Ports :
          NextHostPort(n, port) /\ alloc' = [node |-> n, gpus |-> rows, port |-> port]
    /\ seen' = Believed(n) \ rows
    /\ step' = "chosen"
    /\ UNCHANGED <<tables, others, boxes, model, made, current, freed, known, history, bounds>>

\* No node available, or none with enough rows: 409.
NothingToChoose ==
    /\ step = "allocating"
    /\ \A n \in online : Cardinality(Believed(n) \cap plan[model].suits) < plan[model].need
    /\ Fail
    /\ UNCHANGED <<tables, others, boxes, history, bounds>>

\* The flush: UPDATEs that wait for rows the scheduler has locked, and then write
\* 'allocated' whatever they hold by now.
Flush ==
    /\ step = "chosen"
    /\ alloc.gpus \cap locked = {}
    /\ step' = "flushed"
    /\ UNCHANGED <<tables, others, boxes, model, alloc, seen, made, current, freed, known,
                   history, bounds>>

\* The container /api/run makes of this allocation.  The request has {host port: container
\* port} where docker's SDK, to which the agent hands it on, takes {container port: host
\* port}: on the host the container gets the port its server listens to, and forwards it to
\* the port of its instance inside.
NewBox(state) ==
    [id |-> launches + 1, model |-> model, node |-> alloc.node, gpus |-> alloc.gpus,
     port |-> alloc.port, host |-> plan[model].port, state |-> state]
PortTaken ==
    \E b \in boxes : b.state = "up" /\ b.node = alloc.node /\ b.host = plan[model].port

\* The agent starts the container and answers.
Launch ==
    /\ step = "flushed"
    /\ ~PortTaken
    /\ boxes' = boxes \cup {NewBox("up")}
    /\ launches' = launches + 1
    /\ current' = launches + 1
    /\ step' = "launched"
    /\ UNCHANGED <<tables, others, model, alloc, seen, made, freed, known, history, mishaps, edits>>

\* The call fails and the rows are rolled back.  docker cannot bind the port, refuses
\* for another reason, perhaps after it created the container, or starts the
\* container while the answer is lost.
LaunchFails ==
    /\ step = "flushed"
    /\ launches' = launches + 1
    /\ \/ PortTaken /\ boxes' = boxes \cup {NewBox("created")} /\ UNCHANGED mishaps
       \/ Mishap("refusal") /\ boxes' \in {boxes, boxes \cup {NewBox("created")}}
       \/ Mishap("timeout") /\ ~PortTaken /\ boxes' = boxes \cup {NewBox("up")}
    /\ Fail
    /\ UNCHANGED <<tables, others, history, edits>>

\* The commit of the instance, and with it of the rows.
InsertInstance ==
    /\ step = "launched"
    /\ ModelExists(model)
    /\ instances' = instances \cup
          {[id |-> current, model |-> model, node |-> alloc.node, gpus |-> alloc.gpus,
            port |-> alloc.port, status |-> "starting"]}
    /\ gpuStatus' = Mark(alloc.gpus)
    /\ marked' = marked \cup alloc.gpus
    /\ step' = "waiting"
    /\ UNCHANGED <<modelStatus, settings, others, boxes, model, alloc, seen, made, current, freed,
                   known, plan, byHand, broken, bounds>>

\* The model was deleted meanwhile: the foreign key fails and nobody stops the container.
InsertFails ==
    /\ step = "launched"
    /\ ~ModelExists(model)
    /\ Fail
    /\ UNCHANGED <<tables, others, boxes, history, bounds>>

\* The containers whose server is reached at an endpoint.
AtEndpoint(n, port) ==
    {b \in boxes : b.state = "up" /\ b.node = n /\ b.port = port /\ b.host = port}

\* _wait_for_health returns and 'running' is committed.
Healthy ==
    /\ step = "waiting"
    /\ AtEndpoint(alloc.node, alloc.port) # {}
    /\ instances' = {[i EXCEPT !.status = IF i.id = current THEN "running" ELSE @] : i \in instances}
    /\ made' = made \cup {current}
    /\ current' = 0
    /\ step' = IF Cardinality(made') = Goal(plan[model]) THEN "finishing" ELSE "allocating"
    /\ UNCHANGED <<modelStatus, settings, gpuStatus, others, boxes, model, alloc, seen, freed, known,
                   history, bounds>>

\* The health check times out, or its commit is refused: the inner handler undoes this
\* instance.
Unhealthy ==
    /\ step = "waiting"
    /\ \/ AtEndpoint(alloc.node, alloc.port) = {} /\ UNCHANGED mishaps
       \/ Mishap("health") \/ Mishap("abort")
    /\ step' = "undoing"
    /\ UNCHANGED <<tables, others, boxes, model, alloc, seen, made, current, freed, known, history,
                   launches, edits>>

Finish ==
    /\ step = "finishing"
    /\ WriteStatus(model, "online")
    /\ LeaveLock
    /\ UNCHANGED <<settings, instances, gpuStatus, others, boxes, plan, marked, broken, bounds>>

\* PostgreSQL refuses the flush, the commit of the instance or the last one, and the
\* transaction is rolled back; a deadlock with a heartbeat is one reason.
WriteRefused ==
    /\ step \in {"chosen", "launched", "finishing"}
    /\ Mishap("abort")
    /\ Fail
    /\ UNCHANGED <<tables, others, boxes, history, launches, edits>>

-----------------------------------------------------------------------------
(* A deployment that failed *)

\* _release_gpu_allocation: the rows of an instance that are not idle when it reads them.
ToRelease(rows) == {g \in rows : gpuStatus[g] # "idle"}

\* _stop_instance for the failed instance, or for the next one of the outer handler;
\* its error is ignored, so the container may stay.
UndoCall(id) ==
    /\ \/ step = "undoing" /\ id = current
       \/ step = "failing" /\ id \in made
    /\ \/ boxes' = {b \in boxes : b.id # id} /\ UNCHANGED mishaps
       \/ Mishap("stop") /\ UNCHANGED boxes
    /\ current' = id
    /\ made' = made \ {id}
    /\ step' = "undone"
    /\ UNCHANGED <<tables, others, model, alloc, seen, freed, known, history, launches, edits>>

\* Its rows are released and it is deleted, in one commit.
UndoCommit ==
    /\ step = "undone"
    /\ \E i \in instances :
          /\ i.id = current
          /\ ToRelease(i.gpus) \cap locked = {}
          /\ gpuStatus' = Free(i.gpus) /\ marked' = marked \ i.gpus
          /\ instances' = instances \ {i}
    /\ Fail
    /\ UNCHANGED <<modelStatus, settings, others, boxes, plan, byHand, broken, bounds>>

\* That commit is refused: the instance and its rows stay and the handlers go on.
UndoRefused ==
    /\ step = "undone"
    /\ Mishap("abort")
    /\ broken' = broken \cup {model}
    /\ Fail
    /\ UNCHANGED <<tables, others, boxes, plan, marked, byHand, launches, edits>>

\* The status 'error', unless the model is gone (404).
MarkError ==
    /\ step = "failing"
    /\ made = {}
    /\ IF ModelExists(model) THEN WriteStatus(model, "error") ELSE UNCHANGED <<modelStatus, byHand>>
    /\ LeaveLock
    /\ UNCHANGED <<settings, instances, gpuStatus, others, boxes, plan, marked, broken, bounds>>

\* Even that commit is refused: the model stays 'deploying'.
MarkErrorRefused ==
    /\ step = "failing"
    /\ made = {}
    /\ Mishap("abort")
    /\ broken' = broken \cup {model}
    /\ LeaveLock
    /\ UNCHANGED <<tables, others, boxes, plan, marked, byHand, launches, edits>>

-----------------------------------------------------------------------------
(* stop_model *)

StopBegin(m) ==
    /\ step = "none"
    /\ ModelExists(m)
    /\ step' = "stopping" /\ model' = m /\ known' = modelStatus[m]
    /\ made' = {i.id : i \in InstancesOf(m)}
    /\ UNCHANGED <<tables, others, boxes, alloc, seen, current, freed, history, bounds>>

\* The agent stops and removes the container of one instance; its rows are released and
\* its row deleted in the session only.
StopCall(i) ==
    /\ step = "stopping"
    /\ i \in instances /\ i.id \in made
    /\ \E b \in boxes : b.id = i.id
    /\ boxes' = {b \in boxes : b.id # i.id}
    /\ freed' = freed \cup ToRelease(i.gpus)
    /\ made' = made \ {i.id}
    /\ UNCHANGED <<tables, others, step, model, alloc, seen, current, known, history, bounds>>

\* The call raises and everything is rolled back: 404 when docker does not know the
\* container, an error of docker after it stopped it or before, or a lost answer.
StopCallFails(i) ==
    /\ step = "stopping"
    /\ i \in instances /\ i.id \in made
    /\ LET mine == {b \in boxes : b.id = i.id}
       IN  \/ mine = {} /\ UNCHANGED <<boxes, mishaps>>
           \/ /\ mine # {} /\ Mishap("stop")
              /\ boxes' \in {boxes, boxes \ mine,
                             (boxes \ mine) \cup {[b EXCEPT !.state = "exited"] : b \in mine}}
    /\ LeaveLock
    /\ UNCHANGED <<tables, others, history, launches, edits>>

\* The single commit of stop_model.  It leaves the status alone if 'offline' was read.
StopCommit ==
    /\ step = "stopping"
    /\ made = {}
    /\ ModelExists(model)
    /\ freed \cap locked = {}
    /\ gpuStatus' = Free(freed) /\ marked' = marked \ freed
    /\ instances' = instances \ InstancesOf(model)
    /\ IF known = "offline" THEN UNCHANGED <<modelStatus, byHand>> ELSE WriteStatus(model, "offline")
    /\ broken' = broken \ {model}
    /\ LeaveLock
    /\ UNCHANGED <<settings, others, boxes, plan, bounds>>

\* It is refused: the containers are gone, the rows stay.
StopRefused ==
    /\ step = "stopping"
    /\ made = {}
    /\ Mishap("abort")
    /\ LeaveLock
    /\ UNCHANGED <<tables, others, boxes, history, launches, edits>>

\* A model without instances was deleted meanwhile: the UPDATE matches no row.
StopOfDeleted ==
    /\ step = "stopping"
    /\ ~ModelExists(model)
    /\ LeaveLock
    /\ UNCHANGED <<tables, others, boxes, history, bounds>>

\* The API process dies: what was not committed is rolled back.
ApiCrash ==
    /\ Mishap("crash")
    /\ broken' = broken \cup ({model} \ {None})
    /\ LeaveLock
    /\ UNCHANGED <<tables, others, boxes, plan, marked, byHand, launches, edits>>

\* The server in a container ends by itself; docker keeps the container.
BoxExits(b) ==
    /\ b \in boxes /\ b.state = "up"
    /\ Mishap("exit")
    /\ boxes' = (boxes \ {b}) \cup {[b EXCEPT !.state = "exited"]}
    /\ UNCHANGED <<tables, others, locals, history, launches, edits>>

-----------------------------------------------------------------------------
(* The other writers of gpu_devices, as the scheduler and the heartbeats of *)
(* TaskScheduler and Cluster leave them to be seen from here.               *)

\* GpuAllocator.allocate: idle rows of one online node; every idle row of the online
\* nodes is locked, which waits for rows a deployment has flushed.
TaskTakes(n, rows) ==
    /\ "tasks" \in Events
    /\ taken = {}
    /\ n \in online
    /\ rows # {} /\ rows \subseteq {g \in Idle : NodeOf(g) = n}
    /\ LET mine == {g \in Idle : NodeOf(g) \in online}
       IN  mine \cap Flushed = {} /\ locked' = mine
    /\ taken' = rows
    /\ UNCHANGED <<tables, online, held, payloads, boxes, locals, history, bounds>>

\* The scheduler commits a launch, or rolls it back.
TaskStarts ==
    /\ taken # {}
    /\ \/ gpuStatus' = Mark(taken) /\ held' = held \cup taken /\ marked' = marked \ taken
       \/ UNCHANGED <<gpuStatus, held, marked>>
    /\ taken' = {} /\ locked' = {}
    /\ UNCHANGED <<modelStatus, settings, instances, online, payloads, boxes, locals, plan, byHand,
                   broken, bounds>>

\* release_by_task, when the finished message of a task arrives: it frees the rows recorded
\* on the task, whoever has them by now.
TaskEnds(rows) ==
    /\ rows # {} /\ rows \subseteq held
    /\ ToRelease(rows) \cap (locked \cup Flushed) = {}
    /\ gpuStatus' = Free(rows) /\ marked' = marked \ rows
    /\ held' = held \ rows
    /\ UNCHANGED <<modelStatus, settings, instances, online, taken, locked, payloads, boxes, locals,
                   plan, byHand, broken, bounds>>

\* The message is lost, the task deleted before, or launched again on other rows: nobody
\* releases these, and they stay as they are.
TaskForgets(rows) ==
    /\ rows # {} /\ rows \subseteq held
    /\ held' = held \ rows
    /\ UNCHANGED <<tables, online, taken, locked, payloads, boxes, locals, history, bounds>>

\* mark_offline_nodes finds no heartbeat of 60 seconds.
Silence(n) ==
    /\ "silence" \in Events
    /\ n \in online
    /\ LET rows == ToRelease({g \in Gpus : NodeOf(g) = n})
       IN  /\ rows \cap (locked \cup Flushed) = {}
           /\ gpuStatus' = Free(rows) /\ marked' = marked \ rows
    /\ online' = online \ {n}
    /\ UNCHANGED <<modelStatus, settings, instances, taken, locked, held, payloads, boxes, locals,
                   plan, byHand, broken, bounds>>

\* A heartbeat lists every managed container docker has.  That of a model carries a task id
\* no task has ("model-<id>-<n>"), and running_containers.task_id refers to tasks, so the API
\* refuses it: only a heartbeat built while the node has no model container is followed.
BuildPayload(n) ==
    /\ "heartbeat" \in Events
    /\ \A b \in boxes : b.node # n
    /\ payloads' = payloads \cup {n}
    /\ UNCHANGED <<tables, online, taken, locked, held, boxes, locals, history, bounds>>

\* handle_heartbeat, maybe of what the node ran long ago: any of its rows may be in use by a
\* task's container or loaded by something else in it.  A row that has the value is not written.
Heartbeat(n) ==
    /\ n \in payloads
    /\ LET mine == {g \in Gpus : NodeOf(g) = n}
       IN  \E new \in [mine -> {"idle", "allocated", "busy"}] :
              LET written == {g \in mine : gpuStatus[g] # new[g]}
              IN  /\ written \cap (locked \cup Flushed) = {}
                  /\ gpuStatus' = [g \in Gpus |-> IF g \in mine THEN new[g] ELSE gpuStatus[g]]
                  /\ marked' = marked \ written
    /\ online' = online \cup {n} /\ payloads' = payloads \ {n}
    /\ UNCHANGED <<modelStatus, settings, instances, taken, locked, held, boxes, locals, plan,
                   byHand, broken, bounds>>

-----------------------------------------------------------------------------
ModelStep == \E m \in Models : CreateModel(m) \/ UpdateModel(m) \/ DeleteModel(m)

AgentCall ==
    \/ Launch \/ LaunchFails
    \/ \E id \in Ids : UndoCall(id)
    \/ \E i \in instances : StopCall(i) \/ StopCallFails(i)

\* The steps of an operation that was begun, except the calls to an agent.
OperationStep ==
    \/ \E n \in Nodes : \E rows \in SUBSET Gpus : Choose(n, rows)
    \/ NothingToChoose \/ Flush \/ InsertInstance \/ InsertFails \/ Healthy \/ Unhealthy
    \/ Finish \/ UndoCommit \/ MarkError \/ StopCommit \/ StopOfDeleted

Refusal == WriteRefused \/ UndoRefused \/ MarkErrorRefused \/ StopRefused

OtherStep ==
    \/ \E n \in Shared : \E rows \in SUBSET Gpus : TaskTakes(n, rows)
    \/ TaskStarts
    \/ \E rows \in SUBSET Gpus : TaskEnds(rows) \/ TaskForgets(rows)
    \/ \E n \in Shared : Silence(n) \/ BuildPayload(n) \/ Heartbeat(n)

StepWithoutCrash ==
    \/ ModelStep
    \/ \E m \in Models : DeployBegin(m) \/ StopBegin(m)
    \/ OperationStep \/ AgentCall \/ Refusal
    \/ \E b \in boxes : BoxExits(b)
    \/ OtherStep

DeployNext == StepWithoutCrash \/ ApiCrash

DeploySpec == DeployInit /\ [][DeployNext]_deployVars

(***************************************************************************)
(* Fairness.  An operation that has the lock goes on: calls to agents and  *)
(* health checks have timeouts; the scheduler's transactions end and       *)
(* PostgreSQL serves those that wait for a row in turn (SF).  Someone      *)
(* keeps asking to stop a model that has instances, and the lock is served *)
(* in turn.                                                                *)
(***************************************************************************)
DeployFairness ==
    /\ WF_deployVars(OperationStep \/ AgentCall)
    /\ SF_deployVars(Flush \/ UndoCommit \/ StopCommit)
    /\ WF_deployVars(TaskStarts)

StopFairness ==
    \A m \in Models : SF_deployVars(InstancesOf(m) # {} /\ StopBegin(m))

ServedSpec == DeploySpec /\ DeployFairness

DeployFairSpec == ServedSpec /\ StopFairness

-----------------------------------------------------------------------------
(* Correctness *)

\* The type invariant, with the locals that are set in each step of an operation.
DeployTypeOK ==
    /\ modelStatus \in [Models ->
           {"absent", "offline", "deploying", "online", "error", "deleted"} \cup Texts]
    /\ settings \in [Models -> Setting] /\ plan \in [Models -> Setting]
    /\ instances \subseteq Instance
    /\ gpuStatus \in [Gpus -> {"idle", "allocated", "busy"}]
    /\ online \subseteq Nodes /\ payloads \subseteq Nodes
    /\ boxes \subseteq ModelBox
    /\ taken \subseteq locked /\ locked \subseteq Gpus /\ held \subseteq Gpus
    /\ step \in {"none", "allocating", "chosen", "flushed", "launched", "waiting", "finishing",
                 "undoing", "undone", "failing", "stopping"}
    /\ model \in Models \cup {None}
    /\ alloc \in Allocation \cup {NoAllocation}
    /\ seen \subseteq Gpus /\ freed \subseteq Gpus /\ marked \subseteq Gpus
    /\ byHand \subseteq Models /\ broken \subseteq Models
    /\ made \subseteq Ids /\ current \in Ids \cup {0}
    /\ launches \in 0 .. MaxLaunches /\ mishaps \in 0 .. MaxMishaps /\ edits \in 0 .. MaxEdits
    /\ step = "none" <=> model = None
    /\ step \in {"chosen", "flushed", "launched", "waiting"} => alloc # NoAllocation
    /\ step \in {"launched", "waiting", "undoing", "undone"} <=> current # 0

\* A model is deployed once, whoever asks for it, whenever the API dies and whatever is
\* written into its row meanwhile: never more instances than the replicas its last deployment
\* read, and no id and no port of a node for two instances.
DeployedOnce ==
    /\ \A m \in Models : Cardinality(InstancesOf(m)) <= Goal(plan[m])
    /\ \A i, j \in instances : i # j =>
          /\ i.id # j.id
          /\ i.node = j.node => i.port # j.port

\* What a status tells that no administrator has written: every replica of an online model
\* was seen healthy, and a model that is offline has no instance.  One in error has none
\* either, unless the database refused a commit of its clean-up; and none outlives its model.
StatusTellsInstances ==
    \A m \in Models :
        /\ modelStatus[m] = "online" /\ m \notin byHand =>
              /\ Cardinality(InstancesOf(m)) = Goal(plan[m])
              /\ \A i \in InstancesOf(m) : i.status = "running"
        /\ \/ modelStatus[m] = "offline" /\ m \notin byHand
           \/ modelStatus[m] = "error" /\ m \notin byHand \cup broken
           \/ ~ModelExists(m)
           => InstancesOf(m) = {}

\* No deployment leaves a mark behind: a row that is 'allocated' because a deployment wrote so
\* belongs to an instance that stands in the table, whatever failed, was refused or crashed
\* and whoever wrote the row in between.  Rows others have written may well be nobody's.
MarksHaveOwners == \A g \in marked : gpuStatus[g] = "allocated" /\ \E i \in instances : g \in i.gpus

\* Liveness: an operation on a model ends, waits for row locks included, and its model is
\* then no longer 'deploying', unless the database refused even the status 'error', or an
\* administrator wrote it.
OperationsEnd ==
    \A m \in Models :
        model = m ~> model = None /\ (modelStatus[m] # "deploying" \/ m \in broken \cup byHand)

\* A recorded instance whose container is gone: the agent answers 404 to every stop.
ContainerGone(m) == \E i \in InstancesOf(m) : \A b \in boxes : b.id # i.id

\* Liveness: who keeps asking to stop a model succeeds, whatever state its deployment, a
\* crash or an administrator left it in.  Only after something went wrong it may come to rest
\* with an instance whose container an earlier stop has removed: nothing repairs that.
StopSucceeds ==
    \A m \in Models :
        InstancesOf(m) # {} ~> \/ InstancesOf(m) = {}
                               \/ step = "none" /\ mishaps > 0 /\ ContainerGone(m)

(***************************************************************************)
(* What the documents say and the code does not do.                        *)
(***************************************************************************)

\* docs/implementation-roadmap.md:875 has a deployment get its GPUs from the scheduler's
\* allocator: no row is given to a model and to a task.
GpusNotShared == \A i \in instances : i.gpus \cap held = {}
=============================================================================
