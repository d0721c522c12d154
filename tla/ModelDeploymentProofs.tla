------------------------- MODULE ModelDeploymentProofs -------------------------
(***************************************************************************)
(* Proofs about ModelDeployment, for every number of models, replicas,     *)
(* nodes and GPUs, every set of events, and any number of mishaps and of   *)
(* changes to the rows of the models.                                      *)
(***************************************************************************)
EXTENDS ModelDeployment, FiniteSetTheorems, TLAPS

\* The steps of a deployment that still adds replicas, and all of its steps.
Forward == {"allocating", "chosen", "flushed", "launched", "waiting"}
Deploying == Forward \cup {"finishing", "undoing", "undone", "failing"}

\* Instances as a deployment counts them.
IdsOf(m) == {i.id : i \in InstancesOf(m)}

\* Ids are used once: those in the table, those the operation has in hand, the new one.
IdsAreOwn ==
    /\ made \subseteq 1 .. launches /\ current \in 0 .. launches
    /\ \A i \in instances : i.id \in 1 .. launches
    /\ \A i, j \in instances : i.id = j.id => i = j
    /\ step = "launched" => \A i \in instances : i.id # current
    /\ step \in {"launched", "waiting"} => current \notin made

\* Ports of a node are used once, the one a launch has chosen included.
PortsAreOwn ==
    /\ \A i, j \in instances : i # j /\ i.node = j.node => i.port # j.port
    /\ step \in {"chosen", "flushed", "launched"} =>
          \A i \in instances : i.node = alloc.node => i.port # alloc.port

\* The statuses a model has while a deployment is going on.
SaysDeploying(m) == modelStatus[m] \in {"deploying", "deleted"} \/ m \in byHand

\* A deployment knows the instances of its model, until the clean-up of one is refused.
KnowsInstances ==
    /\ step = "none" => made = {}
    /\ step \in Deploying =>
          /\ model \notin broken => IdsOf(model) \subseteq made \cup {current}
          /\ SaysDeploying(model)
          /\ \A i \in instances : i.id \in made \cup {current} => i.model = model
    /\ step \in Forward \cup {"finishing", "undoing"} => model \notin broken
    /\ step \in Forward \cup {"finishing"} =>
          \A id \in made : \E i \in InstancesOf(model) : i.id = id /\ i.status = "running"
    /\ step = "waiting" => current \in IdsOf(model)

\* It makes as many as there are replicas, and launches no more.
CountsReplicas ==
    /\ step \in Forward => Cardinality(made) < Goal(plan[model])
    /\ step = "finishing" => Cardinality(made) = Goal(plan[model])
    /\ step \in {"allocating", "chosen", "flushed"} =>
          launches + Goal(plan[model]) - Cardinality(made) <= MaxLaunches
    /\ step \in {"launched", "waiting"} =>
          launches + Goal(plan[model]) - Cardinality(made) <= MaxLaunches + 1

\* The models that have no instance.
SaidToHaveNone(m) ==
    \/ modelStatus[m] = "offline" /\ m \notin byHand
    \/ modelStatus[m] = "error" /\ m \notin byHand \cup broken
    \/ ~ModelExists(m)

\* What DeployedOnce and StatusTellsInstances say, counted by ids.
Counted ==
    \A m \in Models :
        /\ Cardinality(IdsOf(m)) <= Goal(plan[m])
        /\ modelStatus[m] = "online" /\ m \notin byHand =>
              /\ Cardinality(IdsOf(m)) = Goal(plan[m])
              /\ \A i \in InstancesOf(m) : i.status = "running"
        /\ SaidToHaveNone(m) => IdsOf(m) = {}

\* A stop has in hand the marked rows of the instances it has visited, and the status it has
\* read is still the one of its model unless an administrator wrote it.
StopKnows ==
    step = "stopping" =>
        /\ known # "absent"
        /\ modelStatus[model] \in {known, "deleted"} \/ model \in byHand
        /\ \A i \in InstancesOf(model) : i.id \notin made => i.gpus \cap marked \subseteq freed

DeployInv ==
    /\ DeployTypeOK /\ IdsAreOwn /\ PortsAreOwn /\ KnowsInstances /\ CountsReplicas /\ Counted
    /\ StopKnows /\ MarksHaveOwners

-----------------------------------------------------------------------------
(* Operators *)

LEMMA IdsAreNumbers == Ids \subseteq Nat \ {0} /\ 0 \notin Ids
  BY DeploymentAssumption DEF Ids

\* A deployment makes at least one replica.
LEMMA GoalIsPositive ==
    ASSUME DeployTypeOK, NEW m \in Models PROVE Goal(plan[m]) \in Nat \ {0}
<1>1. plan[m] \in Setting
  BY DEF DeployTypeOK
<1>2. plan[m].replicas \in Int
  BY <1>1 DEF Setting
<1> QED BY <1>2 DEF Goal

\* Instances of a model can be counted by their ids.
LEMMA CountByIds ==
    ASSUME DeployTypeOK, IdsAreOwn, NEW m \in Models
    PROVE  /\ IsFiniteSet(IdsOf(m)) /\ Cardinality(IdsOf(m)) \in Nat
           /\ Cardinality(InstancesOf(m)) = Cardinality(IdsOf(m))
           /\ IdsOf(m) = {} <=> InstancesOf(m) = {}
<1>1. launches \in Nat /\ IdsOf(m) \subseteq 1 .. launches
  BY DeploymentAssumption DEF DeployTypeOK, IdsAreOwn, IdsOf, InstancesOf
<1>2. IsFiniteSet(IdsOf(m)) /\ Cardinality(IdsOf(m)) \in Nat
  <2>1. IsFiniteSet(1 .. launches)
    BY <1>1, FS_Interval
  <2> QED BY <1>1, <2>1, FS_Subset, FS_CardinalityType
<1>3. DEFINE f == [id \in IdsOf(m) |-> CHOOSE i \in InstancesOf(m) : i.id = id]
<1>4. \A id \in IdsOf(m) : f[id] \in InstancesOf(m) /\ f[id].id = id
  BY DEF IdsOf
<1>5. \A i \in InstancesOf(m) : i.id \in IdsOf(m) /\ f[i.id] = i
  BY <1>4 DEF IdsOf, IdsAreOwn, InstancesOf
<1> HIDE DEF f
<1>6. f \in [IdsOf(m) -> InstancesOf(m)]
  BY <1>4 DEF f
<1>7. f \in Bijection(IdsOf(m), InstancesOf(m))
  BY <1>4, <1>5, <1>6 DEF Bijection, Injection, Surjection, IsInjective
<1>8. Cardinality(InstancesOf(m)) = Cardinality(IdsOf(m))
  BY <1>2, <1>7, FS_Bijection DEF ExistsBijection
<1>9. IdsOf(m) = {} <=> InstancesOf(m) = {}
  BY DEF IdsOf
<1> QED BY <1>2, <1>8, <1>9

-----------------------------------------------------------------------------
(* The invariant at the start *)

LEMMA DeployInvInit == DeployInit => DeployInv
<1> SUFFICES ASSUME DeployInit PROVE DeployInv
  OBVIOUS
<1>1. DeployTypeOK
  <2>1. NoSetting \in Setting
    BY DEF NoSetting, Setting
  <2> QED BY <2>1, DeploymentAssumption DEF DeployInit, DeployTypeOK, NoAllocation
<1>2. IdsAreOwn /\ PortsAreOwn /\ KnowsInstances /\ CountsReplicas /\ StopKnows
  BY DEF DeployInit, IdsAreOwn, PortsAreOwn, KnowsInstances, CountsReplicas, StopKnows,
         Deploying, Forward
<1>3. Counted
  <2>1. \A m \in Models : IdsOf(m) = {} /\ InstancesOf(m) = {} /\ modelStatus[m] = "absent"
    BY DEF DeployInit, IdsOf, InstancesOf
  <2>2. Cardinality({}) = 0
    BY FS_EmptySet
  <2>3. \A m \in Models : Cardinality(IdsOf(m)) = 0
    BY <2>1, <2>2, Zenon
  <2>4. \A m \in Models : Goal(plan[m]) = 1
    BY DEF DeployInit, NoSetting, Goal
  <2> QED BY <2>1, <2>3, <2>4 DEF Counted
<1>4. MarksHaveOwners
  BY DEF DeployInit, MarksHaveOwners
<1> QED BY <1>1, <1>2, <1>3, <1>4 DEF DeployInv

-----------------------------------------------------------------------------
(* Steps around the operation: they touch no instance and no local of it. *)

Around == ModelStep \/ OtherStep \/ \E b \in boxes : BoxExits(b)

LEMMA AroundKeeps ==
    ASSUME Around
    PROVE  /\ UNCHANGED <<instances, locals, plan, broken, launches>>
           /\ byHand \subseteq byHand'
<1> USE DEF tables, others, locals, history, bounds
<1>1. CASE ModelStep
  <2>1. PICK m \in Models : CreateModel(m) \/ UpdateModel(m) \/ DeleteModel(m)
    BY <1>1 DEF ModelStep
  <2> QED BY <2>1 DEF CreateModel, UpdateModel, DeleteModel
<1>2. CASE OtherStep
  BY <1>2 DEF OtherStep, TaskTakes, TaskStarts, TaskEnds, TaskForgets, Silence, BuildPayload,
              Heartbeat
<1>3. ASSUME NEW b \in boxes, BoxExits(b)
      PROVE  UNCHANGED <<instances, locals, history, launches>>
  BY <1>3, Zenon DEF BoxExits
<1> QED BY <1>1, <1>2, <1>3 DEF Around

-----------------------------------------------------------------------------
(* Types *)

\* What Healthy makes of a row.
Started(i, c) == [i EXCEPT !.status = IF i.id = c THEN "running" ELSE @]

\* The containers and instances whose state an action replaces stay what they are.
LEMMA StateReplaced ==
    /\ \A b \in ModelBox : [b EXCEPT !.state = "exited"] \in ModelBox
    /\ \A i \in Instance : \A c \in 0 .. MaxLaunches :
          /\ Started(i, c) \in Instance
          /\ Started(i, c).status = IF i.id = c THEN "running" ELSE i.status
          /\ Started(i, c).id = i.id /\ Started(i, c).model = i.model
          /\ Started(i, c).node = i.node /\ Started(i, c).port = i.port
          /\ Started(i, c).gpus = i.gpus
  BY DEF ModelBox, Instance, Started

LEMMA HealthyStarts == ASSUME Healthy PROVE instances' = {Started(i, current) : i \in instances}
  BY Zenon DEF Healthy, Started

LEMMA AroundTypes == ASSUME DeployTypeOK, Around PROVE DeployTypeOK'
<1> USE DEF tables, others, locals, history, bounds
<1>1. ASSUME NEW m \in Models, CreateModel(m) PROVE DeployTypeOK'
  <2>1. settings' \in [Models -> Setting]
    BY <1>1, DeploymentAssumption DEF CreateModel, DeployTypeOK
  <2> QED BY <1>1, <2>1 DEF CreateModel, DeployTypeOK
<1>2. ASSUME NEW m \in Models, UpdateModel(m) PROVE DeployTypeOK'
  <2>1. settings' \in [Models -> Setting]
    BY <1>2, DeploymentAssumption DEF UpdateModel, DeployTypeOK
  <2>2. edits' \in 0 .. MaxEdits /\ byHand' \subseteq Models
    BY <1>2, DeploymentAssumption DEF UpdateModel, DeployTypeOK
  <2>3. modelStatus' \in [Models ->
           {"absent", "offline", "deploying", "online", "error", "deleted"} \cup Texts]
    BY <1>2 DEF UpdateModel, DeployTypeOK
  <2>4. UNCHANGED <<instances, gpuStatus, others, boxes, locals, plan, marked, broken, launches,
                    mishaps>>
    BY <1>2 DEF UpdateModel
  <2> QED BY <2>1, <2>2, <2>3, <2>4 DEF DeployTypeOK
<1>3. ASSUME NEW m \in Models, DeleteModel(m) PROVE DeployTypeOK'
  BY <1>3 DEF DeleteModel, DeployTypeOK
<1>4. ASSUME NEW n \in Shared, NEW rows \in SUBSET Gpus, TaskTakes(n, rows) PROVE DeployTypeOK'
  BY <1>4 DEF TaskTakes, Idle, DeployTypeOK
<1>5. ASSUME NEW rows \in SUBSET Gpus, TaskEnds(rows) \/ TaskForgets(rows) PROVE DeployTypeOK'
  BY <1>5 DEF TaskEnds, TaskForgets, Free, DeployTypeOK
<1>6. CASE TaskStarts
  BY <1>6 DEF TaskStarts, Mark, DeployTypeOK
<1>7. ASSUME NEW n \in Shared, Silence(n) \/ BuildPayload(n) PROVE DeployTypeOK'
  BY <1>7, DeploymentAssumption DEF Silence, BuildPayload, Free, ToRelease, DeployTypeOK
<1>8. ASSUME NEW n \in Shared, Heartbeat(n) PROVE DeployTypeOK'
  <2>1. gpuStatus' \in [Gpus -> {"idle", "allocated", "busy"}]
    BY <1>8 DEF Heartbeat, DeployTypeOK
  <2>2. marked' \subseteq marked
    BY <1>8 DEF Heartbeat
  <2>3. /\ online' = online \cup {n} /\ payloads' = payloads \ {n}
        /\ UNCHANGED <<modelStatus, settings, instances, taken, locked, held, boxes, locals, plan,
                       byHand, broken, bounds>>
    BY <1>8 DEF Heartbeat
  <2> QED BY <2>1, <2>2, <2>3, DeploymentAssumption DEF DeployTypeOK
<1>9. ASSUME NEW b \in boxes, BoxExits(b) PROVE DeployTypeOK'
  <2> DEFINE e == [b EXCEPT !.state = "exited"]
  <2>1. e \in ModelBox
    BY StateReplaced DEF DeployTypeOK
  <2>2. boxes' = (boxes \ {b}) \cup {e} /\ mishaps < MaxMishaps /\ mishaps' = mishaps + 1
    BY <1>9 DEF BoxExits, Mishap
  <2>3. UNCHANGED <<tables, others, locals, history, launches, edits>>
    BY <1>9, Zenon DEF BoxExits
  <2> HIDE DEF e
  <2>4. boxes' \subseteq ModelBox /\ mishaps' \in 0 .. MaxMishaps
    BY <2>1, <2>2, DeploymentAssumption DEF DeployTypeOK
  <2> QED BY <2>3, <2>4 DEF DeployTypeOK
<1> QED
  BY <1>1, <1>2, <1>3, <1>4, <1>5, <1>6, <1>7, <1>8, <1>9 DEF Around, ModelStep, OtherStep

\* A step that counts one more mishap counts no more than are allowed.
LEMMA MishapCounts ==
    ASSUME DeployTypeOK, NEW event, Mishap(event) PROVE mishaps' \in 0 .. MaxMishaps
  BY DeploymentAssumption DEF Mishap, DeployTypeOK

LEMMA RefusalTypes == ASSUME DeployTypeOK, Refusal PROVE DeployTypeOK'
<1> USE DEF tables, others, locals, history, bounds
<1>1. mishaps' \in 0 .. MaxMishaps
  BY MishapCounts DEF Refusal, WriteRefused, UndoRefused, MarkErrorRefused, StopRefused
<1>2. CASE WriteRefused
  BY <1>1, <1>2 DEF WriteRefused, Fail, DeployTypeOK
<1>3. CASE UndoRefused
  <2>1. model \in Models
    BY <1>3 DEF UndoRefused, DeployTypeOK
  <2> QED BY <1>1, <1>3, <2>1 DEF UndoRefused, Fail, DeployTypeOK
<1>4. CASE MarkErrorRefused
  <2>1. model \in Models
    BY <1>4 DEF MarkErrorRefused, DeployTypeOK
  <2> QED BY <1>1, <1>4, <2>1 DEF MarkErrorRefused, LeaveLock, DeployTypeOK
<1>5. CASE StopRefused
  BY <1>1, <1>5 DEF StopRefused, LeaveLock, DeployTypeOK
<1> QED BY <1>2, <1>3, <1>4, <1>5 DEF Refusal

LEMMA OperationTypes == ASSUME DeployTypeOK, OperationStep PROVE DeployTypeOK'
<1> USE DEF tables, others, locals, history, bounds
<1>1. ASSUME NEW n \in Nodes, NEW rows \in SUBSET Gpus, Choose(n, rows) PROVE DeployTypeOK'
  <2>1. PICK port \in Ports : alloc' = [node |-> n, gpus |-> rows, port |-> port]
    BY <1>1 DEF Choose
  <2>2. alloc' \in Allocation /\ alloc' # NoAllocation
    BY <2>1, DeploymentAssumption DEF Allocation, NoAllocation
  <2>3. seen' \subseteq Gpus
    BY <1>1 DEF Choose, Believed, Idle, DeployTypeOK
  <2> QED BY <1>1, <2>2, <2>3 DEF Choose, DeployTypeOK
<1>2. CASE NothingToChoose \/ InsertFails
  BY <1>2 DEF NothingToChoose, InsertFails, Fail, DeployTypeOK
<1>3. CASE Flush
  BY <1>3 DEF Flush, DeployTypeOK
<1>4. CASE InsertInstance
  <2>1. alloc \in Allocation /\ current \in Ids /\ model \in Models
    BY <1>4 DEF InsertInstance, DeployTypeOK, Ids
  <2>2. [id |-> current, model |-> model, node |-> alloc.node, gpus |-> alloc.gpus,
         port |-> alloc.port, status |-> "starting"] \in Instance
    BY <2>1 DEF Allocation, Instance
  <2>3. gpuStatus' \in [Gpus -> {"idle", "allocated", "busy"}] /\ marked' \subseteq Gpus
    BY <1>4, <2>1 DEF InsertInstance, Mark, DeployTypeOK, Allocation
  <2> QED BY <1>4, <2>2, <2>3 DEF InsertInstance, DeployTypeOK
<1>5. CASE Healthy
  <2>1. instances' \subseteq Instance
    BY <1>5, HealthyStarts, StateReplaced, DeploymentAssumption DEF DeployTypeOK, Ids
  <2>2. current \in Ids /\ step = "waiting" /\ made' = made \cup {current} /\ current' = 0
        /\ step' \in {"finishing", "allocating"}
        /\ UNCHANGED <<modelStatus, settings, gpuStatus, others, boxes, model, alloc, seen,
                        freed, known, history, bounds>>
    BY <1>5 DEF Healthy, DeployTypeOK
  <2> QED BY <2>1, <2>2 DEF DeployTypeOK
<1>6. CASE Unhealthy
  <2>1. mishaps' \in 0 .. MaxMishaps
    BY <1>6, MishapCounts DEF Unhealthy, DeployTypeOK
  <2> QED BY <1>6, <2>1 DEF Unhealthy, DeployTypeOK
<1>7. CASE Finish
  BY <1>7 DEF Finish, WriteStatus, LeaveLock, DeployTypeOK
<1>8. CASE UndoCommit
  <2>1. gpuStatus' \in [Gpus -> {"idle", "allocated", "busy"}]
    BY <1>8 DEF UndoCommit, Free, DeployTypeOK
  <2>2. instances' \subseteq instances /\ marked' \subseteq marked
    BY <1>8 DEF UndoCommit
  <2> QED BY <1>8, <2>1, <2>2 DEF UndoCommit, Fail, DeployTypeOK
<1>9. CASE MarkError
  <2>1. /\ modelStatus' \in {modelStatus, [modelStatus EXCEPT ![model] = "error"]}
        /\ byHand' \subseteq byHand
    BY <1>9 DEF MarkError, WriteStatus
  <2> QED BY <1>9, <2>1 DEF MarkError, LeaveLock, DeployTypeOK
<1>10. CASE StopOfDeleted
  BY <1>10 DEF StopOfDeleted, LeaveLock, DeployTypeOK
<1>11. CASE StopCommit
  <2>1. /\ modelStatus' \in {modelStatus, [modelStatus EXCEPT ![model] = "offline"]}
        /\ byHand' \subseteq byHand /\ gpuStatus' = Free(freed) /\ marked' = marked \ freed
        /\ instances' \subseteq instances /\ broken' = broken \ {model} /\ LeaveLock
        /\ UNCHANGED <<settings, others, boxes, plan, bounds>>
    BY <1>11 DEF StopCommit, WriteStatus
  <2> QED BY <2>1 DEF LeaveLock, Free, DeployTypeOK
<1> QED
  BY <1>1, <1>2, <1>3, <1>4, <1>5, <1>6, <1>7, <1>8, <1>9, <1>10, <1>11 DEF OperationStep

\* The instances made are finitely many.
LEMMA MadeIsFinite ==
    ASSUME DeployTypeOK PROVE IsFiniteSet(made) /\ Cardinality(made) \in Nat
<1>1. IsFiniteSet(1 .. MaxLaunches)
  BY DeploymentAssumption, FS_Interval
<1>2. made \in SUBSET (1 .. MaxLaunches)
  BY DEF DeployTypeOK, Ids
<1> QED BY <1>1, <1>2, FS_Subset, FS_CardinalityType

\* A launch about to be called is one of those DeployBegin counted.
LEMMA RoomToLaunch ==
    ASSUME DeployTypeOK, CountsReplicas, step = "flushed" PROVE launches + 1 \in Ids
<1>1. launches \in Nat /\ Goal(plan[model]) \in Nat /\ Cardinality(made) \in Nat
  BY MadeIsFinite, GoalIsPositive, DeploymentAssumption DEF DeployTypeOK
<1> QED BY <1>1, DeploymentAssumption DEF CountsReplicas, Forward, Ids

LEMMA AgentCallTypes ==
    ASSUME DeployTypeOK, CountsReplicas, AgentCall PROVE DeployTypeOK'
<1> USE DEF tables, others, locals, history, bounds
<1>1. ASSUME step = "flushed"
      PROVE  /\ launches + 1 \in Ids /\ launches + 1 \in 0 .. MaxLaunches
             /\ NewBox("up") \in ModelBox /\ NewBox("created") \in ModelBox
  <2>1. launches + 1 \in Ids /\ alloc \in Allocation /\ model \in Models
    BY <1>1, RoomToLaunch DEF DeployTypeOK
  <2>2. plan[model].port \in Nat
    BY <2>1 DEF DeployTypeOK, Setting
  <2> QED BY <2>1, <2>2, DeploymentAssumption DEF NewBox, ModelBox, Allocation, Ids
<1>2. CASE Launch
  <2>1. step = "flushed" /\ current' = launches + 1 /\ launches' = launches + 1
        /\ boxes' = boxes \cup {NewBox("up")} /\ step' = "launched"
    BY <1>2 DEF Launch
  <2>2. current' # 0
    BY <1>1, <2>1, IdsAreNumbers
  <2> QED BY <1>1, <1>2, <2>1, <2>2 DEF Launch, DeployTypeOK
<1>3. CASE LaunchFails
  <2>1. step = "flushed" /\ launches' = launches + 1 /\ Fail
        /\ UNCHANGED <<tables, others, history, edits>>
        /\ boxes' \subseteq boxes \cup {NewBox("up"), NewBox("created")}
    BY <1>3 DEF LaunchFails
  <2>2. mishaps' \in 0 .. MaxMishaps
    BY <1>3, MishapCounts DEF LaunchFails, DeployTypeOK
  <2> QED BY <1>1, <2>1, <2>2 DEF Fail, DeployTypeOK
<1>4. ASSUME NEW id \in Ids, UndoCall(id) PROVE DeployTypeOK'
  <2>1. id # 0
    BY IdsAreNumbers
  <2>2. mishaps' \in 0 .. MaxMishaps
    BY <1>4, MishapCounts DEF UndoCall, DeployTypeOK
  <2> QED BY <1>4, <2>1, <2>2 DEF UndoCall, DeployTypeOK
<1>5. ASSUME NEW i \in instances, StopCall(i) PROVE DeployTypeOK'
  BY <1>5 DEF StopCall, ToRelease, DeployTypeOK, Instance
<1>6. ASSUME NEW i \in instances, StopCallFails(i) PROVE DeployTypeOK'
  <2> DEFINE mine == {b \in boxes : b.id = i.id}
             ended == {[b EXCEPT !.state = "exited"] : b \in mine}
  <2>1. ended \subseteq ModelBox
    BY StateReplaced DEF DeployTypeOK
  <2>2. boxes' = boxes \/ boxes' = boxes \ mine \/ boxes' = (boxes \ mine) \cup ended
    BY <1>6, Zenon DEF StopCallFails
  <2>3. mishaps' = mishaps \/ Mishap("stop")
    BY <1>6, Zenon DEF StopCallFails
  <2>4. LeaveLock /\ UNCHANGED <<tables, others, history, launches, edits>>
    BY <1>6, Zenon DEF StopCallFails
  <2> HIDE DEF mine, ended
  <2>5. boxes' \subseteq ModelBox
    BY <2>1, <2>2 DEF DeployTypeOK
  <2>6. mishaps' \in 0 .. MaxMishaps
    BY <2>3, MishapCounts DEF DeployTypeOK
  <2> QED BY <2>4, <2>5, <2>6 DEF LeaveLock, DeployTypeOK
<1> QED BY <1>2, <1>3, <1>4, <1>5, <1>6 DEF AgentCall

LEMMA DeployTypeStep ==
    ASSUME DeployTypeOK, CountsReplicas, [DeployNext]_deployVars PROVE DeployTypeOK'
<1> USE DEF tables, others, locals, history, bounds
<1>1. CASE UNCHANGED deployVars
  BY <1>1 DEF deployVars, DeployTypeOK
<1>2. ASSUME NEW m \in Models, DeployBegin(m) PROVE DeployTypeOK'
  <2>1. plan' \in [Models -> Setting]
    BY <1>2 DEF DeployBegin, DeployTypeOK
  <2> QED BY <1>2, <2>1, DeploymentAssumption DEF DeployBegin, WriteStatus, DeployTypeOK
<1>3. ASSUME NEW m \in Models, StopBegin(m) PROVE DeployTypeOK'
  BY <1>3, DeploymentAssumption DEF StopBegin, InstancesOf, Instance, DeployTypeOK
<1>4. CASE ApiCrash
  <2>1. mishaps' \in 0 .. MaxMishaps
    BY <1>4, MishapCounts DEF ApiCrash
  <2>2. model \in Models \cup {None} /\ broken' \subseteq Models
    BY <1>4 DEF ApiCrash, DeployTypeOK
  <2> QED BY <1>4, <2>1, <2>2 DEF ApiCrash, LeaveLock, DeployTypeOK
<1>5. CASE Around
  BY <1>5, AroundTypes
<1>6. CASE OperationStep
  BY <1>6, OperationTypes
<1>7. CASE AgentCall
  BY <1>7, AgentCallTypes
<1>8. CASE Refusal
  BY <1>8, RefusalTypes
<1> QED
  BY <1>1, <1>2, <1>3, <1>4, <1>5, <1>6, <1>7, <1>8 DEF DeployNext, StepWithoutCrash, Around

-----------------------------------------------------------------------------
(* What the steps do to the instances and to what an operation has in hand *)

Quiet == NothingToChoose \/ Flush \/ InsertFails \/ Unhealthy \/ Finish \/ MarkError
         \/ StopOfDeleted \/ ApiCrash \/ Refusal

\* Steps that launch nothing, write no instance and count none.
LEMMA QuietKeeps ==
    ASSUME Quiet
    PROVE  /\ UNCHANGED <<instances, launches>>
           /\ made' \in {made, {}} /\ current' \in {current, 0}
           /\ step' \in {"failing", "flushed", "undoing", "none"}
           /\ step' = "flushed" => step = "chosen" /\ UNCHANGED <<model, alloc, made, plan>>
           /\ step' = "none" => made' = {}
<1> USE DEF tables, others, locals, history, bounds
<1>1. CASE NothingToChoose \/ InsertFails
  BY <1>1 DEF NothingToChoose, InsertFails, Fail
<1>2. CASE Flush \/ Unhealthy
  BY <1>2 DEF Flush, Unhealthy
<1>3. CASE Finish \/ MarkError \/ StopOfDeleted \/ ApiCrash
  BY <1>3 DEF Finish, MarkError, StopOfDeleted, ApiCrash, LeaveLock
<1>4. CASE WriteRefused \/ UndoRefused
  BY <1>4 DEF WriteRefused, UndoRefused, Fail
<1>5. CASE MarkErrorRefused \/ StopRefused
  BY <1>5 DEF MarkErrorRefused, StopRefused, LeaveLock
<1> QED BY <1>1, <1>2, <1>3, <1>4, <1>5 DEF Quiet, Refusal

\* A stop that fails leaves the lock and no trace in the tables.
LEMMA StopCallFailsKeeps ==
    ASSUME NEW i, StopCallFails(i)
    PROVE  /\ UNCHANGED <<tables, others, history, launches>>
           /\ step = "stopping" /\ step' = "none" /\ model' = None /\ made' = {} /\ current' = 0
           /\ freed' = {}
<1>1. step = "stopping" /\ LeaveLock /\ UNCHANGED <<tables, others, history, launches>>
  BY Zenon DEF StopCallFails
<1> QED BY <1>1 DEF LeaveLock

\* The instances of every model after Healthy, by what the invariant asks of them.
LEMMA HealthyKeepsIds ==
    ASSUME DeployTypeOK, Healthy
    PROVE  /\ \A i \in instances : \E j \in instances' : j = Started(i, current)
           /\ \A j \in instances' : \E i \in instances : j = Started(i, current)
           /\ \A m \in Models : IdsOf(m)' = IdsOf(m)
<1>1. instances' = {Started(i, current) : i \in instances}
  BY HealthyStarts
<1>2. \A i \in instances : Started(i, current).id = i.id /\ Started(i, current).model = i.model
  BY StateReplaced, DeploymentAssumption DEF DeployTypeOK, Ids
<1> QED BY <1>1, <1>2 DEF IdsOf, InstancesOf

\* How the steps that are left enter the case distinctions below.
LEMMA DeployCases ==
    ASSUME [DeployNext]_deployVars
    PROVE  \/ UNCHANGED deployVars \/ Around \/ Quiet
           \/ \E m \in Models : DeployBegin(m) \/ StopBegin(m)
           \/ \E n \in Nodes : \E g \in SUBSET Gpus : Choose(n, g)
           \/ Launch \/ LaunchFails \/ InsertInstance \/ Healthy
           \/ (\E id \in Ids : UndoCall(id)) \/ UndoCommit
           \/ (\E i \in instances : StopCall(i) \/ StopCallFails(i)) \/ StopCommit
  BY DEF DeployNext, StepWithoutCrash, OperationStep, AgentCall, Around, Quiet

-----------------------------------------------------------------------------
(* Ids and ports *)

LEMMA IdsStep ==
    ASSUME DeployTypeOK, IdsAreOwn, [DeployNext]_deployVars PROVE IdsAreOwn'
<1> USE DEF tables, others, locals, history, bounds
<1>0. launches \in Nat
  BY DeploymentAssumption DEF DeployTypeOK
<1>1. CASE UNCHANGED <<instances, step, made, current, launches>>
  BY <1>1 DEF IdsAreOwn
<1>2. CASE /\ UNCHANGED <<instances, launches>> /\ made' \subseteq made
           /\ current' \in made \cup {current, 0}
           /\ step' \notin {"launched", "waiting"}
  BY <1>0, <1>2 DEF IdsAreOwn
<1>3. ASSUME NEW m \in Models, DeployBegin(m) PROVE IdsAreOwn'
  BY <1>2, <1>3 DEF DeployBegin
<1>4. ASSUME NEW m \in Models, StopBegin(m) PROVE IdsAreOwn'
  BY <1>4 DEF StopBegin, InstancesOf, IdsAreOwn
<1>5. ASSUME NEW n \in Nodes, NEW g \in SUBSET Gpus, Choose(n, g) PROVE IdsAreOwn'
  BY <1>2, <1>5 DEF Choose
<1>6. CASE Launch
  <2>1. /\ step' = "launched" /\ current' = launches + 1 /\ launches' = launches + 1
        /\ UNCHANGED <<instances, made>>
    BY <1>6 DEF Launch
  <2> QED BY <1>0, <2>1 DEF IdsAreOwn
<1>7. CASE LaunchFails
  <2>1. /\ step' = "failing" /\ current' = 0 /\ launches' = launches + 1
        /\ UNCHANGED <<instances, made>>
    BY <1>7 DEF LaunchFails, Fail
  <2> QED BY <1>0, <2>1 DEF IdsAreOwn
<1>8. CASE InsertInstance
  <2> DEFINE new == [id |-> current, model |-> model, node |-> alloc.node, gpus |-> alloc.gpus,
                     port |-> alloc.port, status |-> "starting"]
  <2>1. /\ instances' = instances \cup {new} /\ step = "launched" /\ step' = "waiting"
        /\ UNCHANGED <<made, current, launches>>
    BY <1>8 DEF InsertInstance
  <2>2. new.id = current /\ current \in 1 .. launches
    BY <1>0, <2>1 DEF IdsAreOwn, DeployTypeOK
  <2> HIDE DEF new
  <2> QED BY <2>1, <2>2 DEF IdsAreOwn
<1>9. CASE Healthy
  <2>1. /\ step = "waiting" /\ step' \in {"finishing", "allocating"}
        /\ made' = made \cup {current} /\ current' = 0 /\ launches' = launches
    BY <1>9 DEF Healthy
  <2>2. current \in 1 .. launches
    BY <1>0, <2>1 DEF IdsAreOwn, DeployTypeOK
  <2>3. \A i \in instances : Started(i, current).id = i.id
    BY StateReplaced, DeploymentAssumption DEF DeployTypeOK, Ids
  <2> QED BY <1>0, <1>9, <2>1, <2>2, <2>3, HealthyKeepsIds DEF IdsAreOwn
<1>10. ASSUME NEW id \in Ids, UndoCall(id) PROVE IdsAreOwn'
  <2>1. /\ UNCHANGED <<instances, launches>> /\ made' \subseteq made /\ current' = id
        /\ id = current \/ id \in made
        /\ step' = "undone"
    BY <1>10 DEF UndoCall
  <2> QED BY <1>2, <2>1
<1>11. CASE UndoCommit
  <2>1. /\ instances' \subseteq instances /\ UNCHANGED <<made, launches>> /\ current' = 0
        /\ step' = "failing"
    BY <1>11 DEF UndoCommit, Fail
  <2> QED BY <1>0, <2>1 DEF IdsAreOwn
<1>12. ASSUME NEW i \in instances, StopCall(i) PROVE IdsAreOwn'
  BY <1>2, <1>12 DEF StopCall
<1>13. ASSUME NEW i \in instances, StopCallFails(i) PROVE IdsAreOwn'
  BY <1>2, <1>13, StopCallFailsKeeps
<1>14. CASE StopCommit
  <2>1. /\ instances' \subseteq instances /\ launches' = launches /\ made' = {} /\ current' = 0
        /\ step' = "none"
    BY <1>14 DEF StopCommit, LeaveLock
  <2> QED BY <1>0, <2>1 DEF IdsAreOwn
<1>15. CASE Quiet
  BY <1>2, <1>15, QuietKeeps
<1>16. CASE UNCHANGED deployVars \/ Around
  BY <1>1, <1>16, AroundKeeps DEF deployVars
<1> QED
  BY <1>3, <1>4, <1>5, <1>6, <1>7, <1>8, <1>9, <1>10, <1>11, <1>12, <1>13, <1>14, <1>15, <1>16,
     DeployCases

LEMMA PortsStep ==
    ASSUME DeployTypeOK, PortsAreOwn, [DeployNext]_deployVars PROVE PortsAreOwn'
<1> USE DEF tables, others, locals, history, bounds
<1>1. CASE UNCHANGED <<instances, step, alloc>>
  BY <1>1 DEF PortsAreOwn
<1>2. CASE instances' \subseteq instances /\ step' \notin {"chosen", "flushed", "launched"}
  BY <1>2 DEF PortsAreOwn
<1>3. CASE /\ UNCHANGED <<instances, alloc>> /\ step' \in {"flushed", "launched"}
           /\ step \in {"chosen", "flushed"}
  BY <1>3 DEF PortsAreOwn
<1>4. ASSUME NEW m \in Models, DeployBegin(m) \/ StopBegin(m) PROVE PortsAreOwn'
  BY <1>2, <1>4 DEF DeployBegin, StopBegin
<1>5. ASSUME NEW n \in Nodes, NEW g \in SUBSET Gpus, Choose(n, g) PROVE PortsAreOwn'
  <2>1. PICK port \in Ports :
          NextHostPort(n, port) /\ alloc' = [node |-> n, gpus |-> g, port |-> port]
    BY <1>5 DEF Choose
  <2>2. alloc'.node = n /\ alloc'.port = port /\ instances' = instances
    BY <1>5, <2>1 DEF Choose
  <2> QED BY <2>1, <2>2 DEF NextHostPort, PortsAreOwn
<1>6. CASE Launch
  BY <1>3, <1>6 DEF Launch
<1>7. CASE LaunchFails
  BY <1>2, <1>7 DEF LaunchFails, Fail
<1>8. CASE InsertInstance
  <2> DEFINE new == [id |-> current, model |-> model, node |-> alloc.node, gpus |-> alloc.gpus,
                     port |-> alloc.port, status |-> "starting"]
  <2>1. instances' = instances \cup {new} /\ step = "launched" /\ step' = "waiting"
    BY <1>8 DEF InsertInstance
  <2>2. new.node = alloc.node /\ new.port = alloc.port
    OBVIOUS
  <2> HIDE DEF new
  <2> QED BY <2>1, <2>2 DEF PortsAreOwn
<1>9. CASE Healthy
  <2>1. step' \in {"finishing", "allocating"}
    BY <1>9 DEF Healthy
  <2>2. \A i \in instances :
            Started(i, current).node = i.node /\ Started(i, current).port = i.port
    BY StateReplaced, DeploymentAssumption DEF DeployTypeOK, Ids
  <2> QED BY <1>9, <2>1, <2>2, HealthyKeepsIds DEF PortsAreOwn
<1>10. ASSUME NEW id \in Ids, UndoCall(id) PROVE PortsAreOwn'
  BY <1>2, <1>10 DEF UndoCall
<1>11. CASE UndoCommit \/ StopCommit
  BY <1>2, <1>11 DEF UndoCommit, StopCommit, Fail, LeaveLock
<1>12. ASSUME NEW i \in instances, StopCall(i) \/ StopCallFails(i) PROVE PortsAreOwn'
  <2>1. StopCall(i) => instances' = instances /\ step' = "stopping"
    BY DEF StopCall
  <2> QED BY <1>2, <1>12, <2>1, StopCallFailsKeeps
<1>13. CASE Quiet
  BY <1>2, <1>3, <1>13, QuietKeeps
<1>14. CASE UNCHANGED deployVars \/ Around
  BY <1>1, <1>14, AroundKeeps DEF deployVars
<1> QED
  BY <1>4, <1>5, <1>6, <1>7, <1>8, <1>9, <1>10, <1>11, <1>12, <1>13, <1>14, DeployCases

-----------------------------------------------------------------------------
(* What a deployment knows and counts *)

\* The status a deployment has written stays until it ends, or an administrator writes.
LEMMA AroundKeepsStatus ==
    ASSUME DeployTypeOK, Around, NEW m \in Models
    PROVE  /\ modelStatus'[m] = modelStatus[m] \/ m \in byHand' \/ modelStatus'[m] = "deleted"
              \/ (modelStatus[m] = "absent" /\ modelStatus'[m] = "offline")
           /\ modelStatus[m] = "deleted" => modelStatus'[m] = "deleted"
<1> USE DEF tables
<1>1. CASE ModelStep
  <2>1. PICK x \in Models : CreateModel(x) \/ UpdateModel(x) \/ DeleteModel(x)
    BY <1>1 DEF ModelStep
  <2>2. CASE CreateModel(x)
    BY <2>2 DEF CreateModel, DeployTypeOK
  <2>3. CASE UpdateModel(x)
    BY <2>3 DEF UpdateModel, ModelExists, DeployTypeOK
  <2>4. CASE DeleteModel(x)
    BY <2>4 DEF DeleteModel, ModelExists, DeployTypeOK
  <2> QED BY <2>1, <2>2, <2>3, <2>4
<1>2. CASE OtherStep
  <2>1. modelStatus' = modelStatus
    BY <1>2 DEF OtherStep, TaskTakes, TaskStarts, TaskEnds, TaskForgets, Silence, BuildPayload,
                Heartbeat
  <2> QED BY <2>1
<1>3. ASSUME NEW b \in boxes, BoxExits(b) PROVE modelStatus' = modelStatus
  BY <1>3, Zenon DEF BoxExits
<1> QED BY <1>1, <1>2, <1>3 DEF Around

LEMMA KnowsStep ==
    ASSUME DeployTypeOK, IdsAreOwn, KnowsInstances, [DeployNext]_deployVars PROVE KnowsInstances'
<1> USE DEF tables, others, locals, history, bounds, Deploying, Forward
<1>1. CASE UNCHANGED deployVars
  BY <1>1 DEF deployVars, KnowsInstances, SaysDeploying, IdsOf, InstancesOf
<1>2. CASE step' \in {"none", "stopping"} /\ (step' = "none" => made' = {})
  BY <1>2 DEF KnowsInstances
<1>3. CASE Around
  <2>1. UNCHANGED <<instances, step, model, made, current, broken>> /\ byHand \subseteq byHand'
    BY <1>3, AroundKeeps
  <2>2. step \in Deploying => model \in Models
    BY DEF DeployTypeOK
  <2>3. step \in Deploying => SaysDeploying(model)'
    BY <1>3, <2>1, <2>2, AroundKeepsStatus DEF KnowsInstances, SaysDeploying
  <2>4. IdsOf(model)' = IdsOf(model) /\ InstancesOf(model)' = InstancesOf(model)
    BY <2>1 DEF IdsOf, InstancesOf
  <2>5. CASE step \notin Deploying
    BY <2>1, <2>4, <2>5 DEF KnowsInstances
  <2>6. CASE step \in Deploying
    BY <2>1, <2>3, <2>4, <2>6 DEF KnowsInstances
  <2> QED BY <2>5, <2>6
<1>4. ASSUME NEW m \in Models, DeployBegin(m) PROVE KnowsInstances'
  <2>1. /\ made = {} /\ made' = {} /\ model' = m /\ step' = "allocating"
        /\ SaysDeploying(m)' /\ m \notin broken' /\ instances' = instances
    BY <1>4 DEF DeployBegin, WriteStatus, SaysDeploying, KnowsInstances, DeployTypeOK
  <2>2. InstancesOf(m) = {}
    BY <1>4 DEF DeployBegin, InstancesOf, DeployTypeOK, Instance
  <2>3. current' = 0 /\ \A i \in instances : i.id # 0
    BY <1>4 DEF DeployBegin, DeployTypeOK, IdsAreOwn
  <2>4. IdsOf(m)' = {}
    BY <2>1, <2>2 DEF IdsOf, InstancesOf
  <2> QED BY <2>1, <2>3, <2>4 DEF KnowsInstances, SaysDeploying
<1>5. ASSUME NEW m \in Models, StopBegin(m) PROVE KnowsInstances'
  BY <1>2, <1>5 DEF StopBegin
<1>6. ASSUME NEW n \in Nodes, NEW g \in SUBSET Gpus, Choose(n, g) PROVE KnowsInstances'
  BY <1>6 DEF Choose, KnowsInstances, SaysDeploying, IdsOf, InstancesOf
<1>7. CASE Flush
  BY <1>7 DEF Flush, KnowsInstances, SaysDeploying, IdsOf, InstancesOf
<1>8. CASE Launch
  <2>1. step = "flushed" /\ step' = "launched"
        /\ UNCHANGED <<modelStatus, byHand, broken, instances, model, made>>
    BY <1>8 DEF Launch
  <2>2. current = 0
    BY <2>1 DEF DeployTypeOK
  <2>3. IdsOf(model) \subseteq made
    BY <2>1, <2>2 DEF KnowsInstances, IdsAreOwn, IdsOf, InstancesOf
  <2>4. \A i \in instances : i.id # current'
    BY <1>8, DeploymentAssumption DEF Launch, IdsAreOwn, DeployTypeOK
  <2> QED BY <2>1, <2>3, <2>4 DEF KnowsInstances, SaysDeploying, IdsOf, InstancesOf
<1>9. CASE LaunchFails \/ NothingToChoose
  <2>1. step \in {"flushed", "allocating"} /\ step' = "failing" /\ current' = 0
        /\ UNCHANGED <<modelStatus, byHand, broken, instances, model, made>>
    BY <1>9 DEF LaunchFails, NothingToChoose, Fail
  <2>2. current = 0
    BY <2>1 DEF DeployTypeOK
  <2>3. UNCHANGED <<instances, model, made, current>>
    BY <2>1, <2>2
  <2> QED BY <2>1, <2>3 DEF KnowsInstances, SaysDeploying, IdsOf, InstancesOf
<1>10. CASE InsertInstance
  <2> DEFINE new == [id |-> current, model |-> model, node |-> alloc.node, gpus |-> alloc.gpus,
                     port |-> alloc.port, status |-> "starting"]
  <2>1. /\ instances' = instances \cup {new} /\ step = "launched" /\ step' = "waiting"
        /\ UNCHANGED <<modelStatus, byHand, broken, model, made, current>>
    BY <1>10 DEF InsertInstance
  <2>2. new.id = current /\ new.model = model
    OBVIOUS
  <2> HIDE DEF new
  <2>3. IdsOf(model)' = IdsOf(model) \cup {current}
    BY <2>1, <2>2 DEF IdsOf, InstancesOf
  <2>4. \A i \in instances' : i.id \in made' \cup {current'} => i.model = model'
    BY <2>1, <2>2 DEF KnowsInstances
  <2>5. \A id \in made' : \E i \in InstancesOf(model)' : i.id = id /\ i.status = "running"
    BY <2>1 DEF KnowsInstances, InstancesOf
  <2>6. IdsOf(model)' \subseteq made' \cup {current'} /\ SaysDeploying(model)'
    BY <2>1, <2>3 DEF KnowsInstances, SaysDeploying
  <2>7. current' \in IdsOf(model)'
    BY <2>1, <2>3
  <2> QED BY <2>1, <2>4, <2>5, <2>6, <2>7 DEF KnowsInstances
<1>11. CASE InsertFails \/ WriteRefused
  <2>1. /\ step \in {"chosen", "launched", "finishing"} /\ step' = "failing" /\ current' = 0
        /\ UNCHANGED <<modelStatus, byHand, broken, instances, model, made>>
    BY <1>11 DEF InsertFails, WriteRefused, Fail
  <2>2. \A i \in instances : i.id # current /\ i.id # 0
    BY <2>1 DEF IdsAreOwn, DeployTypeOK
  <2>3. IdsOf(model) \subseteq made
    BY <2>1, <2>2 DEF KnowsInstances, IdsOf, InstancesOf
  <2>4. \A i \in instances : i.id \in made => i.model = model
    BY <2>1 DEF KnowsInstances
  <2> QED BY <2>1, <2>2, <2>3, <2>4 DEF KnowsInstances, SaysDeploying, IdsOf, InstancesOf
<1>12. CASE Healthy
  <2>1. /\ step = "waiting" /\ step' \in {"finishing", "allocating"} /\ model \in Models
        /\ made' = made \cup {current} /\ current' = 0 /\ current \in 0 .. MaxLaunches
        /\ UNCHANGED <<modelStatus, byHand, broken, model>>
    BY <1>12, DeploymentAssumption DEF Healthy, DeployTypeOK, Ids
  <2>2. IdsOf(model)' \subseteq made \cup {current}
    BY <1>12, <2>1, HealthyKeepsIds DEF KnowsInstances
  <2>3. \A i \in instances :
            /\ Started(i, current).id = i.id /\ Started(i, current).model = i.model
            /\ Started(i, current).status = IF i.id = current THEN "running" ELSE i.status
    BY <1>12, <2>1, StateReplaced DEF Healthy, DeployTypeOK
  <2>4. \A id \in made : \E j \in InstancesOf(model)' : j.id = id /\ j.status = "running"
    BY <1>12, <2>1, <2>3, HealthyKeepsIds DEF KnowsInstances, InstancesOf
  <2>5. \E j \in InstancesOf(model)' : j.id = current /\ j.status = "running"
    <3>1. \E i \in InstancesOf(model) : i.id = current
      BY <2>1 DEF KnowsInstances, IdsOf
    <3> QED BY <1>12, <2>1, <2>3, <3>1, HealthyKeepsIds DEF InstancesOf
  <2>6. \A i \in instances : i.id # 0 /\ (i.id \in made \cup {current} => i.model = model)
    BY <2>1 DEF KnowsInstances, IdsAreOwn
  <2>7. \A j \in instances' : j.id \in made' \cup {current'} => j.model = model'
    <3>1. ASSUME NEW j \in instances', j.id \in made' \cup {current'} PROVE j.model = model'
      <4>1. PICK i \in instances : j = Started(i, current)
        BY <1>12, HealthyKeepsIds
      <4>2. j.id = i.id /\ j.model = i.model
        BY <2>3, <4>1
      <4> QED BY <2>1, <2>6, <3>1, <4>2
    <3> QED BY <3>1
  <2>8. IdsOf(model)' \subseteq made' \cup {current'} /\ SaysDeploying(model)'
        /\ model \notin broken'
    BY <2>1, <2>2 DEF KnowsInstances, SaysDeploying
  <2>9. \A id \in made' : \E j \in InstancesOf(model)' : j.id = id /\ j.status = "running"
    BY <2>1, <2>4, <2>5
  <2> QED BY <2>1, <2>7, <2>8, <2>9 DEF KnowsInstances
<1>13. CASE Unhealthy
  BY <1>13 DEF Unhealthy, KnowsInstances, SaysDeploying, IdsOf, InstancesOf
<1>14. ASSUME NEW id \in Ids, UndoCall(id) PROVE KnowsInstances'
  <2>1. /\ step' = "undone" /\ current' = id /\ made' = made \ {id}
        /\ (step = "undoing" /\ id = current) \/ (step = "failing" /\ id \in made)
        /\ UNCHANGED <<modelStatus, byHand, broken, instances, model>>
    BY <1>14 DEF UndoCall
  <2>2. step = "failing" => current = 0
    BY DEF DeployTypeOK
  <2>3. 0 \notin IdsOf(model)
    BY DEF IdsAreOwn, IdsOf, InstancesOf
  <2>4. model \notin broken => IdsOf(model) \subseteq made' \cup {current'}
    BY <2>1, <2>2, <2>3 DEF KnowsInstances
  <2> QED BY <2>1, <2>4 DEF KnowsInstances, SaysDeploying, IdsOf, InstancesOf
<1>15. CASE UndoCommit
  <2>1. PICK i \in instances : i.id = current /\ instances' = instances \ {i}
    BY <1>15 DEF UndoCommit
  <2>2. /\ step = "undone" /\ step' = "failing" /\ current' = 0
        /\ UNCHANGED <<modelStatus, byHand, broken, model, made>>
    BY <1>15 DEF UndoCommit, Fail
  <2>3. IdsOf(model)' \subseteq IdsOf(model) \ {current}
    BY <2>1, <2>2 DEF IdsOf, InstancesOf, IdsAreOwn
  <2>4. \A j \in instances' : j.id # 0 /\ (j.id \in made => j.model = model)
    BY <2>1, <2>2 DEF KnowsInstances, IdsAreOwn
  <2>5. /\ model \notin broken => IdsOf(model)' \subseteq made' \cup {current'}
        /\ SaysDeploying(model)'
    BY <2>2, <2>3 DEF KnowsInstances, SaysDeploying
  <2> QED BY <2>2, <2>4, <2>5 DEF KnowsInstances
<1>16. CASE Finish \/ MarkError \/ MarkErrorRefused \/ StopRefused \/ StopOfDeleted \/ ApiCrash
  BY <1>2, <1>16
  DEF Finish, MarkError, MarkErrorRefused, StopRefused, StopOfDeleted, ApiCrash, LeaveLock
<1>17. CASE StopCommit
  BY <1>2, <1>17 DEF StopCommit, LeaveLock
<1>18. ASSUME NEW i \in instances, StopCall(i) \/ StopCallFails(i) PROVE KnowsInstances'
  <2>1. StopCall(i) => step' = "stopping"
    BY DEF StopCall
  <2> QED BY <1>2, <1>18, <2>1, StopCallFailsKeeps
<1>19. CASE UndoRefused
  <2>1. /\ step = "undone" /\ step' = "failing" /\ current' = 0 /\ model \in broken'
        /\ UNCHANGED <<modelStatus, byHand, instances, model, made>>
    BY <1>19 DEF UndoRefused, Fail
  <2>2. \A i \in instances : i.id # 0
    BY DEF IdsAreOwn
  <2> QED BY <2>1, <2>2 DEF KnowsInstances, SaysDeploying
<1> QED
  BY <1>1, <1>3, <1>4, <1>5, <1>6, <1>7, <1>8, <1>9, <1>10, <1>11, <1>12, <1>13, <1>14, <1>15,
     <1>16, <1>17, <1>18, <1>19, DeployCases DEF Quiet, Refusal

LEMMA CountsStep ==
    ASSUME DeployTypeOK, IdsAreOwn, KnowsInstances, CountsReplicas, [DeployNext]_deployVars
    PROVE  CountsReplicas'
<1> USE DEF tables, others, locals, history, bounds, Forward
<1>0. launches \in Nat /\ MaxLaunches \in Nat /\ Cardinality(made) \in Nat
      /\ \A m \in Models : Goal(plan[m]) \in Nat \ {0}
  BY MadeIsFinite, GoalIsPositive, DeploymentAssumption DEF DeployTypeOK
<1>1. CASE UNCHANGED <<step, model, made, launches, plan>>
  BY <1>1 DEF CountsReplicas
<1>2. CASE step' \in {"none", "stopping", "failing", "undoing", "undone"}
  BY <1>2 DEF CountsReplicas
<1>3. ASSUME NEW m \in Models, DeployBegin(m) PROVE CountsReplicas'
  <2>1. /\ made = {} /\ made' = made /\ model' = m /\ step' = "allocating"
        /\ launches + Goal(plan'[m]) <= MaxLaunches /\ launches' = launches
        /\ Goal(plan'[m]) \in Nat \ {0}
    <3>1. plan'[m] = settings[m] /\ settings[m] \in Setting
      BY <1>3 DEF DeployBegin, DeployTypeOK
    <3>2. Goal(settings[m]) \in Nat \ {0}
      BY <3>1 DEF Setting, Goal
    <3> QED BY <1>3, <3>1, <3>2, Zenon DEF DeployBegin, KnowsInstances
  <2>2. Cardinality(made) = 0
    <3>1. Cardinality({}) = 0
      BY FS_EmptySet
    <3> QED BY <2>1, <3>1, Zenon
  <2>3. Goal(plan[model])' = Goal(plan'[m])
    BY <2>1, Zenon
  <2> QED BY <1>0, <2>1, <2>2, <2>3 DEF CountsReplicas
<1>4. ASSUME NEW n \in Nodes, NEW g \in SUBSET Gpus, Choose(n, g) PROVE CountsReplicas'
  BY <1>4 DEF Choose, CountsReplicas
<1>5. CASE /\ step = "chosen" /\ step' = "flushed" /\ UNCHANGED <<model, made, launches, plan>>
  BY <1>5 DEF CountsReplicas
<1>6. CASE Launch
  <2>1. /\ step = "flushed" /\ step' = "launched" /\ launches' = launches + 1
        /\ UNCHANGED <<model, made, plan>> /\ model \in Models
    BY <1>6 DEF Launch, DeployTypeOK
  <2> QED BY <1>0, <2>1 DEF CountsReplicas
<1>7. CASE InsertInstance
  BY <1>7 DEF InsertInstance, CountsReplicas
<1>8. CASE Healthy
  <2>1. /\ step = "waiting" /\ made' = made \cup {current} /\ model' = model
        /\ UNCHANGED <<launches, plan>> /\ model \in Models
        /\ step' = IF Cardinality(made') = Goal(plan[model]) THEN "finishing" ELSE "allocating"
    BY <1>8 DEF Healthy, DeployTypeOK
  <2>2. Cardinality(made') = Cardinality(made) + 1
    <3>1. current \notin made
      BY <2>1 DEF IdsAreOwn
    <3>2. Cardinality(made \cup {current}) = Cardinality(made) + 1
      BY <3>1, MadeIsFinite, FS_AddElement
    <3> QED BY <2>1, <3>2, Zenon
  <2>3. Cardinality(made) < Goal(plan[model])
        /\ launches + Goal(plan[model]) - Cardinality(made) <= MaxLaunches + 1
    BY <2>1 DEF CountsReplicas
  <2> QED BY <1>0, <2>1, <2>2, <2>3 DEF CountsReplicas
<1>9. CASE Quiet
  BY <1>2, <1>5, <1>9, QuietKeeps
<1>10. ASSUME NEW i \in instances, StopCall(i) \/ StopCallFails(i) PROVE CountsReplicas'
  <2>1. StopCall(i) => step' = "stopping"
    BY DEF StopCall
  <2> QED BY <1>2, <1>10, <2>1, StopCallFailsKeeps
<1>11. CASE LaunchFails \/ UndoCommit \/ StopCommit
  BY <1>2, <1>11 DEF LaunchFails, UndoCommit, StopCommit, Fail, LeaveLock
<1>12. ASSUME NEW id \in Ids, UndoCall(id) PROVE CountsReplicas'
  BY <1>2, <1>12 DEF UndoCall
<1>13. ASSUME NEW m \in Models, StopBegin(m) PROVE CountsReplicas'
  BY <1>2, <1>13 DEF StopBegin
<1>14. CASE UNCHANGED deployVars \/ Around
  BY <1>1, <1>14, AroundKeeps DEF deployVars
<1> QED
  BY <1>3, <1>4, <1>6, <1>7, <1>8, <1>9, <1>10, <1>11, <1>12, <1>13, <1>14, DeployCases

\* A model keeps what Counted says if its ids become fewer and it is neither said to be
\* online, nor to have none, without reason.
LEMMA CountedShrinks ==
    ASSUME DeployTypeOK, IdsAreOwn, Counted, NEW m \in Models, IdsOf(m)' \subseteq IdsOf(m)
    PROVE  Cardinality(IdsOf(m)') <= Goal(plan[m])
<1>1. IsFiniteSet(IdsOf(m)) /\ Cardinality(IdsOf(m)) \in Nat
  BY CountByIds
<1>2. IsFiniteSet(IdsOf(m)') /\ Cardinality(IdsOf(m)') <= Cardinality(IdsOf(m))
  BY <1>1, FS_Subset
<1>3. Cardinality(IdsOf(m)') \in Nat
  BY <1>2, FS_CardinalityType
<1>4. Goal(plan[m]) \in Nat
  BY GoalIsPositive
<1> QED BY <1>1, <1>2, <1>3, <1>4 DEF Counted

LEMMA CountedStep ==
    ASSUME DeployTypeOK, IdsAreOwn, KnowsInstances, CountsReplicas, Counted, StopKnows,
           [DeployNext]_deployVars
    PROVE  Counted'
<1> USE DEF tables, others, locals, history, bounds, Deploying, Forward
\* What is said of a model may become less, and what was said stays true.
<1>1. ASSUME UNCHANGED <<instances, plan>>,
             \A m \in Models : SaidToHaveNone(m)' => IdsOf(m) = {},
             \A m \in Models : modelStatus'[m] = "online" /\ m \notin byHand' =>
                 modelStatus[m] = "online" /\ m \notin byHand
      PROVE  Counted'
  <2>1. \A m \in Models : InstancesOf(m)' = InstancesOf(m) /\ IdsOf(m)' = IdsOf(m)
    BY <1>1 DEF IdsOf, InstancesOf
  <2>2. \A m \in Models : Cardinality(IdsOf(m))' = Cardinality(IdsOf(m))
    BY <2>1, Zenon
  <2>3. \A m \in Models : Goal(plan[m])' = Goal(plan[m])
    BY <1>1, Zenon
  <2> QED BY <1>1, <2>1, <2>2, <2>3 DEF Counted
\* An operation may be cut off without a word.
<1>2. ASSUME UNCHANGED <<modelStatus, instances, plan, byHand>>, broken \subseteq broken'
      PROVE  Counted'
  <2>1. \A m \in Models : SaidToHaveNone(m)' => SaidToHaveNone(m)
    BY <1>2 DEF SaidToHaveNone, ModelExists
  <2> QED BY <1>1, <1>2, <2>1 DEF Counted
<1>3. CASE Around
  <2>1. UNCHANGED <<instances, plan, broken>> /\ byHand \subseteq byHand'
    BY <1>3, AroundKeeps
  <2>2. CASE OtherStep \/ \E b \in boxes : BoxExits(b)
    <3>1. OtherStep => UNCHANGED <<modelStatus, byHand>>
      BY DEF OtherStep, TaskTakes, TaskStarts, TaskEnds, TaskForgets, Silence, BuildPayload,
             Heartbeat
    <3>2. (\E b \in boxes : BoxExits(b)) => UNCHANGED <<modelStatus, byHand>>
      BY Zenon DEF BoxExits
    <3> QED BY <1>2, <2>1, <2>2, <3>1, <3>2
  <2>3. CASE ModelStep
    <3>1. PICK m \in Models : CreateModel(m) \/ UpdateModel(m) \/ DeleteModel(m)
      BY <2>3 DEF ModelStep
    <3>2. /\ \A x \in Models \ {m} : modelStatus'[x] = modelStatus[x]
          /\ \/ modelStatus[m] = "absent" /\ modelStatus'[m] = "offline"
             \/ modelStatus'[m] = modelStatus[m]
             \/ m \in byHand' /\ modelStatus'[m] \notin {"absent", "deleted"}
             \/ modelStatus'[m] = "deleted" /\ InstancesOf(m) = {}
      <4>1. CASE CreateModel(m)
        BY <4>1 DEF CreateModel, DeployTypeOK
      <4>2. CASE UpdateModel(m)
        BY <4>2, DeploymentAssumption DEF UpdateModel, ModelExists, DeployTypeOK
      <4>3. CASE DeleteModel(m)
        BY <4>3 DEF DeleteModel, DeployTypeOK
      <4> QED BY <3>1, <4>1, <4>2, <4>3
    <3>3. modelStatus[m] = "absent" => IdsOf(m) = {}
      BY DEF Counted, SaidToHaveNone, ModelExists
    <3>4. InstancesOf(m) = {} => IdsOf(m) = {}
      BY DEF IdsOf
    <3>5. \A x \in Models : modelStatus'[x] = modelStatus[x] /\ SaidToHaveNone(x)' =>
              SaidToHaveNone(x)
      BY <2>1 DEF SaidToHaveNone, ModelExists
    <3>6. \A x \in Models : SaidToHaveNone(x)' => IdsOf(x) = {}
      <4>1. \A x \in Models : SaidToHaveNone(x) => IdsOf(x) = {}
        BY DEF Counted
      <4>2. m \in byHand' /\ modelStatus'[m] \notin {"absent", "deleted"} => ~SaidToHaveNone(m)'
        BY DEF SaidToHaveNone, ModelExists
      <4> QED BY <3>2, <3>3, <3>4, <3>5, <4>1, <4>2
    <3>7. \A x \in Models : modelStatus'[x] = "online" /\ x \notin byHand' =>
              modelStatus[x] = "online" /\ x \notin byHand
      BY <2>1, <3>2
    <3> QED BY <1>1, <2>1, <3>6, <3>7
  <2> QED BY <1>3, <2>2, <2>3 DEF Around
<1>4. ASSUME NEW m \in Models, DeployBegin(m) PROVE Counted'
  <2>1. /\ instances' = instances /\ m \notin byHand'
        /\ byHand' = byHand \ {m} /\ broken' = broken \ {m}
        /\ modelStatus' = [modelStatus EXCEPT ![m] = "deploying"]
        /\ plan' = [plan EXCEPT ![m] = settings[m]]
    BY <1>4 DEF DeployBegin, WriteStatus
  <2>2. InstancesOf(m) = {}
    BY <1>4 DEF DeployBegin, InstancesOf, DeployTypeOK, Instance
  <2>3. \A x \in Models : InstancesOf(x)' = InstancesOf(x) /\ IdsOf(x)' = IdsOf(x)
    BY <2>1 DEF IdsOf, InstancesOf
  <2>4. \A x \in Models : Cardinality(IdsOf(x))' = Cardinality(IdsOf(x))
    BY <2>3, Zenon
  <2>5. \A x \in Models \ {m} : /\ modelStatus'[x] = modelStatus[x] /\ plan'[x] = plan[x]
                                /\ x \in byHand' <=> x \in byHand
                                /\ x \in broken' <=> x \in broken
    BY <2>1 DEF DeployTypeOK
  <2>6. \A x \in Models \ {m} : Goal(plan[x])' = Goal(plan[x])
    BY <2>5, Zenon
  <2>7. \A x \in Models \ {m} : SaidToHaveNone(x)' <=> SaidToHaveNone(x)
    BY <2>5 DEF SaidToHaveNone, ModelExists
  <2>8. modelStatus'[m] = "deploying"
    BY <2>1 DEF DeployTypeOK
  <2>9. Cardinality(IdsOf(m)') <= Goal(plan[m])'
    <3>1. IdsOf(m)' = {}
      BY <2>2, <2>3 DEF IdsOf
    <3>2. Cardinality(IdsOf(m)') = 0
      BY <3>1, FS_EmptySet, Zenon
    <3>3. plan'[m].replicas \in Int
      <4>1. plan'[m] = settings[m]
        BY <2>1 DEF DeployTypeOK
      <4> QED BY <4>1 DEF DeployTypeOK, Setting
    <3>4. Goal(plan[m])' >= 1
      BY <3>3 DEF Goal
    <3>5. Goal(plan[m])' \in Int
      BY <3>3 DEF Goal
    <3> QED BY <3>2, <3>4, <3>5
  <2>10. ASSUME NEW x \in Models \ {m}
         PROVE  /\ Cardinality(IdsOf(x)') <= Goal(plan[x])'
                /\ modelStatus'[x] = "online" /\ x \notin byHand' =>
                      /\ Cardinality(IdsOf(x)') = Goal(plan[x])'
                      /\ \A i \in InstancesOf(x)' : i.status = "running"
                /\ SaidToHaveNone(x)' => IdsOf(x)' = {}
    BY <2>3, <2>4, <2>5, <2>6, <2>7, <2>10 DEF Counted
  <2>11. ~SaidToHaveNone(m)'
    BY <2>8 DEF SaidToHaveNone, ModelExists
  <2> QED BY <2>8, <2>9, <2>10, <2>11 DEF Counted
<1>5. ASSUME NEW m \in Models, StopBegin(m) PROVE Counted'
  BY <1>2, <1>5 DEF StopBegin
<1>6. ASSUME NEW n \in Nodes, NEW g \in SUBSET Gpus, Choose(n, g) PROVE Counted'
  BY <1>2, <1>6 DEF Choose
<1>7. CASE \/ NothingToChoose \/ Flush \/ InsertFails \/ Unhealthy \/ StopOfDeleted \/ ApiCrash
           \/ Refusal
  BY <1>2, <1>7
  DEF NothingToChoose, Flush, InsertFails, Unhealthy, StopOfDeleted, ApiCrash, Refusal,
      WriteRefused, UndoRefused, MarkErrorRefused, StopRefused
<1>8. CASE Launch \/ LaunchFails
  BY <1>2, <1>8 DEF Launch, LaunchFails
<1>9. ASSUME NEW id \in Ids, UndoCall(id) PROVE Counted'
  BY <1>2, <1>9 DEF UndoCall
<1>10. ASSUME NEW i \in instances, StopCall(i) \/ StopCallFails(i) PROVE Counted'
  <2>1. StopCall(i) => UNCHANGED <<modelStatus, instances, plan, byHand, broken>>
    BY DEF StopCall
  <2> QED BY <1>2, <1>10, <2>1, StopCallFailsKeeps
<1>11. CASE MarkError
  <2>1. /\ step = "failing" /\ made = {} /\ current = 0 /\ model \in Models
        /\ UNCHANGED <<instances, plan, broken>>
    BY <1>11 DEF MarkError, DeployTypeOK
  <2>2. model \notin broken => IdsOf(model) = {}
    BY <2>1 DEF KnowsInstances, IdsAreOwn, IdsOf, InstancesOf
  <2>3. CASE ~ModelExists(model)
    BY <1>2, <1>11, <2>1, <2>3 DEF MarkError
  <2>4. CASE ModelExists(model)
    <3>1. /\ modelStatus' = [modelStatus EXCEPT ![model] = "error"]
          /\ byHand' = byHand \ {model}
      BY <1>11, <2>4 DEF MarkError, WriteStatus
    <3>2. /\ modelStatus'[model] = "error"
          /\ \A x \in Models \ {model} : /\ modelStatus'[x] = modelStatus[x]
                                         /\ x \in byHand' <=> x \in byHand
      BY <2>1, <3>1 DEF DeployTypeOK
    <3>3. ASSUME NEW x \in Models, SaidToHaveNone(x)' PROVE IdsOf(x) = {}
      <4>1. CASE x = model
        BY <2>1, <2>2, <3>2, <3>3, <4>1 DEF SaidToHaveNone, ModelExists
      <4>2. CASE x # model
        BY <2>1, <3>2, <3>3, <4>2 DEF SaidToHaveNone, ModelExists, Counted
      <4> QED BY <4>1, <4>2
    <3>4. \A x \in Models : modelStatus'[x] = "online" /\ x \notin byHand' =>
              modelStatus[x] = "online" /\ x \notin byHand
      BY <3>2
    <3> QED BY <1>1, <2>1, <3>3, <3>4
  <2> QED BY <2>3, <2>4
<1>12. CASE Finish
  <2>1. /\ step = "finishing" /\ current = 0 /\ model \in Models /\ instances' = instances
        /\ modelStatus' = [modelStatus EXCEPT ![model] = "online"]
        /\ byHand' = byHand \ {model} /\ UNCHANGED <<plan, broken>>
    BY <1>12 DEF Finish, WriteStatus, DeployTypeOK
  <2>2. IdsOf(model) \subseteq made
    BY <2>1 DEF KnowsInstances, IdsAreOwn, IdsOf, InstancesOf
  <2>3. made \subseteq IdsOf(model)
    BY <2>1 DEF KnowsInstances, IdsOf
  <2>4. Cardinality(IdsOf(model)) = Goal(plan[model])
    <3>1. IdsOf(model) = made
      BY <2>2, <2>3
    <3>2. Cardinality(made) = Goal(plan[model])
      BY <2>1 DEF CountsReplicas
    <3> QED BY <3>1, <3>2, Zenon
  <2>5. \A i \in InstancesOf(model) : i.status = "running"
    BY <2>1, <2>2 DEF KnowsInstances, IdsAreOwn, IdsOf, InstancesOf
  <2>6. \A m \in Models : /\ InstancesOf(m)' = InstancesOf(m) /\ IdsOf(m)' = IdsOf(m)
                         /\ modelStatus'[m] = IF m = model THEN "online" ELSE modelStatus[m]
    BY <2>1 DEF IdsOf, InstancesOf, DeployTypeOK
  <2>7. \A m \in Models : Cardinality(IdsOf(m))' = Cardinality(IdsOf(m))
    BY <2>6, Zenon
  <2>8. \A m \in Models : Goal(plan[m])' = Goal(plan[m])
    BY <2>1, Zenon
  <2>9. ASSUME NEW m \in Models
        PROVE  /\ Cardinality(IdsOf(m)') <= Goal(plan[m])'
               /\ modelStatus'[m] = "online" /\ m \notin byHand' =>
                     /\ Cardinality(IdsOf(m)') = Goal(plan[m])'
                     /\ \A i \in InstancesOf(m)' : i.status = "running"
               /\ SaidToHaveNone(m)' => IdsOf(m)' = {}
    <3>1. CASE m = model
      <4>1. modelStatus'[m] = "online"
        BY <2>6, <3>1
      <4>2. ~SaidToHaveNone(m)'
        BY <4>1 DEF SaidToHaveNone, ModelExists
      <4>3. Cardinality(IdsOf(m)') = Goal(plan[m])'
        BY <2>4, <2>7, <2>8, <3>1, Zenon
      <4>4. Cardinality(IdsOf(m)') <= Goal(plan[m])'
        BY <2>7, <2>8 DEF Counted
      <4>5. \A i \in InstancesOf(m)' : i.status = "running"
        BY <2>5, <2>6, <3>1
      <4> QED BY <4>2, <4>3, <4>4, <4>5
    <3>2. CASE m # model
      <4>1. modelStatus'[m] = modelStatus[m] /\ (m \in byHand' <=> m \in byHand)
        BY <2>1, <2>6, <3>2
      <4>2. SaidToHaveNone(m)' => SaidToHaveNone(m)
        BY <2>1, <4>1 DEF SaidToHaveNone, ModelExists
      <4> QED BY <2>6, <2>7, <2>8, <4>1, <4>2 DEF Counted
    <3> QED BY <3>1, <3>2
  <2> QED BY <2>9 DEF Counted
<1>13. CASE InsertInstance
  <2> DEFINE new == [id |-> current, model |-> model, node |-> alloc.node, gpus |-> alloc.gpus,
                     port |-> alloc.port, status |-> "starting"]
  <2>1. /\ instances' = instances \cup {new} /\ step = "launched" /\ model \in Models
        /\ UNCHANGED <<modelStatus, model, plan, byHand, broken>> /\ ModelExists(model)
    BY <1>13 DEF InsertInstance, DeployTypeOK
  <2>2. new.id = current /\ new.model = model
    OBVIOUS
  <2> HIDE DEF new
  <2>3. \A m \in Models : m # model => InstancesOf(m)' = InstancesOf(m) /\ IdsOf(m)' = IdsOf(m)
    BY <2>1, <2>2 DEF IdsOf, InstancesOf
  <2>4. IdsOf(model)' \subseteq made \cup {current}
    BY <2>1, <2>2 DEF KnowsInstances, IdsOf, InstancesOf
  <2>5. Cardinality(IdsOf(model)') <= Goal(plan[model])
    <3>1. Cardinality(made) < Goal(plan[model]) /\ current \notin made
      BY <2>1 DEF CountsReplicas, IdsAreOwn
    <3>2. /\ IsFiniteSet(made \cup {current})
          /\ Cardinality(made \cup {current}) = Cardinality(made) + 1
      BY <3>1, MadeIsFinite, FS_AddElement
    <3>3. /\ IsFiniteSet(IdsOf(model)')
          /\ Cardinality(IdsOf(model)') <= Cardinality(made \cup {current})
      BY <2>4, <3>2, FS_Subset
    <3>4. Cardinality(IdsOf(model)') \in Nat /\ Cardinality(made) \in Nat /\ Goal(plan[model]) \in Nat
      BY <2>1, <3>3, MadeIsFinite, FS_CardinalityType, GoalIsPositive
    <3> QED BY <3>1, <3>2, <3>3, <3>4
  <2>6. modelStatus[model] = "deploying" \/ model \in byHand
    BY <2>1 DEF KnowsInstances, SaysDeploying, ModelExists
  <2>7. \A m \in Models : m # model => Cardinality(IdsOf(m)') = Cardinality(IdsOf(m))
    BY <2>3, Zenon
  <2>8. \A m \in Models : Goal(plan[m])' = Goal(plan[m])
    BY <2>1, Zenon
  <2>9. ~SaidToHaveNone(model)' /\ \A m \in Models : SaidToHaveNone(m)' => SaidToHaveNone(m)
    BY <2>1, <2>6 DEF SaidToHaveNone, ModelExists
  <2> QED BY <2>1, <2>3, <2>5, <2>6, <2>7, <2>8, <2>9 DEF Counted
<1>14. CASE Healthy
  <2>1. UNCHANGED <<modelStatus, plan, byHand, broken>> /\ model \in Models /\ step = "waiting"
        /\ current \in 0 .. MaxLaunches
    BY <1>14, DeploymentAssumption DEF Healthy, DeployTypeOK, Ids
  <2>2. \A m \in Models : IdsOf(m)' = IdsOf(m)
    BY <1>14, HealthyKeepsIds
  <2>3. \A m \in Models : Cardinality(IdsOf(m))' = Cardinality(IdsOf(m))
    BY <2>2, Zenon
  <2>4. \A i \in instances :
            /\ Started(i, current).model = i.model
            /\ i.status = "running" => Started(i, current).status = "running"
    BY <2>1, StateReplaced DEF DeployTypeOK
  <2>5. \A m \in Models : (\A i \in InstancesOf(m) : i.status = "running") =>
            \A i \in InstancesOf(m)' : i.status = "running"
    <3>1. ASSUME NEW m \in Models, NEW j \in InstancesOf(m)'
          PROVE  \E i \in InstancesOf(m) : i.status = "running" => j.status = "running"
      <4>1. j \in instances' /\ j.model = m
        BY DEF InstancesOf
      <4>2. PICK i \in instances : j = Started(i, current)
        BY <1>14, <4>1, HealthyKeepsIds
      <4>3. i.model = m /\ (i.status = "running" => j.status = "running")
        BY <2>4, <4>1, <4>2
      <4> QED BY <4>3 DEF InstancesOf
    <3> QED BY <3>1
  <2>6. \A m \in Models : Goal(plan[m])' = Goal(plan[m])
    BY <2>1, Zenon
  <2>7. \A m \in Models : SaidToHaveNone(m)' => SaidToHaveNone(m)
    BY <2>1 DEF SaidToHaveNone, ModelExists
  <2> QED BY <2>1, <2>2, <2>3, <2>5, <2>6, <2>7 DEF Counted
<1>15. CASE UndoCommit
  <2>1. /\ UNCHANGED <<modelStatus, plan, byHand, broken>> /\ step = "undone" /\ model \in Models
    BY <1>15 DEF UndoCommit, DeployTypeOK
  <2>2. PICK i \in instances : i.id = current /\ instances' = instances \ {i}
    BY <1>15 DEF UndoCommit
  <2>3. \A m \in Models : IdsOf(m)' \subseteq IdsOf(m) /\ InstancesOf(m)' \subseteq InstancesOf(m)
    BY <2>2 DEF IdsOf, InstancesOf
  <2>4. \A m \in Models : Cardinality(IdsOf(m)') <= Goal(plan[m])
    BY <2>3, CountedShrinks
  <2>5. \A m \in Models : modelStatus[m] = "online" /\ m \notin byHand => IdsOf(m)' = IdsOf(m)
    <3>1. i.model = model /\ SaysDeploying(model)
      BY <2>1, <2>2 DEF KnowsInstances
    <3> QED BY <2>2, <3>1 DEF SaysDeploying, IdsOf, InstancesOf
  <2>6. \A m \in Models : modelStatus[m] = "online" /\ m \notin byHand =>
            Cardinality(IdsOf(m)') = Cardinality(IdsOf(m))
    BY <2>5, Zenon
  <2>7. \A m \in Models : Goal(plan[m])' = Goal(plan[m])
    BY <2>1, Zenon
  <2>8. \A m \in Models : SaidToHaveNone(m)' => SaidToHaveNone(m)
    BY <2>1 DEF SaidToHaveNone, ModelExists
  <2> QED BY <2>1, <2>3, <2>4, <2>6, <2>7, <2>8 DEF Counted
<1>16. CASE StopCommit
  <2>0. PICK x \in Models : x = model
    BY <1>16 DEF StopCommit, DeployTypeOK
  <2>1. /\ instances' = instances \ InstancesOf(x) /\ step = "stopping"
        /\ ModelExists(x) /\ plan' = plan /\ broken' = broken \ {x}
        /\ IF known = "offline" THEN UNCHANGED <<modelStatus, byHand>>
           ELSE /\ modelStatus' = [modelStatus EXCEPT ![x] = "offline"]
                /\ byHand' = byHand \ {x}
    BY <1>16, <2>0 DEF StopCommit, WriteStatus
  <2>2. InstancesOf(x)' = {} /\ IdsOf(x)' = {}
    BY <2>1 DEF IdsOf, InstancesOf
  <2>3. \A m \in Models \ {x} : InstancesOf(m)' = InstancesOf(m) /\ IdsOf(m)' = IdsOf(m)
    BY <2>1 DEF IdsOf, InstancesOf
  <2>4. \A m \in Models \ {x} : Cardinality(IdsOf(m)') = Cardinality(IdsOf(m))
    BY <2>3, Zenon
  <2>5. Cardinality(IdsOf(x)') <= Goal(plan[x])
    BY <2>1, <2>2, CountedShrinks
  <2>6. \A m \in Models \ {x} : modelStatus'[m] = modelStatus[m] /\ (m \in byHand' <=> m \in byHand)
                                  /\ (m \in broken' <=> m \in broken)
    BY <2>1 DEF DeployTypeOK
  <2>7. modelStatus'[x] # "online" \/ x \in byHand'
    <3>1. CASE known = "offline"
      BY <2>0, <2>1, <3>1 DEF StopKnows, ModelExists
    <3>2. CASE known # "offline"
      BY <2>1, <3>2 DEF DeployTypeOK
    <3> QED BY <3>1, <3>2
  <2>8. \A m \in Models : Goal(plan[m])' = Goal(plan[m])
    BY <2>1, Zenon
  <2>9. \A m \in Models \ {x} : SaidToHaveNone(m)' => SaidToHaveNone(m)
    BY <2>6 DEF SaidToHaveNone, ModelExists
  <2>10. ASSUME NEW m \in Models \ {x}
         PROVE  /\ Cardinality(IdsOf(m)') <= Goal(plan[m])'
                /\ modelStatus'[m] = "online" /\ m \notin byHand' =>
                      /\ Cardinality(IdsOf(m)') = Goal(plan[m])'
                      /\ \A i \in InstancesOf(m)' : i.status = "running"
                /\ SaidToHaveNone(m)' => IdsOf(m)' = {}
    BY <2>3, <2>4, <2>6, <2>8, <2>9, <2>10 DEF Counted
  <2> QED BY <2>1, <2>2, <2>5, <2>7, <2>8, <2>10 DEF Counted
<1>17. CASE UNCHANGED deployVars
  BY <1>2, <1>17 DEF deployVars
<1> QED
  BY <1>3, <1>4, <1>5, <1>6, <1>7, <1>8, <1>9, <1>10, <1>11, <1>12, <1>13, <1>14, <1>15, <1>16,
     <1>17, DeployCases DEF Quiet

-----------------------------------------------------------------------------
(* Rows and their owners *)

\* Only InsertInstance marks rows; whoever else writes one takes the mark off, unless the
\* value was there already.
LEMMA AroundKeepsMarks ==
    ASSUME DeployTypeOK, MarksHaveOwners, Around
    PROVE  marked' \subseteq marked /\ \A g \in marked' : gpuStatus'[g] = "allocated"
<1> USE DEF tables, others, history, MarksHaveOwners
<1>1. marked \subseteq Gpus
  BY DEF DeployTypeOK
<1>2. CASE ModelStep
  <2>1. PICK m \in Models : CreateModel(m) \/ UpdateModel(m) \/ DeleteModel(m)
    BY <1>2 DEF ModelStep
  <2>2. UNCHANGED <<gpuStatus, marked>>
    BY <2>1 DEF CreateModel, UpdateModel, DeleteModel
  <2> QED BY <2>2
<1>3. ASSUME NEW n \in Shared, NEW rows \in SUBSET Gpus, TaskTakes(n, rows)
      PROVE  UNCHANGED <<gpuStatus, marked>>
  BY <1>3 DEF TaskTakes
<1>4. CASE TaskStarts
  BY <1>1, <1>4 DEF TaskStarts, Mark
<1>5. ASSUME NEW rows \in SUBSET Gpus, TaskEnds(rows) \/ TaskForgets(rows)
      PROVE  marked' \subseteq marked /\ \A g \in marked' : gpuStatus'[g] = "allocated"
  BY <1>1, <1>5 DEF TaskEnds, TaskForgets, Free
<1>6. ASSUME NEW n \in Shared, Silence(n) \/ BuildPayload(n)
      PROVE  marked' \subseteq marked /\ \A g \in marked' : gpuStatus'[g] = "allocated"
  BY <1>1, <1>6 DEF Silence, BuildPayload, Free, ToRelease
<1>7. ASSUME NEW n \in Shared, Heartbeat(n)
      PROVE  marked' \subseteq marked /\ \A g \in marked' : gpuStatus'[g] = "allocated"
  BY <1>1, <1>7 DEF Heartbeat
<1>8. ASSUME NEW b \in boxes, BoxExits(b) PROVE UNCHANGED <<gpuStatus, marked>>
  BY <1>8, Zenon DEF BoxExits
<1> QED BY <1>2, <1>3, <1>4, <1>5, <1>6, <1>7, <1>8 DEF Around, OtherStep

\* The instances, their marks and the rows a stop has in hand stay as long as the lock is held.
LEMMA StoppedStep ==
    ASSUME DeployTypeOK, IdsAreOwn, StopKnows, MarksHaveOwners, [DeployNext]_deployVars
    PROVE  StopKnows'
<1> USE DEF tables, others, locals, history, bounds
<1>1. CASE step' # "stopping"
  BY <1>1 DEF StopKnows
<1>2. CASE Around
  <2>1. UNCHANGED <<instances, step, model, made, freed, known>> /\ byHand \subseteq byHand'
    BY <1>2, AroundKeeps
  <2>2. marked' \subseteq marked
    BY <1>2, AroundKeepsMarks
  <2>3. CASE step = "stopping"
    <3>1. model \in Models /\ InstancesOf(model)' = InstancesOf(model)
      BY <2>1, <2>3 DEF DeployTypeOK, InstancesOf
    <3>2. /\ modelStatus'[model] = modelStatus[model] \/ model \in byHand'
                \/ modelStatus'[model] = "deleted"
                \/ (modelStatus[model] = "absent" /\ modelStatus'[model] = "offline")
          /\ modelStatus[model] = "deleted" => modelStatus'[model] = "deleted"
      BY <1>2, <3>1, AroundKeepsStatus
    <3>3. modelStatus[model] \in {known, "deleted"} \/ model \in byHand
      BY <2>3 DEF StopKnows
    <3>4. modelStatus[model] # "absent" \/ model \in byHand
      BY <2>3 DEF StopKnows
    <3> QED BY <2>1, <2>2, <2>3, <3>1, <3>2, <3>3, <3>4 DEF StopKnows
  <2> QED BY <1>1, <2>1, <2>3
<1>3. ASSUME NEW m \in Models, StopBegin(m) PROVE StopKnows'
  <2>1. model' = m /\ known' = modelStatus[m] /\ made' = {i.id : i \in InstancesOf(m)}
        /\ UNCHANGED <<modelStatus, instances, marked>> /\ ModelExists(m)
    BY <1>3 DEF StopBegin
  <2> QED BY <2>1 DEF StopKnows, InstancesOf, ModelExists
<1>4. ASSUME NEW i \in instances, StopCall(i) PROVE StopKnows'
  <2>1. /\ step = "stopping" /\ freed' = freed \cup ToRelease(i.gpus)
        /\ made' = made \ {i.id}
        /\ UNCHANGED <<modelStatus, instances, gpuStatus, model, known, marked, byHand>>
    BY <1>4 DEF StopCall
  <2>2. ASSUME NEW j \in InstancesOf(model), j.id \notin made', NEW g \in j.gpus, g \in marked
        PROVE  g \in freed'
    <3>1. CASE j.id \notin made
      BY <2>1, <2>2, <3>1 DEF StopKnows
    <3>2. CASE j.id = i.id
      BY <2>1, <2>2, <3>2 DEF IdsAreOwn, InstancesOf, ToRelease, MarksHaveOwners
    <3> QED BY <2>1, <2>2, <3>1, <3>2
  <2> QED BY <2>1, <2>2 DEF StopKnows, InstancesOf
<1>5. ASSUME NEW i \in instances, StopCallFails(i) PROVE StopKnows'
  BY <1>1, <1>5, StopCallFailsKeeps
<1>6. CASE UNCHANGED deployVars
  BY <1>6 DEF deployVars, StopKnows, InstancesOf
<1>7. CASE Quiet
  BY <1>1, <1>7, QuietKeeps
<1>8. ASSUME NEW m \in Models, DeployBegin(m) PROVE StopKnows'
  BY <1>1, <1>8 DEF DeployBegin
<1>9. ASSUME NEW n \in Nodes, NEW g \in SUBSET Gpus, Choose(n, g) PROVE StopKnows'
  BY <1>1, <1>9 DEF Choose
<1>10. ASSUME NEW id \in Ids, UndoCall(id) PROVE StopKnows'
  BY <1>1, <1>10 DEF UndoCall
<1>11. CASE Launch \/ LaunchFails \/ InsertInstance \/ Healthy \/ UndoCommit \/ StopCommit
  BY <1>1, <1>11
  DEF Launch, LaunchFails, InsertInstance, Healthy, UndoCommit, StopCommit, Fail, LeaveLock
<1> QED
  BY <1>2, <1>3, <1>4, <1>5, <1>6, <1>7, <1>8, <1>9, <1>10, <1>11, DeployCases

LEMMA OwnerStep ==
    ASSUME DeployTypeOK, StopKnows, MarksHaveOwners, [DeployNext]_deployVars
    PROVE  MarksHaveOwners'
<1> USE DEF tables, others, locals, history, bounds
<1>1. CASE UNCHANGED <<instances, gpuStatus, marked>>
  BY <1>1 DEF MarksHaveOwners
<1>2. CASE Around
  <2>1. instances' = instances
    BY <1>2, AroundKeeps
  <2> QED BY <1>2, <2>1, AroundKeepsMarks DEF MarksHaveOwners
<1>3. CASE InsertInstance
  <2> DEFINE new == [id |-> current, model |-> model, node |-> alloc.node, gpus |-> alloc.gpus,
                     port |-> alloc.port, status |-> "starting"]
  <2>1. /\ instances' = instances \cup {new} /\ gpuStatus' = Mark(alloc.gpus)
        /\ marked' = marked \cup alloc.gpus
    BY <1>3 DEF InsertInstance
  <2>2. new.gpus = alloc.gpus /\ alloc.gpus \subseteq Gpus /\ marked \subseteq Gpus
    BY <1>3 DEF InsertInstance, DeployTypeOK, Allocation
  <2> HIDE DEF new
  <2> QED BY <2>1, <2>2 DEF Mark, MarksHaveOwners
<1>4. CASE Healthy
  <2>1. UNCHANGED <<gpuStatus, marked>>
    BY <1>4 DEF Healthy
  <2>2. \A i \in instances : \E j \in instances' : j.gpus = i.gpus
    <3>1. \A i \in instances : Started(i, current).gpus = i.gpus
      BY StateReplaced, DeploymentAssumption DEF DeployTypeOK, Ids
    <3> QED BY <1>4, <3>1, HealthyKeepsIds
  <2> QED BY <2>1, <2>2 DEF MarksHaveOwners
<1>5. CASE UndoCommit
  <2>1. PICK i \in instances : /\ gpuStatus' = Free(i.gpus) /\ marked' = marked \ i.gpus
                               /\ instances' = instances \ {i}
    BY <1>5 DEF UndoCommit
  <2>2. marked \subseteq Gpus
    BY DEF DeployTypeOK
  <2> QED BY <2>1, <2>2 DEF Free, MarksHaveOwners
<1>6. CASE StopCommit
  <2>1. /\ step = "stopping" /\ made = {} /\ gpuStatus' = Free(freed) /\ marked' = marked \ freed
        /\ instances' = instances \ InstancesOf(model)
    BY <1>6 DEF StopCommit
  <2>2. \A i \in InstancesOf(model) : i.gpus \cap marked \subseteq freed
    BY <2>1 DEF StopKnows
  <2>3. marked \subseteq Gpus
    BY DEF DeployTypeOK
  <2> QED BY <2>1, <2>2, <2>3 DEF Free, MarksHaveOwners
<1>7. ASSUME NEW i \in instances, StopCall(i) \/ StopCallFails(i) PROVE MarksHaveOwners'
  <2>1. StopCall(i) => UNCHANGED <<instances, gpuStatus, marked>>
    BY DEF StopCall
  <2> QED BY <1>1, <1>7, <2>1, StopCallFailsKeeps
<1>8. CASE Quiet
  BY <1>1, <1>8 DEF Quiet, NothingToChoose, Flush, InsertFails, Unhealthy, Finish, MarkError,
                    StopOfDeleted, ApiCrash, Refusal, WriteRefused, UndoRefused,
                    MarkErrorRefused, StopRefused
<1>9. ASSUME NEW m \in Models, DeployBegin(m) \/ StopBegin(m) PROVE MarksHaveOwners'
  BY <1>1, <1>9 DEF DeployBegin, StopBegin
<1>10. ASSUME NEW n \in Nodes, NEW g \in SUBSET Gpus, Choose(n, g) PROVE MarksHaveOwners'
  BY <1>1, <1>10 DEF Choose
<1>11. ASSUME NEW id \in Ids, UndoCall(id) PROVE MarksHaveOwners'
  BY <1>1, <1>11 DEF UndoCall
<1>12. CASE Launch \/ LaunchFails
  BY <1>1, <1>12 DEF Launch, LaunchFails
<1>13. CASE UNCHANGED deployVars
  BY <1>1, <1>13 DEF deployVars
<1> QED
  BY <1>2, <1>3, <1>4, <1>5, <1>6, <1>7, <1>8, <1>9, <1>10, <1>11, <1>12, <1>13, DeployCases

-----------------------------------------------------------------------------
(* The theorems *)

LEMMA DeployInvStep == DeployInv /\ [DeployNext]_deployVars => DeployInv'
  BY DeployTypeStep, IdsStep, PortsStep, KnowsStep, CountsStep, CountedStep, StoppedStep,
     OwnerStep
  DEF DeployInv

LEMMA DeployInvHolds == DeploySpec => []DeployInv
  BY DeployInvInit, DeployInvStep, PTL DEF DeploySpec

\* Rows, instances and containers keep their types and each step of a deployment or a stop
\* finds the locals it reads set: the launch ids it uses never run out on the way.
THEOREM DeploymentTypeCorrect == DeploySpec => []DeployTypeOK
<1>1. DeployInv => DeployTypeOK
  BY DEF DeployInv
<1> QED BY <1>1, DeployInvHolds, PTL

\* However requests to deploy, edits of the model, failures of agents, refused commits and
\* crashes of the API alternate, a model has no more instances than the replicas its last
\* deployment read, and no two instances one port of a node.
THEOREM DeployedOnceHolds == DeploySpec => []DeployedOnce
<1>1. DeployInv => DeployedOnce
  <2> SUFFICES ASSUME DeployInv PROVE DeployedOnce
    OBVIOUS
  <2>1. \A m \in Models : Cardinality(InstancesOf(m)) = Cardinality(IdsOf(m))
    BY CountByIds DEF DeployInv
  <2>2. \A m \in Models : Cardinality(InstancesOf(m)) <= Goal(plan[m])
    BY <2>1 DEF DeployInv, Counted
  <2> QED BY <2>2 DEF DeployInv, IdsAreOwn, PortsAreOwn, DeployedOnce
<1> QED BY <1>1, DeployInvHolds, PTL

\* What an edit has not written is true: an online model has all the replicas its deployment
\* read, running; an offline one has no instance, and one in error has none unless the
\* database refused a commit of its clean-up.
THEOREM StatusIsTrue == DeploySpec => []StatusTellsInstances
<1>1. DeployInv => StatusTellsInstances
  <2> SUFFICES ASSUME DeployInv PROVE StatusTellsInstances
    OBVIOUS
  <2>1. \A m \in Models : /\ Cardinality(InstancesOf(m)) = Cardinality(IdsOf(m))
                          /\ IdsOf(m) = {} <=> InstancesOf(m) = {}
    BY CountByIds DEF DeployInv
  <2> QED BY <2>1 DEF DeployInv, Counted, SaidToHaveNone, StatusTellsInstances
<1> QED BY <1>1, DeployInvHolds, PTL

\* No failure on the way of a deployment or a stop, no refused commit and no writer in between
\* leaves a row that a deployment has marked to nobody.
THEOREM RowsHaveOwners == DeploySpec => []MarksHaveOwners
<1>1. DeployInv => MarksHaveOwners
  BY DEF DeployInv
<1> QED BY <1>1, DeployInvHolds, PTL
=============================================================================
