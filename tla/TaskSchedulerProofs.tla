------------------------- MODULE TaskSchedulerProofs -------------------------
(***************************************************************************)
(* Proofs about TaskScheduler, for every set of tasks, nodes, GPUs and     *)
(* concurrent requests and every combination of faults.                    *)
(***************************************************************************)
EXTENDS TaskScheduler, TLAPS

-----------------------------------------------------------------------------
(* The operators *)

\* Both services put a priority in the same list: get_queue_level of the API
\* and _get_queue_name of the scheduler agree on every integer.
LEMMA LevelsAgree ==
    \A p \in Int : BackendLevel(p) = SchedulerLevel(p) /\ BackendLevel(p) \in Levels
  BY DEF BackendLevel, SchedulerLevel, Levels

\* What the allocator returns lies on one of the given nodes and consists of
\* idle rows of that node that suit the task.
LEMMA ChoicesAreIdle ==
    ASSUME NEW nodes, NEW idle, NEW suits, NEW k, NEW p \in Allocations(nodes, idle, suits, k)
    PROVE  /\ p.node \in nodes
           /\ p.gpus \subseteq idle \cap suits
           /\ \A g \in p.gpus : NodeOf(g) = p.node
<1>1. CASE k <= 0
  BY <1>1 DEF Allocations, WidestForCpu
<1>2. CASE ~(k <= 0)
  <2>1. PICK n \in Widest(nodes, idle, suits, k) :
          p = [node |-> n, gpus |-> FirstByIndex(Filtered(n, idle, suits), k)]
    BY <1>2 DEF Allocations
  <2>2. n \in nodes
    BY DEF Widest, Candidates
  <2>3. FirstByIndex(Filtered(n, idle, suits), k) \subseteq Filtered(n, idle, suits)
    BY DEF FirstByIndex
  <2> QED BY <2>1, <2>2, <2>3 DEF Filtered
<1> QED BY <1>1, <1>2

\* A payload of the API has no priority, so it is put back in the normal list.
LEMMA RequeueIsNormal ==
    ASSUME NEW q, NEW entry \in Entry
    PROVE  Requeue(q, entry) = [q EXCEPT !["normal"] = <<entry>> \o @]
  BY DEF Requeue, SchedulerLevel, PriorityOf, Entry

\* The lists keep their type when an entry is pushed, put back and popped.
LEMMA PushTypes ==
    ASSUME NEW q \in [Levels -> Seq(Entry)], NEW entry \in Entry
    PROVE  /\ \A level \in Levels : Push(q, level, entry) \in [Levels -> Seq(Entry)]
           /\ Requeue(q, entry) \in [Levels -> Seq(Entry)]
<1>1. ASSUME NEW level \in Levels PROVE Push(q, level, entry) \in [Levels -> Seq(Entry)]
  BY DEF Push
<1>2. Requeue(q, entry) \in [Levels -> Seq(Entry)]
  <2>1. <<entry>> \in Seq(Entry)
    OBVIOUS
  <2>2. <<entry>> \o q["normal"] \in Seq(Entry)
    BY <2>1 DEF Levels
  <2>3. "normal" \in Levels
    BY DEF Levels
  <2>4. Requeue(q, entry) = [q EXCEPT !["normal"] = <<entry>> \o q["normal"]]
    BY RequeueIsNormal
  <2> QED BY <2>2, <2>3, <2>4
<1> QED BY <1>1, <1>2

LEMMA PopTypes ==
    ASSUME NEW q \in [Levels -> Seq(Entry)], SomeEntry(q)
    PROVE  /\ PopLevel(q) \in Levels
           /\ q[PopLevel(q)] \in Seq(Entry) /\ q[PopLevel(q)] # <<>>
           /\ Pop(q) \in [Levels -> Seq(Entry)]
           /\ Popped(q) \in Entry
<1>1. PopLevel(q) \in Levels /\ q[PopLevel(q)] \in Seq(Entry) /\ q[PopLevel(q)] # <<>>
  BY DEF PopLevel, Levels, SomeEntry
<1>2. Head(q[PopLevel(q)]) \in Entry /\ Tail(q[PopLevel(q)]) \in Seq(Entry)
  BY <1>1
<1> QED BY <1>1, <1>2 DEF Pop, Popped

-----------------------------------------------------------------------------
(* Type correctness *)

LEMMA TypeInit == Init => TypeOK
<1> SUFFICES ASSUME Init PROVE TypeOK
  OBVIOUS
<1>1. queue \in [Levels -> Seq(Entry)] /\ notices \in Seq(Tasks)
  BY DEF Init, EmptyQueues
<1>2. nextTicket \in 1 .. MaxTickets + 1
  BY ConstantsAssumption DEF Init
<1> QED BY <1>1, <1>2 DEF Init, TypeOK, Statuses, NoEntry, IdleWorker

LEMMA TypeApi == ASSUME TypeOK, ApiStep PROVE TypeOK'
<1> USE DEF rows, section, agents
<1>1. ASSUME NEW t \in Tasks, Create(t) PROVE TypeOK'
  BY <1>1 DEF TypeOK, Create, Statuses
<1>2. ASSUME NEW t \in Tasks, Delete(t) PROVE TypeOK'
  BY <1>2 DEF TypeOK, Delete, Statuses
<1>3. ASSUME NEW w \in Workers, NEW t \in Tasks, SubmitRead(w, t) PROVE TypeOK'
  BY <1>3 DEF TypeOK, SubmitRead
<1>4. ASSUME NEW w \in Workers, NEW t \in Tasks, CancelRead(w, t) PROVE TypeOK'
  BY <1>4 DEF TypeOK, CancelRead
<1>5. ASSUME NEW w \in Workers, SubmitPush(w) PROVE TypeOK'
  <2>1. worker[w] \in [step : {"submitting", "pushed", "cancelling"}, task : Tasks]
    BY <1>5 DEF TypeOK, SubmitPush, IdleWorker
  <2>2. BackendEntry(worker[w].task, nextTicket) \in Entry
    BY <1>5, <2>1, ConstantsAssumption DEF TypeOK, SubmitPush, BackendEntry, Entry, Tickets
  <2>3. BackendLevel(Priority[worker[w].task]) \in Levels
    BY <2>1, ConstantsAssumption, LevelsAgree
  <2>4. queue' \in [Levels -> Seq(Entry)]
    BY <1>5, <2>2, <2>3, PushTypes DEF TypeOK, SubmitPush
  <2>5. nextTicket' \in 1 .. MaxTickets + 1
    BY <1>5, ConstantsAssumption DEF TypeOK, SubmitPush
  <2>6. worker' \in [Workers -> {IdleWorker} \cup
           [step : {"submitting", "pushed", "cancelling"}, task : Tasks]]
    BY <1>5, <2>1 DEF TypeOK, SubmitPush
  <2> QED BY <1>5, <2>4, <2>5, <2>6 DEF TypeOK, SubmitPush
<1>6. ASSUME NEW w \in Workers, SubmitAborts(w) PROVE TypeOK'
  BY <1>6 DEF TypeOK, SubmitAborts
<1>7. ASSUME NEW w \in Workers, SubmitCommit(w) PROVE TypeOK'
  BY <1>7 DEF TypeOK, SubmitCommit, Statuses
<1>8. ASSUME NEW w \in Workers, CancelCommit(w) PROVE TypeOK'
  BY <1>8 DEF TypeOK, CancelCommit, Statuses
<1>9. ASSUME NEW r \in reports, Callback(r) PROVE TypeOK'
  <2>1. r \in Report
    BY DEF TypeOK
  <2>2. notices' \in Seq(Tasks)
    <3>1. r.task \in Tasks /\ notices \in Seq(Tasks)
      BY <2>1 DEF TypeOK, Report
    <3>2. Append(notices, r.task) \in Seq(Tasks)
      BY <3>1
    <3>3. notices' = notices \/ notices' = Append(notices, r.task)
      BY <1>9 DEF Callback
    <3> QED BY <3>1, <3>2, <3>3
  <2>3. status' \in [Tasks -> Statuses] /\ taskBox' \in [Tasks -> Tickets \cup {0}]
    BY <1>9, <2>1 DEF TypeOK, Callback, Report, Statuses
  <2>4. reports' \subseteq Report
    BY <1>9 DEF TypeOK, Callback
  <2> QED BY <1>9, <2>2, <2>3, <2>4 DEF TypeOK, Callback
<1>10. ASSUME NEW r \in reports, CallbackUnknown(r) PROVE TypeOK'
  BY <1>10 DEF TypeOK, CallbackUnknown
<1> QED
  BY <1>1, <1>2, <1>3, <1>4, <1>5, <1>6, <1>7, <1>8, <1>9, <1>10 DEF ApiStep

LEMMA TypeScheduler == ASSUME TypeOK, SchedulerStep PROVE TypeOK'
<1> USE DEF rows, section, agents
<1>1. ASSUME Dequeue PROVE TypeOK'
  <2>1. queue' \in [Levels -> Seq(Entry)] /\ cur' \in Entry
    BY <1>1, PopTypes DEF TypeOK, Dequeue
  <2>2. cur' # NoEntry
    BY <2>1 DEF Entry, NoEntry, Tickets
  <2> QED BY <1>1, <2>1, <2>2 DEF TypeOK, Dequeue
<1>2. ASSUME Skip PROVE TypeOK'
  BY <1>2 DEF TypeOK, Skip, LeaveSection
<1>3. ASSUME PutBack PROVE TypeOK'
  <2>1. cur \in Entry
    BY <1>3 DEF TypeOK, PutBack
  <2>2. queue' \in [Levels -> Seq(Entry)]
    BY <1>3, <2>1, PushTypes DEF TypeOK, PutBack
  <2> QED BY <1>3, <2>2 DEF TypeOK, PutBack, LeaveSection
<1>4. ASSUME Place PROVE TypeOK'
  <2>1. cur \in Entry /\ cur.task \in Tasks /\ cur.ticket \in Tickets
    BY <1>4 DEF TypeOK, Place, Entry
  <2>2. PICK p \in Placements(cur.task) :
          /\ allocNode' = p.node
          /\ allocGpus' = p.gpus
          /\ requests' = requests \cup
                {[ticket |-> cur.ticket, task |-> cur.task, node |-> p.node, gpus |-> p.gpus]}
    BY <1>4 DEF Place
  <2>3. p.node \in online /\ p.gpus \subseteq Idle
    BY <2>2, ChoicesAreIdle DEF Placements
  <2>4. p.node \in Nodes /\ p.gpus \subseteq Gpus
    BY <2>3 DEF TypeOK, Idle
  <2>5. requests' \subseteq Box
    BY <2>1, <2>2, <2>4 DEF TypeOK, Box
  <2>6. locked' \subseteq Gpus /\ launched' \subseteq Tickets /\ cur.ticket \in launched'
    BY <1>4, <2>1 DEF TypeOK, Place, Idle
  <2> QED BY <1>4, <2>1, <2>2, <2>4, <2>5, <2>6 DEF TypeOK, Place
<1>5. ASSUME LaunchTimeout PROVE TypeOK'
  BY <1>5 DEF TypeOK, LaunchTimeout
<1>6. ASSUME CommitRunning PROVE TypeOK'
  <2>1. cur \in Entry /\ cur.task \in Tasks /\ cur.ticket \in Tickets /\ allocNode \in Nodes
    BY <1>6 DEF TypeOK, CommitRunning, Entry
  <2> QED BY <1>6, <2>1 DEF TypeOK, CommitRunning, LeaveSection, Statuses
<1>7. ASSUME CommitFailed PROVE TypeOK'
  BY <1>7 DEF TypeOK, CommitFailed, LeaveSection, Statuses
<1>8. ASSUME RowVanished PROVE TypeOK'
  BY <1>8 DEF TypeOK, RowVanished, LeaveSection
<1>9. ASSUME FinishTask PROVE TypeOK'
  <2>1. Head(notices) \in Tasks /\ notices' \in Seq(Tasks)
    BY <1>9 DEF TypeOK, FinishTask
  <2> QED BY <1>9, <2>1 DEF TypeOK, FinishTask
<1>10. ASSUME Crash PROVE TypeOK'
  BY <1>10 DEF TypeOK, Crash, LeaveSection
<1>11. ASSUME ListenerFails PROVE TypeOK'
  BY <1>11 DEF TypeOK, ListenerFails
<1> QED
  BY <1>1, <1>2, <1>3, <1>4, <1>5, <1>6, <1>7, <1>8, <1>9, <1>10, <1>11
  DEF SchedulerStep

LEMMA TypeAgent == ASSUME TypeOK, AgentStep PROVE TypeOK'
<1> USE DEF rows, section, agents
<1>1. ASSUME NEW r \in requests, AgentStart(r) PROVE TypeOK'
  <2>1. r \in Box
    BY DEF TypeOK
  <2>2. reports' \subseteq Report /\ boxes' \subseteq Box /\ requests' \subseteq Box
    BY <1>1, <2>1 DEF TypeOK, AgentStart, Report, Box
  <2> QED BY <1>1, <2>2 DEF TypeOK, AgentStart, Awaited
<1>2. ASSUME NEW r \in requests, AgentRefuse(r) PROVE TypeOK'
  BY <1>2 DEF TypeOK, AgentRefuse, Awaited
<1>3. ASSUME NEW b \in boxes, BoxExit(b) PROVE TypeOK'
  <2>1. reports' \subseteq Report /\ boxes' \subseteq Box
    BY <1>3 DEF TypeOK, BoxExit, Report, Box
  <2> QED BY <1>3, <2>1 DEF TypeOK, BoxExit
<1> QED BY <1>1, <1>2, <1>3 DEF AgentStep

LEMMA TypeStep == TypeOK /\ [Next]_vars => TypeOK'
<1> SUFFICES ASSUME TypeOK, [Next]_vars PROVE TypeOK'
  OBVIOUS
<1>1. CASE UNCHANGED vars
  BY <1>1 DEF TypeOK, vars, rows, section, agents
<1> QED BY <1>1, TypeApi, TypeScheduler, TypeAgent DEF Next

\* Every reachable state is well typed: in particular the local variables of the
\* critical section are set exactly while it runs.
THEOREM TypeCorrect == Spec => []TypeOK
  BY TypeInit, TypeStep, PTL DEF Spec
-----------------------------------------------------------------------------
(* Exclusive allocation *)

\* Steps that leave all of them alone, or only empty the transaction's
\* allocation or forget a task's rows, keep the invariant.
LEMMA ExclusiveShrinks ==
    ASSUME TypeOK, ExclusiveGpus,
           gpuStatus' = gpuStatus,
           allocGpus' = allocGpus \/ allocGpus' = {},
           \A t \in Tasks : taskGpus'[t] \subseteq taskGpus[t]
    PROVE  ExclusiveGpus'
  BY DEF TypeOK, ExclusiveGpus

LEMMA ExclusiveStep ==
    ASSUME TypeOK, ExclusiveGpus, [Next]_vars PROVE ExclusiveGpus'
<1> USE DEF rows, section, agents
<1>1. CASE UNCHANGED vars
  BY <1>1 DEF ExclusiveGpus, vars
<1>2. CASE ApiStep
  <2>1. UNCHANGED <<gpuStatus, allocGpus>> /\ \A t \in Tasks : taskGpus'[t] \subseteq taskGpus[t]
    BY <1>2 DEF ApiStep, Create, Delete, SubmitRead, CancelRead, SubmitPush, SubmitAborts,
                SubmitCommit, CancelCommit, Callback, CallbackUnknown, TypeOK
  <2> QED BY <2>1, ExclusiveShrinks
<1>3. CASE AgentStep
  BY <1>3, ExclusiveShrinks DEF AgentStep, AgentStart, AgentRefuse, BoxExit
<1>4. CASE Dequeue \/ Skip \/ PutBack \/ LaunchTimeout \/ CommitFailed \/ RowVanished
           \/ Crash \/ ListenerFails
  <2>1. UNCHANGED <<gpuStatus, taskGpus>> /\ (allocGpus' = allocGpus \/ allocGpus' = {})
    BY <1>4 DEF Dequeue, Skip, PutBack, LaunchTimeout, CommitFailed, RowVanished, Crash,
                ListenerFails, LeaveSection
  <2> QED BY <2>1, ExclusiveShrinks
<1>5. CASE Place
  <2>1. allocGpus' \subseteq Idle
    BY <1>5, ChoicesAreIdle DEF Place, Placements
  <2>2. UNCHANGED <<gpuStatus, taskGpus>>
    BY <1>5 DEF Place
  <2> QED BY <2>1, <2>2 DEF ExclusiveGpus, Idle
<1>6. CASE CommitRunning
  <2> DEFINE u == cur.task
  <2>1. u \in Tasks /\ allocGpus \subseteq Gpus
    BY <1>6 DEF TypeOK, CommitRunning, Entry
  <2>2. /\ taskGpus' = [taskGpus EXCEPT ![u] = allocGpus]
        /\ gpuStatus' = [g \in Gpus |-> IF g \in allocGpus THEN "allocated" ELSE gpuStatus[g]]
        /\ allocGpus' = {}
    BY <1>6 DEF CommitRunning, LeaveSection
  <2>3. \A t \in Tasks : taskGpus[t] \cap allocGpus = {}
    BY DEF ExclusiveGpus
  <2>4. \A t \in Tasks : taskGpus'[t] = IF t = u THEN allocGpus ELSE taskGpus[t]
    BY <2>1, <2>2 DEF TypeOK
  <2>5. \A t \in Tasks : \A g \in taskGpus'[t] : gpuStatus'[g] = "allocated"
    BY <2>1, <2>2, <2>4 DEF ExclusiveGpus, TypeOK
  <2>6. \A t, v \in Tasks : t # v => taskGpus'[t] \cap taskGpus'[v] = {}
    BY <2>3, <2>4 DEF ExclusiveGpus
  <2> QED BY <2>2, <2>5, <2>6 DEF ExclusiveGpus
<1>7. CASE FinishTask
  <2> DEFINE u == Head(notices)
  <2>1. u \in Tasks /\ allocGpus = {} /\ allocGpus' = {}
    BY <1>7 DEF TypeOK, FinishTask
  <2>2. /\ taskGpus' = [taskGpus EXCEPT ![u] = {}]
        /\ gpuStatus' = [g \in Gpus |-> IF g \in taskGpus[u] THEN "idle" ELSE gpuStatus[g]]
    BY <1>7 DEF FinishTask
  <2>3. \A t \in Tasks : taskGpus'[t] = IF t = u THEN {} ELSE taskGpus[t]
    BY <2>1, <2>2 DEF TypeOK
  <2>4. \A t \in Tasks : \A g \in taskGpus'[t] : gpuStatus'[g] = "allocated"
    BY <2>1, <2>2, <2>3 DEF ExclusiveGpus, TypeOK
  <2>5. \A t, v \in Tasks : t # v => taskGpus'[t] \cap taskGpus'[v] = {}
    BY <2>3 DEF ExclusiveGpus
  <2> QED BY <2>1, <2>4, <2>5 DEF ExclusiveGpus
<1> QED
  BY <1>1, <1>2, <1>3, <1>4, <1>5, <1>6, <1>7 DEF Next, SchedulerStep

\* No two tasks are recorded on one GPU row, recorded rows are allocated, and a
\* launch in progress has taken only idle rows: for every number of tasks, nodes,
\* GPUs and concurrent requests and whatever fails.
THEOREM GpusAreExclusive == Spec => []ExclusiveGpus
<1>1. Init => ExclusiveGpus
  BY DEF Init, ExclusiveGpus
<1>2. TypeOK /\ ExclusiveGpus /\ [Next]_vars => ExclusiveGpus'
  BY ExclusiveStep
<1> QED BY <1>1, <1>2, TypeCorrect, PTL DEF Spec
LEMMA RowsMoveStep ==
    ASSUME TypeOK, ExclusiveGpus, [Next]_vars PROVE [RowsMoveTogether]_vars
<1> USE DEF rows, section, agents
<1>1. CASE UNCHANGED vars
  BY <1>1
<1>2. CASE UNCHANGED gpuStatus
  BY <1>2 DEF RowsMoveTogether
<1>3. CASE ApiStep
  BY <1>2, <1>3
  DEF ApiStep, Create, Delete, SubmitRead, CancelRead, SubmitPush, SubmitAborts,
      SubmitCommit, CancelCommit, Callback, CallbackUnknown
<1>4. CASE AgentStep
  BY <1>2, <1>4 DEF AgentStep, AgentStart, AgentRefuse, BoxExit
<1>5. CASE Dequeue \/ Skip \/ PutBack \/ Place \/ LaunchTimeout \/ CommitFailed
           \/ RowVanished \/ Crash \/ ListenerFails
  BY <1>2, <1>5
  DEF Dequeue, Skip, PutBack, Place, LaunchTimeout, CommitFailed, RowVanished, Crash,
      ListenerFails
<1>6. CASE CommitRunning
  <2> DEFINE u == cur.task
  <2>1. u \in Tasks /\ allocGpus \subseteq Gpus /\ cur.ticket \in launched
    BY <1>6 DEF TypeOK, CommitRunning, Entry
  <2>2. /\ taskGpus' = [taskGpus EXCEPT ![u] = allocGpus]
        /\ status' = [status EXCEPT ![u] = "running"]
        /\ gpuStatus' = [g \in Gpus |-> IF g \in allocGpus THEN "allocated" ELSE gpuStatus[g]]
    BY <1>6 DEF CommitRunning
  <2>3. ASSUME NEW g \in Gpus, gpuStatus[g] # gpuStatus'[g]
        PROVE  /\ gpuStatus'[g] = "allocated"
               /\ g \notin taskGpus[u] /\ g \in taskGpus'[u]
               /\ cur.ticket \in launched /\ status'[u] = "running"
    BY <2>1, <2>2, <2>3 DEF TypeOK, ExclusiveGpus
  <2> QED BY <2>1, <2>3 DEF RowsMoveTogether
<1>7. CASE FinishTask
  <2> DEFINE u == Head(notices)
  <2>1. u \in Tasks /\ notices # <<>>
    BY <1>7 DEF TypeOK, FinishTask
  <2>2. /\ taskGpus' = [taskGpus EXCEPT ![u] = {}]
        /\ gpuStatus' = [g \in Gpus |-> IF g \in taskGpus[u] THEN "idle" ELSE gpuStatus[g]]
    BY <1>7 DEF FinishTask
  <2>3. ASSUME NEW g \in Gpus, gpuStatus[g] # gpuStatus'[g]
        PROVE  gpuStatus'[g] = "idle" /\ g \in taskGpus[u] /\ g \notin taskGpus'[u]
    BY <2>1, <2>2, <2>3 DEF TypeOK
  <2> QED BY <2>1, <2>3 DEF RowsMoveTogether
<1> QED
  BY <1>1, <1>3, <1>4, <1>5, <1>6, <1>7 DEF Next, SchedulerStep

\* The tables gpu_devices and tasks change together: a row is allocated only by the
\* commit that records it on a running task, and freed only by the finished message
\* of the task that holds it.
THEOREM RowsChangeTogether == Spec => GpusMoveWithTasks
<1>1. TypeOK /\ ExclusiveGpus /\ [Next]_vars => [RowsMoveTogether]_vars
  BY RowsMoveStep
<1> QED BY <1>1, TypeCorrect, GpusAreExclusive, PTL DEF Spec, GpusMoveWithTasks
-----------------------------------------------------------------------------
(* The scheduler implements GpuLease *)

\* Every transaction that changes a GPU row or the rows of a task grants, gives back or
\* forgets a lease; every other step leaves both alone.
LEMMA LeaseStep ==
    ASSUME TypeOK, ExclusiveGpus, [Next]_vars PROVE [Lease!LeaseNext]_(Lease!leaseVars)
<1> USE DEF rows, section, agents
<1>1. CASE UNCHANGED <<taskGpus, gpuStatus>>
  BY <1>1 DEF Lease!leaseVars, Idle
<1>2. CASE UNCHANGED vars
  BY <1>1, <1>2 DEF vars
<1>3. ASSUME NEW t \in Tasks, Delete(t) PROVE Lease!LeaseNext
  <2>1. Lease!Forget(t)
    BY <1>3 DEF Delete, Lease!Forget, Idle
  <2> QED BY <2>1 DEF Lease!LeaseNext
<1>4. CASE ApiStep
  <2>1. (\E t \in Tasks : Delete(t)) \/ UNCHANGED <<taskGpus, gpuStatus>>
    BY <1>4
    DEF ApiStep, Create, SubmitRead, CancelRead, SubmitPush, SubmitAborts,
        SubmitCommit, CancelCommit, Callback, CallbackUnknown
  <2> QED BY <1>1, <1>3, <2>1
<1>5. CASE AgentStep
  BY <1>1, <1>5 DEF AgentStep, AgentStart, AgentRefuse, BoxExit
<1>6. CASE Dequeue \/ Skip \/ PutBack \/ Place \/ LaunchTimeout \/ CommitFailed
           \/ RowVanished \/ Crash \/ ListenerFails
  BY <1>1, <1>6
  DEF Dequeue, Skip, PutBack, Place, LaunchTimeout, CommitFailed, RowVanished, Crash,
      ListenerFails
<1>7. CASE CommitRunning
  <2>1. cur.task \in Tasks
    BY <1>7 DEF TypeOK, CommitRunning, Entry
  <2>2. allocGpus \in SUBSET Idle
    BY DEF TypeOK, ExclusiveGpus, Idle
  <2>3. taskGpus' = [taskGpus EXCEPT ![cur.task] = allocGpus]
    BY <1>7 DEF CommitRunning
  <2>4. Idle' = Idle \ allocGpus
    BY <1>7 DEF CommitRunning, Idle, TypeOK
  <2>5. Lease!Grant(cur.task, allocGpus)
    BY <2>2, <2>3, <2>4 DEF Lease!Grant
  <2> QED BY <2>1, <2>2, <2>5 DEF Lease!LeaseNext
<1>8. CASE FinishTask
  <2> DEFINE t == Head(notices)
  <2>1. t \in Tasks
    BY <1>8 DEF TypeOK, FinishTask
  <2>2. taskGpus' = [taskGpus EXCEPT ![t] = {}]
    BY <1>8 DEF FinishTask
  <2>3. Idle' = Idle \cup taskGpus[t]
    BY <1>8, <2>1 DEF FinishTask, Idle, TypeOK
  <2>4. Lease!GiveBack(t)
    BY <2>2, <2>3 DEF Lease!GiveBack
  <2> QED BY <2>1, <2>4 DEF Lease!LeaseNext
<1> QED
  BY <1>2, <1>4, <1>5, <1>6, <1>7, <1>8 DEF Next, SchedulerStep

\* Queue, launches, transactions, failures and concurrent requests taken away, the scheduler
\* and the API do to the GPUs what GpuLease says, and nothing else.
THEOREM SchedulerImplementsLease == Spec => ImplementsLease
<1>1. Init => Lease!LeaseInit
  BY DEF Init, Lease!LeaseInit, Idle
<1>2. TypeOK /\ ExclusiveGpus /\ [Next]_vars => [Lease!LeaseNext]_(Lease!leaseVars)
  BY LeaseStep
<1> QED
  BY <1>1, <1>2, TypeCorrect, GpusAreExclusive, PTL DEF Spec, ImplementsLease, Lease!LeaseSpec

-----------------------------------------------------------------------------
(* At most one launch for each push *)

\* What the positions of a list are after an append, a pop and a put back.
LEMMA ListPositions ==
    ASSUME NEW q \in Seq(Entry), NEW e \in Entry
    PROVE  /\ DOMAIN Append(q, e) = DOMAIN q \cup {Len(q) + 1}
           /\ Append(q, e)[Len(q) + 1] = e
           /\ \A i \in DOMAIN q : i # Len(q) + 1 /\ Append(q, e)[i] = q[i]
           /\ \A i \in DOMAIN (<<e>> \o q) :
                 \/ i = 1 /\ (<<e>> \o q)[i] = e
                 \/ i # 1 /\ i - 1 \in DOMAIN q /\ (<<e>> \o q)[i] = q[i - 1]
           /\ q # <<>> => /\ 1 \in DOMAIN q /\ Head(q) = q[1]
                          /\ \A i \in DOMAIN Tail(q) :
                                i + 1 \in DOMAIN q /\ i + 1 # 1 /\ Tail(q)[i] = q[i + 1]
<1>1. /\ DOMAIN Append(q, e) = DOMAIN q \cup {Len(q) + 1}
      /\ Append(q, e)[Len(q) + 1] = e
      /\ \A i \in DOMAIN q : i # Len(q) + 1 /\ Append(q, e)[i] = q[i]
  <2>1. Append(q, e) \in Seq(Entry) /\ Len(Append(q, e)) = Len(q) + 1 /\ Len(q) \in Nat
    OBVIOUS
  <2>2. DOMAIN q = 1 .. Len(q) /\ DOMAIN Append(q, e) = 1 .. Len(q) + 1
    BY <2>1
  <2>3. \A i \in 1 .. Len(q) : Append(q, e)[i] = q[i]
    OBVIOUS
  <2>4. Append(q, e)[Len(q) + 1] = e
    OBVIOUS
  <2> QED BY <2>1, <2>2, <2>3, <2>4
<1>2. \A i \in DOMAIN (<<e>> \o q) :
         \/ i = 1 /\ (<<e>> \o q)[i] = e
         \/ i # 1 /\ i - 1 \in DOMAIN q /\ (<<e>> \o q)[i] = q[i - 1]
  <2> DEFINE s == <<e>> \o q
  <2>1. <<e>> \in Seq(Entry) /\ Len(<<e>>) = 1 /\ <<e>>[1] = e
    OBVIOUS
  <2>2. DOMAIN s = 1 .. Len(q) + 1 /\ DOMAIN q = 1 .. Len(q) /\ Len(q) \in Nat
    BY <2>1
  <2>3. s[1] = e
    BY <2>1, <2>2
  <2>4. \A i \in 2 .. Len(q) + 1 : s[i] = q[i - 1]
    BY <2>1, <2>2
  <2> HIDE DEF s
  <2>5. \A i \in DOMAIN s :
          \/ i = 1 /\ s[i] = e
          \/ i # 1 /\ i - 1 \in DOMAIN q /\ s[i] = q[i - 1]
    BY <2>2, <2>3, <2>4
  <2> QED BY <2>5 DEF s
<1>3. ASSUME q # <<>>
      PROVE  /\ 1 \in DOMAIN q /\ Head(q) = q[1]
             /\ \A i \in DOMAIN Tail(q) :
                    i + 1 \in DOMAIN q /\ i + 1 # 1 /\ Tail(q)[i] = q[i + 1]
  <2>1. Len(q) \in Nat \ {0} /\ DOMAIN q = 1 .. Len(q)
    BY <1>3
  <2>2. Tail(q) \in Seq(Entry) /\ Len(Tail(q)) = Len(q) - 1
    BY <1>3
  <2>3. DOMAIN Tail(q) = 1 .. Len(q) - 1
    BY <2>2
  <2>4. \A i \in 1 .. Len(q) - 1 : Tail(q)[i] = q[i + 1]
    BY <1>3, <2>1
  <2> QED BY <2>1, <2>3, <2>4
<1>4. q # <<>> => /\ 1 \in DOMAIN q /\ Head(q) = q[1]
                 /\ \A i \in DOMAIN Tail(q) :
                       i + 1 \in DOMAIN q /\ i + 1 # 1 /\ Tail(q)[i] = q[i + 1]
  BY <1>3
<1> QED BY <1>1, <1>2, <1>4, Zenon

\* What the operators on the three lists do to the positions.
LEMMA PushPositions ==
    ASSUME NEW q \in [Levels -> Seq(Entry)], NEW level \in Levels, NEW e \in Entry,
           NEW l \in Levels, NEW i \in DOMAIN Push(q, level, e)[l]
    PROVE  \/ /\ l = level /\ i = Len(q[l]) + 1
              /\ Push(q, level, e)[l][i] = e
           \/ /\ i \in DOMAIN q[l]
              /\ Push(q, level, e)[l][i] = q[l][i]
<1>1. q[l] \in Seq(Entry) /\ Push(q, level, e)[l] = IF l = level THEN Append(q[l], e) ELSE q[l]
  BY DEF Push
<1>2. /\ DOMAIN Append(q[l], e) = DOMAIN q[l] \cup {Len(q[l]) + 1}
      /\ Append(q[l], e)[Len(q[l]) + 1] = e
      /\ \A j \in DOMAIN q[l] : Append(q[l], e)[j] = q[l][j]
  BY <1>1, ListPositions
<1> QED BY <1>1, <1>2, Zenon

LEMMA PopPositions ==
    ASSUME NEW q \in [Levels -> Seq(Entry)], SomeEntry(q)
    PROVE  /\ 1 \in DOMAIN q[PopLevel(q)] /\ Popped(q) = q[PopLevel(q)][1]
           /\ \A l \in Levels : \A i \in DOMAIN Pop(q)[l] :
                \/ /\ l = PopLevel(q) /\ i \in Nat \ {0} /\ i + 1 \in DOMAIN q[l]
                   /\ Pop(q)[l][i] = q[l][i + 1]
                \/ l # PopLevel(q) /\ i \in DOMAIN q[l] /\ Pop(q)[l][i] = q[l][i]
<1> DEFINE l0 == PopLevel(q)
<1>1. l0 \in Levels /\ q[l0] \in Seq(Entry) /\ q[l0] # <<>> /\ Popped(q) = Head(q[l0])
      /\ Head(q[l0]) \in Entry
  BY PopTypes DEF Popped
<1>2. Pop(q) = [q EXCEPT ![l0] = Tail(q[l0])]
  BY DEF Pop
<1> HIDE DEF l0
<1>3. /\ 1 \in DOMAIN q[l0] /\ Head(q[l0]) = q[l0][1]
      /\ \A i \in DOMAIN Tail(q[l0]) : i + 1 \in DOMAIN q[l0] /\ Tail(q[l0])[i] = q[l0][i + 1]
  BY <1>1, ListPositions
<1>4. \A i \in DOMAIN Tail(q[l0]) : i \in Nat \ {0}
  BY <1>1
<1>5. \A l \in Levels : Pop(q)[l] = IF l = l0 THEN Tail(q[l0]) ELSE q[l]
  BY <1>1, <1>2
<1>6. \A l \in Levels : \A i \in DOMAIN Pop(q)[l] :
         \/ /\ l = l0 /\ i \in Nat \ {0} /\ i + 1 \in DOMAIN q[l]
            /\ Pop(q)[l][i] = q[l][i + 1]
         \/ l # l0 /\ i \in DOMAIN q[l] /\ Pop(q)[l][i] = q[l][i]
  BY <1>3, <1>4, <1>5
<1> QED BY <1>1, <1>3, <1>6 DEF l0

LEMMA RequeuePositions ==
    ASSUME NEW q \in [Levels -> Seq(Entry)], NEW e \in Entry,
           NEW l \in Levels, NEW i \in DOMAIN Requeue(q, e)[l]
    PROVE  \/ l = "normal" /\ i = 1 /\ Requeue(q, e)[l][i] = e
           \/ /\ l = "normal" /\ i \in Nat \ {0} /\ i - 1 \in DOMAIN q[l]
              /\ Requeue(q, e)[l][i] = q[l][i - 1]
           \/ l # "normal" /\ i \in DOMAIN q[l] /\ Requeue(q, e)[l][i] = q[l][i]
<1> DEFINE s == <<e>> \o q["normal"]
<1>1. q["normal"] \in Seq(Entry) /\ s \in Seq(Entry)
  BY DEF Levels
<1>2. Requeue(q, e)[l] = IF l = "normal" THEN s ELSE q[l]
  BY RequeueIsNormal
<1>3. \A j \in DOMAIN s : \/ j = 1 /\ s[j] = e
                          \/ j # 1 /\ j - 1 \in DOMAIN q["normal"] /\ s[j] = q["normal"][j - 1]
  BY <1>1, ListPositions
<1>4. \A j \in DOMAIN s : j \in Nat \ {0}
  BY <1>1
<1> HIDE DEF s
<1> QED BY <1>2, <1>3, <1>4

\* Steps that touch no list and issue or launch no ticket.
LEMMA TicketsKept ==
    ASSUME TypeOK, ServedOnce, UNCHANGED <<queue, nextTicket, launched>>,
           cur' = cur \/ cur' = NoEntry, pc' = "popped" => pc = "popped" /\ cur' = cur
    PROVE  ServedOnce'
<1>1. \A level \in Levels : \A i \in DOMAIN queue[level] : queue[level][i].ticket # NoEntry.ticket
  <2>1. \A level \in Levels : \A i \in DOMAIN queue[level] : queue[level][i] \in Entry
    BY DEF TypeOK
  <2> QED BY <2>1 DEF Entry, Tickets, NoEntry
<1>2. NoEntry.ticket < nextTicket
  BY ConstantsAssumption DEF TypeOK, NoEntry
<1> QED BY <1>1, <1>2 DEF ServedOnce

LEMMA TicketsPushed ==
    ASSUME TypeOK, ServedOnce, NEW w \in Workers, SubmitPush(w) PROVE ServedOnce'
<1> DEFINE t == worker[w].task
           level0 == BackendLevel(Priority[t])
           e == BackendEntry(t, nextTicket)
<1>1. t \in Tasks
  BY DEF TypeOK, SubmitPush, IdleWorker
<1>2. level0 \in Levels /\ e \in Entry /\ e.ticket = nextTicket /\ nextTicket \in Nat
  BY <1>1, LevelsAgree, ConstantsAssumption
  DEF SubmitPush, BackendEntry, Entry, Tickets, TypeOK
<1>3. queue' = Push(queue, level0, e) /\ queue \in [Levels -> Seq(Entry)]
  BY DEF SubmitPush, TypeOK
<1>4. UNCHANGED <<cur, pc, launched>> /\ nextTicket' = nextTicket + 1
  BY DEF SubmitPush, section
<1> HIDE DEF level0, e
<1>5. ASSUME NEW l \in Levels, NEW i \in DOMAIN queue'[l]
      PROVE  \/ l = level0 /\ i = Len(queue[level0]) + 1 /\ queue'[l][i] = e
             \/ i \in DOMAIN queue[l] /\ queue'[l][i] = queue[l][i]
  BY <1>2, <1>3, PushPositions
<1>6. \A l \in Levels : \A i \in DOMAIN queue[l] :
         queue[l][i].ticket < nextTicket /\ queue[l][i].ticket \in Int
  <2>1. \A l \in Levels : \A i \in DOMAIN queue[l] : queue[l][i] \in Entry
    BY DEF TypeOK
  <2> QED BY <2>1 DEF ServedOnce, Entry, Tickets
<1>7. cur.ticket < nextTicket /\ (\A k \in launched : k < nextTicket) /\ launched \subseteq Int
      /\ cur.ticket \in Int
  BY DEF ServedOnce, TypeOK, Tickets, Entry, NoEntry
<1>8. \A l \in Levels : \A i \in DOMAIN queue'[l] :
         /\ queue'[l][i].ticket \notin launched
         /\ queue'[l][i].ticket # cur.ticket
         /\ queue'[l][i].ticket < nextTicket + 1
  BY <1>2, <1>5, <1>6, <1>7 DEF ServedOnce
<1>9. \A l1, l2 \in Levels : \A i \in DOMAIN queue'[l1] : \A j \in DOMAIN queue'[l2] :
         queue'[l1][i].ticket = queue'[l2][j].ticket => l1 = l2 /\ i = j
  <2> SUFFICES ASSUME NEW l1 \in Levels, NEW l2 \in Levels, NEW i \in DOMAIN queue'[l1],
                      NEW j \in DOMAIN queue'[l2],
                      queue'[l1][i].ticket = queue'[l2][j].ticket
               PROVE  l1 = l2 /\ i = j
    OBVIOUS
  <2> QED BY <1>2, <1>5, <1>6 DEF ServedOnce
<1> QED BY <1>2, <1>4, <1>7, <1>8, <1>9 DEF ServedOnce

LEMMA TicketsPopped ==
    ASSUME TypeOK, ServedOnce, Dequeue PROVE ServedOnce'
<1> DEFINE l0 == PopLevel(queue)
<1>1. l0 \in Levels /\ Popped(queue) \in Entry
  BY PopTypes DEF Dequeue, TypeOK
<1>2. queue' = Pop(queue) /\ cur' = Popped(queue) /\ UNCHANGED <<nextTicket, launched>>
  BY DEF Dequeue
<1>3. 1 \in DOMAIN queue[l0] /\ cur' = queue[l0][1]
  BY <1>2, PopPositions DEF Dequeue, TypeOK
<1>4. ASSUME NEW l \in Levels, NEW i \in DOMAIN queue'[l]
      PROVE  \/ l = l0 /\ i + 1 \in DOMAIN queue[l] /\ i + 1 # 1 /\ i \in Int
                /\ queue'[l][i] = queue[l][i + 1]
             \/ l # l0 /\ i \in DOMAIN queue[l] /\ queue'[l][i] = queue[l][i]
  BY <1>2, PopPositions DEF Dequeue, TypeOK
<1> HIDE DEF l0
<1>5. \A l \in Levels : \A i \in DOMAIN queue'[l] :
         /\ queue'[l][i].ticket \notin launched
         /\ queue'[l][i].ticket # cur'.ticket
         /\ queue'[l][i].ticket < nextTicket
  BY <1>1, <1>3, <1>4 DEF ServedOnce
<1>6. \A l1, l2 \in Levels : \A i \in DOMAIN queue'[l1] : \A j \in DOMAIN queue'[l2] :
         queue'[l1][i].ticket = queue'[l2][j].ticket => l1 = l2 /\ i = j
  <2> SUFFICES ASSUME NEW l1 \in Levels, NEW l2 \in Levels, NEW i \in DOMAIN queue'[l1],
                      NEW j \in DOMAIN queue'[l2],
                      queue'[l1][i].ticket = queue'[l2][j].ticket
               PROVE  l1 = l2 /\ i = j
    OBVIOUS
  <2> QED BY <1>4 DEF ServedOnce
<1>7. cur'.ticket < nextTicket /\ cur'.ticket \notin launched
  BY <1>1, <1>3 DEF ServedOnce
<1> QED BY <1>2, <1>5, <1>6, <1>7 DEF ServedOnce

LEMMA TicketsPutBack ==
    ASSUME TypeOK, ServedOnce, PutBack, queue' = Requeue(queue, cur) PROVE ServedOnce'
<1>1. cur \in Entry /\ cur' = NoEntry /\ pc = "popped" /\ pc' = "idle"
      /\ UNCHANGED <<nextTicket, launched>>
  BY DEF PutBack, LeaveSection, TypeOK
<1>2. queue \in [Levels -> Seq(Entry)]
  BY DEF TypeOK
<1>3. ASSUME NEW l \in Levels, NEW i \in DOMAIN queue'[l]
      PROVE  \/ l = "normal" /\ i = 1 /\ queue'[l][i] = cur
             \/ l = "normal" /\ i - 1 \in DOMAIN queue[l] /\ i \in Int
                /\ queue'[l][i] = queue[l][i - 1]
             \/ l # "normal" /\ i \in DOMAIN queue[l] /\ queue'[l][i] = queue[l][i]
  BY <1>1, <1>2, RequeuePositions
<1>4. \A l \in Levels : \A i \in DOMAIN queue[l] : queue[l][i].ticket # NoEntry.ticket
  <2>1. \A l \in Levels : \A i \in DOMAIN queue[l] : queue[l][i] \in Entry
    BY DEF TypeOK
  <2> QED BY <2>1 DEF Entry, Tickets, NoEntry
<1>5. cur.ticket # NoEntry.ticket /\ NoEntry.ticket < nextTicket
  BY <1>1, ConstantsAssumption DEF Entry, Tickets, NoEntry, TypeOK
<1>6. \A l \in Levels : \A i \in DOMAIN queue'[l] :
         /\ queue'[l][i].ticket \notin launched
         /\ queue'[l][i].ticket # NoEntry.ticket
         /\ queue'[l][i].ticket < nextTicket
  BY <1>1, <1>3, <1>4, <1>5 DEF ServedOnce
<1>7. \A l1, l2 \in Levels : \A i \in DOMAIN queue'[l1] : \A j \in DOMAIN queue'[l2] :
         queue'[l1][i].ticket = queue'[l2][j].ticket => l1 = l2 /\ i = j
  <2> SUFFICES ASSUME NEW l1 \in Levels, NEW l2 \in Levels, NEW i \in DOMAIN queue'[l1],
                      NEW j \in DOMAIN queue'[l2],
                      queue'[l1][i].ticket = queue'[l2][j].ticket
               PROVE  l1 = l2 /\ i = j
    OBVIOUS
  <2> QED BY <1>3 DEF ServedOnce
<1> QED BY <1>1, <1>5, <1>6, <1>7 DEF ServedOnce

LEMMA ServedOnceStep ==
    ASSUME TypeOK, ServedOnce, [Next]_vars PROVE ServedOnce'
<1> USE DEF rows, section, agents
<1>1. CASE UNCHANGED vars
  BY <1>1 DEF ServedOnce, vars
<1>2. CASE ApiStep
  <2>1. CASE \E w \in Workers : SubmitPush(w)
    BY <2>1, TicketsPushed
  <2>2. CASE UNCHANGED <<queue, nextTicket, launched, cur, pc>>
    BY <2>2, TicketsKept
  <2> QED
    BY <1>2, <2>1, <2>2
    DEF ApiStep, Create, Delete, SubmitRead, CancelRead, SubmitAborts,
        SubmitCommit, CancelCommit, Callback, CallbackUnknown
<1>3. CASE AgentStep
  <2>1. UNCHANGED <<queue, nextTicket, launched, cur>> /\ (pc' = "popped" => pc = "popped")
    BY <1>3 DEF AgentStep, AgentStart, AgentRefuse, BoxExit
  <2> QED BY <2>1, TicketsKept
<1>4. CASE Skip \/ LaunchTimeout \/ CommitRunning \/ CommitFailed \/ RowVanished
           \/ FinishTask \/ Crash \/ ListenerFails
  <2>1. /\ UNCHANGED <<queue, nextTicket, launched>>
        /\ cur' = cur \/ cur' = NoEntry
        /\ pc' = "popped" => pc = "popped" /\ cur' = cur
    BY <1>4 DEF Skip, LaunchTimeout, CommitRunning, CommitFailed, RowVanished, FinishTask,
                Crash, ListenerFails, LeaveSection
  <2> QED BY <2>1, TicketsKept
<1>5. CASE Dequeue
  BY <1>5, TicketsPopped
<1>6. CASE PutBack
  <2>1. CASE queue' = Requeue(queue, cur)
    BY <1>6, <2>1, TicketsPutBack
  <2>2. CASE UNCHANGED queue
    BY <1>6, <2>2, TicketsKept DEF PutBack, LeaveSection
  <2> QED BY <1>6, <2>1, <2>2 DEF PutBack
<1>7. CASE Place
  BY <1>7 DEF Place, ServedOnce
<1> QED
  BY <1>1, <1>2, <1>3, <1>4, <1>5, <1>6, <1>7 DEF Next, SchedulerStep

\* Each push to Redis leads to at most one launch request: no ticket that was
\* launched, or that the scheduler holds, is in a list, and no ticket is in two
\* places, whatever is put back, rolled back, lost or restarted.
THEOREM EntriesServedOnce == Spec => []ServedOnce
<1>1. Init => ServedOnce
  BY DEF Init, ServedOnce, EmptyQueues, NoEntry
<1>2. TypeOK /\ ServedOnce /\ [Next]_vars => ServedOnce'
  BY ServedOnceStep
<1> QED BY <1>1, <1>2, TypeCorrect, PTL DEF Spec

-----------------------------------------------------------------------------
(* First come, first served *)

LevelOfTask(t) == BackendLevel(Priority[t])

\* The entries of a task of normal priority are in the normal list only.
ListsByPriority ==
    \A l \in Levels : l # "normal" =>
        \A i \in DOMAIN queue[l] : LevelOfTask(queue[l][i].task) = l

\* The parts of NormalFifo with the position of an entry spelled out.
LEMMA FifoIs ==
    NormalFifo <=>
        /\ \A i, j \in DOMAIN queue["normal"] :
              /\ i < j
              /\ LevelOfTask(queue["normal"][i].task) = "normal"
              /\ LevelOfTask(queue["normal"][j].task) = "normal"
              => queue["normal"][i].ticket < queue["normal"][j].ticket
        /\ pc # "idle" /\ LevelOfTask(cur.task) = "normal" =>
              \A i \in DOMAIN queue["normal"] :
                 LevelOfTask(queue["normal"][i].task) = "normal" =>
                    cur.ticket < queue["normal"][i].ticket
  BY DEF NormalFifo, LevelOfTask

\* Steps that touch no list and take up no entry.
LEMMA FifoKept ==
    ASSUME NormalFifo, ListsByPriority, UNCHANGED queue,
           pc' # "idle" => pc # "idle" /\ cur' = cur
    PROVE  NormalFifo' /\ ListsByPriority'
<1>1. ListsByPriority'
  BY DEF ListsByPriority
<1>2. NormalFifo'
  BY DEF NormalFifo
<1> QED BY <1>1, <1>2

\* A pushed entry is younger than every other one.
LEMMA FifoPushed ==
    ASSUME TypeOK, ServedOnce, NormalFifo, ListsByPriority, NEW w \in Workers, SubmitPush(w)
    PROVE  NormalFifo' /\ ListsByPriority'
<1> DEFINE t == worker[w].task
           level == LevelOfTask(t)
           e == BackendEntry(t, nextTicket)
           N == "normal"
<1>1. t \in Tasks
  BY DEF TypeOK, SubmitPush, IdleWorker
<1>2. /\ level \in Levels /\ e \in Entry
      /\ e.ticket = nextTicket /\ e.task = t
  BY <1>1, LevelsAgree, ConstantsAssumption
  DEF SubmitPush, BackendEntry, Entry, Tickets, TypeOK, LevelOfTask
<1>3. queue' = Push(queue, level, e) /\ UNCHANGED <<cur, pc>>
  BY DEF SubmitPush, section, LevelOfTask
<1>4. queue \in [Levels -> Seq(Entry)] /\ N \in Levels
  BY DEF TypeOK, Levels
<1> HIDE DEF level, e
<1>5. ASSUME NEW l \in Levels, NEW i \in DOMAIN queue'[l]
      PROVE  \/ l = level /\ i = Len(queue[l]) + 1 /\ queue'[l][i] = e
             \/ i \in DOMAIN queue[l] /\ queue'[l][i] = queue[l][i]
  BY <1>2, <1>3, <1>4, PushPositions
<1>6. ListsByPriority'
  <2> SUFFICES ASSUME NEW l \in Levels, l # N, NEW i \in DOMAIN queue'[l]
               PROVE  LevelOfTask(queue'[l][i].task) = l
    BY DEF ListsByPriority, LevelOfTask
  <2> QED BY <1>2, <1>5 DEF ListsByPriority, level
<1>7. \A i \in DOMAIN queue[N] : /\ queue[N][i].ticket < nextTicket
                                 /\ i \in Nat /\ i < Len(queue[N]) + 1
  BY <1>4 DEF ServedOnce
<1>8. \A i, j \in DOMAIN queue'[N] :
         /\ i < j
         /\ LevelOfTask(queue'[N][i].task) = N /\ LevelOfTask(queue'[N][j].task) = N
         => queue'[N][i].ticket < queue'[N][j].ticket
  <2> SUFFICES ASSUME NEW i \in DOMAIN queue'[N], NEW j \in DOMAIN queue'[N], i < j,
                      LevelOfTask(queue'[N][i].task) = N, LevelOfTask(queue'[N][j].task) = N
               PROVE  queue'[N][i].ticket < queue'[N][j].ticket
    OBVIOUS
  <2>1. Len(queue[N]) + 1 \in Nat
    BY <1>4
  <2>2. CASE i = Len(queue[N]) + 1
    BY <1>4, <1>5, <1>7, <2>1, <2>2
  <2>3. CASE j = Len(queue[N]) + 1 /\ i # j
    BY <1>2, <1>4, <1>5, <1>7, <2>3
  <2>4. CASE i # Len(queue[N]) + 1 /\ j # Len(queue[N]) + 1
    BY <1>4, <1>5, <2>4, FifoIs
  <2> QED BY <2>2, <2>3, <2>4
<1>9. pc' # "idle" /\ LevelOfTask(cur'.task) = N =>
         \A i \in DOMAIN queue'[N] :
            LevelOfTask(queue'[N][i].task) = N => cur'.ticket < queue'[N][i].ticket
  BY <1>2, <1>3, <1>4, <1>5, FifoIs DEF ServedOnce
<1> QED BY <1>6, <1>8, <1>9 DEF NormalFifo, LevelOfTask

\* The entry taken is older than what stays, or has a list of its own.
LEMMA FifoPopped ==
    ASSUME TypeOK, NormalFifo, ListsByPriority, Dequeue
    PROVE  NormalFifo' /\ ListsByPriority'
<1> DEFINE l0 == PopLevel(queue)
           N == "normal"
<1>1. queue \in [Levels -> Seq(Entry)] /\ SomeEntry(queue) /\ N \in Levels
  BY DEF TypeOK, Dequeue, Levels
<1>2. queue' = Pop(queue) /\ cur' = Popped(queue)
  BY DEF Dequeue
<1>3. 1 \in DOMAIN queue[l0] /\ cur' = queue[l0][1] /\ l0 \in Levels
  BY <1>1, <1>2, PopPositions, PopTypes
<1>4. ASSUME NEW l \in Levels, NEW i \in DOMAIN queue'[l]
      PROVE  \/ l = l0 /\ i \in Nat \ {0} /\ i + 1 \in DOMAIN queue[l]
                /\ queue'[l][i] = queue[l][i + 1]
             \/ l # l0 /\ i \in DOMAIN queue[l] /\ queue'[l][i] = queue[l][i]
  BY <1>1, <1>2, PopPositions
<1> HIDE DEF l0
<1>5. ListsByPriority'
  <2> SUFFICES ASSUME NEW l \in Levels, l # N, NEW i \in DOMAIN queue'[l]
               PROVE  LevelOfTask(queue'[l][i].task) = l
    BY DEF ListsByPriority, LevelOfTask
  <2> QED BY <1>4 DEF ListsByPriority
<1>6. \A i, j \in DOMAIN queue'[N] :
         /\ i < j
         /\ LevelOfTask(queue'[N][i].task) = N /\ LevelOfTask(queue'[N][j].task) = N
         => queue'[N][i].ticket < queue'[N][j].ticket
  <2> SUFFICES ASSUME NEW i \in DOMAIN queue'[N], NEW j \in DOMAIN queue'[N], i < j,
                      LevelOfTask(queue'[N][i].task) = N, LevelOfTask(queue'[N][j].task) = N
               PROVE  queue'[N][i].ticket < queue'[N][j].ticket
    OBVIOUS
  <2>1. CASE l0 = N
    <3>1. /\ i \in Nat /\ j \in Nat /\ i + 1 \in DOMAIN queue[N] /\ j + 1 \in DOMAIN queue[N]
          /\ queue'[N][i] = queue[N][i + 1] /\ queue'[N][j] = queue[N][j + 1]
      BY <1>1, <1>4, <2>1
    <3>2. i + 1 < j + 1
      BY <3>1
    <3> QED BY <3>1, <3>2, FifoIs
  <2>2. CASE l0 # N
    BY <1>1, <1>4, <2>2, FifoIs
  <2> QED BY <2>1, <2>2
<1>7. ASSUME LevelOfTask(cur'.task) = N, NEW i \in DOMAIN queue'[N],
             LevelOfTask(queue'[N][i].task) = N
      PROVE  cur'.ticket < queue'[N][i].ticket
  <2>1. l0 = N
    BY <1>3, <1>7 DEF ListsByPriority
  <2>2. i \in Nat \ {0} /\ i + 1 \in DOMAIN queue[N] /\ queue'[N][i] = queue[N][i + 1]
    BY <1>1, <1>4, <2>1
  <2>3. 1 < i + 1 /\ 1 \in DOMAIN queue[N] /\ cur' = queue[N][1]
    BY <1>3, <2>1, <2>2
  <2> QED BY <1>7, <2>2, <2>3, FifoIs
<1> QED BY <1>5, <1>6, <1>7 DEF NormalFifo, LevelOfTask

\* An entry that is put back goes in front of the ones that came after it.
LEMMA FifoPutBack ==
    ASSUME TypeOK, NormalFifo, ListsByPriority, PutBack, queue' = Requeue(queue, cur)
    PROVE  NormalFifo' /\ ListsByPriority'
<1> DEFINE N == "normal"
<1>1. /\ queue \in [Levels -> Seq(Entry)] /\ N \in Levels
      /\ cur \in Entry /\ pc = "popped" /\ pc' = "idle"
  BY DEF TypeOK, PutBack, LeaveSection, Levels
<1>2. ASSUME NEW l \in Levels, NEW i \in DOMAIN queue'[l]
      PROVE  \/ l = N /\ i = 1 /\ queue'[l][i] = cur
             \/ l = N /\ i \in Nat \ {0} /\ i - 1 \in DOMAIN queue[l]
                /\ queue'[l][i] = queue[l][i - 1]
             \/ l # N /\ i \in DOMAIN queue[l] /\ queue'[l][i] = queue[l][i]
  BY <1>1, RequeuePositions
<1>3. ListsByPriority'
  <2> SUFFICES ASSUME NEW l \in Levels, l # N, NEW i \in DOMAIN queue'[l]
               PROVE  LevelOfTask(queue'[l][i].task) = l
    BY DEF ListsByPriority, LevelOfTask
  <2> QED BY <1>2 DEF ListsByPriority
<1>4. ASSUME NEW i \in DOMAIN queue'[N], NEW j \in DOMAIN queue'[N], i < j,
             LevelOfTask(queue'[N][i].task) = N, LevelOfTask(queue'[N][j].task) = N
      PROVE  queue'[N][i].ticket < queue'[N][j].ticket
  <2>1. i \in Nat \ {0} /\ j \in Nat \ {0} /\ j # 1
    BY <1>1, <1>2, <1>4
  <2>2. j - 1 \in DOMAIN queue[N] /\ queue'[N][j] = queue[N][j - 1]
    BY <1>1, <1>2, <2>1
  <2>3. CASE i = 1 /\ queue'[N][i] = cur
    BY <1>1, <1>4, <2>2, <2>3, FifoIs
  <2>4. CASE i - 1 \in DOMAIN queue[N] /\ queue'[N][i] = queue[N][i - 1]
    <3>1. i - 1 < j - 1
      BY <1>4, <2>1
    <3> QED BY <1>4, <2>2, <2>4, <3>1, FifoIs
  <2> QED BY <1>1, <1>2, <2>3, <2>4
<1> QED BY <1>1, <1>3, <1>4 DEF NormalFifo, LevelOfTask

LEMMA FifoStep ==
    ASSUME TypeOK, ServedOnce, NormalFifo, ListsByPriority, [Next]_vars
    PROVE  NormalFifo' /\ ListsByPriority'
<1> USE DEF rows, section, agents
<1>1. CASE UNCHANGED <<queue, cur, pc>>
  BY <1>1, FifoKept
<1>2. CASE ApiStep
  BY <1>1, <1>2, FifoPushed
  DEF ApiStep, Create, Delete, SubmitRead, CancelRead, SubmitAborts,
      SubmitCommit, CancelCommit, Callback, CallbackUnknown
<1>3. CASE AgentStep
  <2>1. UNCHANGED <<queue, cur>> /\ (pc' # "idle" => pc # "idle")
    BY <1>3 DEF AgentStep, AgentStart, AgentRefuse, BoxExit, Awaited
  <2> QED BY <2>1, FifoKept
<1>4. CASE Skip \/ Place \/ LaunchTimeout \/ CommitRunning \/ CommitFailed \/ RowVanished
           \/ FinishTask \/ Crash \/ ListenerFails
  <2>1. UNCHANGED queue /\ (pc' # "idle" => pc # "idle" /\ cur' = cur)
    BY <1>4 DEF Skip, Place, LaunchTimeout, CommitRunning, CommitFailed, RowVanished,
                FinishTask, Crash, ListenerFails, LeaveSection
  <2> QED BY <2>1, FifoKept
<1>5. CASE Dequeue
  BY <1>5, FifoPopped
<1>6. CASE PutBack
  <2>1. CASE queue' = Requeue(queue, cur)
    BY <1>6, <2>1, FifoPutBack
  <2>2. CASE UNCHANGED queue
    BY <1>6, <2>2, FifoKept DEF PutBack, LeaveSection
  <2> QED BY <1>6, <2>1, <2>2 DEF PutBack
<1>7. CASE UNCHANGED vars
  BY <1>1, <1>7 DEF vars
<1> QED BY <1>2, <1>3, <1>4, <1>5, <1>6, <1>7 DEF Next, SchedulerStep

\* Tasks of normal priority are served in the order of their submission, whatever is put
\* back, lost or restarted.  Inductive together with ListsByPriority: an entry of normal
\* priority is never in another list, so the one taken is the first of its kind.
THEOREM NormalTasksAreFifo == Spec => []NormalFifo
<1>1. Init => NormalFifo /\ ListsByPriority
  BY DEF Init, NormalFifo, ListsByPriority, EmptyQueues, Levels
<1>2. TypeOK /\ ServedOnce /\ NormalFifo /\ ListsByPriority /\ [Next]_vars
         => NormalFifo' /\ ListsByPriority'
  BY FifoStep
<1> QED BY <1>1, <1>2, TypeCorrect, EntriesServedOnce, PTL DEF Spec

-----------------------------------------------------------------------------
(* Nothing leaks *)

\* The case NothingLeaks is about: one request of the API at a time, and nobody
\* deletes tasks.
OneAtATime == (\A v, w \in Workers : v = w) /\ Deletable = {}

Launching(t) == pc \in {"launching", "launched", "refused"} /\ cur.task = t

\* The task has been queued at least once: someone works for it.
Known(t) ==
    \/ Launching(t)
    \/ \E r \in requests \cup boxes \cup reports : r.task = t

\* A task is launched only from 'queued', which it becomes once and leaves for good: only
\* a submit writes it, of the one request there is, that read 'pending'.
QueuedOnce ==
    /\ \A t \in Tasks : taskGpus[t] # {} => status[t] \notin {"absent", "pending", "queued"}
    /\ \A t \in Tasks : Launching(t) => taskGpus[t] = {}
    /\ \A t \in Tasks : Known(t) => status[t] \notin {"absent", "pending"}
    /\ \A w \in Workers :
          worker[w].step \in {"submitting", "pushed"} => status[worker[w].task] = "pending"

\* Steps that change no task row, begin no request and start no work.
LEMMA QueuedOnceKept ==
    ASSUME QueuedOnce, UNCHANGED <<status, taskGpus>>,
           \A t \in Tasks : Launching(t)' => Launching(t),
           \A t \in Tasks : Known(t)' => Known(t),
           \A w \in Workers : worker'[w] = worker[w] \/ worker'[w].step \notin {"submitting", "pushed"}
    PROVE  QueuedOnce'
  BY DEF QueuedOnce

LEMMA QueuedOnceApi ==
    ASSUME OneAtATime, TypeOK, QueuedOnce, ApiStep PROVE QueuedOnce'
<1> USE DEF rows, section, agents
<1>1. ASSUME NEW t \in Tasks, Create(t) PROVE QueuedOnce'
  BY <1>1 DEF Create, QueuedOnce, Known, Launching, TypeOK
<1>2. ASSUME NEW t \in Tasks, Delete(t) PROVE QueuedOnce'
  BY <1>2 DEF Delete, OneAtATime
<1>3. ASSUME NEW w \in Workers, NEW t \in Tasks, SubmitRead(w, t) PROVE QueuedOnce'
  BY <1>3 DEF SubmitRead, QueuedOnce, Known, Launching, TypeOK
<1>4. ASSUME NEW w \in Workers, NEW t \in Tasks, CancelRead(w, t) PROVE QueuedOnce'
  BY <1>4 DEF CancelRead, QueuedOnce, Known, Launching, TypeOK
<1>5. ASSUME NEW w \in Workers, SubmitPush(w) PROVE QueuedOnce'
  BY <1>5 DEF SubmitPush, QueuedOnce, Known, Launching, TypeOK
<1>6. ASSUME NEW w \in Workers, SubmitAborts(w) PROVE QueuedOnce'
  BY <1>6 DEF SubmitAborts, QueuedOnce, Known, Launching, TypeOK, IdleWorker
<1>7. ASSUME NEW w \in Workers, SubmitCommit(w) PROVE QueuedOnce'
  BY <1>7 DEF SubmitCommit, QueuedOnce, Known, Launching, TypeOK, IdleWorker, OneAtATime
<1>8. ASSUME NEW w \in Workers, CancelCommit(w) PROVE QueuedOnce'
  BY <1>8 DEF CancelCommit, QueuedOnce, Known, Launching, TypeOK, IdleWorker, OneAtATime
<1>9. ASSUME NEW r \in reports, Callback(r) PROVE QueuedOnce'
  BY <1>9 DEF Callback, QueuedOnce, Known, Launching, TypeOK, Report
<1>10. ASSUME NEW r \in reports, CallbackUnknown(r) PROVE QueuedOnce'
  BY <1>10 DEF CallbackUnknown, QueuedOnce, Known, Launching, TypeOK
<1> QED
  BY <1>1, <1>2, <1>3, <1>4, <1>5, <1>6, <1>7, <1>8, <1>9, <1>10 DEF ApiStep

LEMMA QueuedOnceScheduler ==
    ASSUME TypeOK, QueuedOnce, SchedulerStep PROVE QueuedOnce'
<1> USE DEF rows, section, agents
<1>1. CASE Dequeue \/ Skip \/ PutBack \/ LaunchTimeout \/ RowVanished \/ Crash \/ ListenerFails
  <2>1. UNCHANGED <<status, taskGpus, worker, requests, boxes, reports>>
    BY <1>1 DEF Dequeue, Skip, PutBack, LaunchTimeout, RowVanished, Crash, ListenerFails
  <2>2. pc' \in {"launching", "launched", "refused"} =>
           pc \in {"launching", "launched", "refused"} /\ cur' = cur
    BY <1>1 DEF Dequeue, Skip, PutBack, LaunchTimeout, RowVanished, Crash, ListenerFails,
                LeaveSection
  <2> QED BY <2>1, <2>2, QueuedOnceKept DEF Launching, Known
<1>2. CASE Place
  <2>1. /\ cur.task \in Tasks /\ status[cur.task] = "queued" /\ cur' = cur
        /\ UNCHANGED <<status, taskGpus, worker, boxes, reports>>
    BY <1>2 DEF Place, TypeOK, Entry
  <2>2. \A r \in requests' : r \in requests \/ r.task = cur.task
    BY <1>2 DEF Place
  <2>3. \A t \in Tasks : Launching(t)' => t = cur.task
    BY <2>1 DEF Launching
  <2>4. \A t \in Tasks : Known(t)' => Known(t) \/ t = cur.task
    BY <2>1, <2>2 DEF Known, Launching
  <2> QED BY <2>1, <2>3, <2>4 DEF QueuedOnce
<1>3. CASE CommitRunning \/ CommitFailed
  <2> DEFINE u == cur.task
  <2>1. u \in Tasks /\ Known(u)
    BY <1>3 DEF CommitRunning, CommitFailed, TypeOK, Entry, Known, Launching
  <2>2. /\ \A t \in Tasks : ~Launching(t)'
        /\ UNCHANGED <<worker, requests, boxes, reports>>
    BY <1>3 DEF CommitRunning, CommitFailed, LeaveSection, Launching
  <2>3. \A t \in Tasks : IF t = u THEN status'[t] \in {"running", "failed"}
                        ELSE status'[t] = status[t] /\ taskGpus'[t] = taskGpus[t]
    BY <1>3, <2>1 DEF CommitRunning, CommitFailed, TypeOK
  <2>4. \A t \in Tasks : Known(t)' => Known(t)
    BY <2>2 DEF Known, Launching
  <2>5. \A w \in Workers :
           worker[w].step \in {"submitting", "pushed"} => worker[w].task \in Tasks \ {u}
    BY <2>1 DEF QueuedOnce, TypeOK, IdleWorker
  <2>6. \A t \in Tasks : taskGpus'[t] # {} => status'[t] \notin {"absent", "pending", "queued"}
    BY <2>3 DEF QueuedOnce
  <2>7. \A t \in Tasks : Known(t)' => status'[t] \notin {"absent", "pending"}
    BY <2>3, <2>4 DEF QueuedOnce
  <2>8. \A w \in Workers : worker'[w].step \in {"submitting", "pushed"} =>
           status'[worker'[w].task] = "pending"
    BY <2>2, <2>3, <2>5 DEF QueuedOnce
  <2> QED BY <2>2, <2>6, <2>7, <2>8 DEF QueuedOnce
<1>4. CASE FinishTask
  BY <1>4 DEF FinishTask, QueuedOnce, Known, Launching, TypeOK
<1> QED BY <1>1, <1>2, <1>3, <1>4 DEF SchedulerStep

LEMMA QueuedOnceAgent ==
    ASSUME TypeOK, QueuedOnce, AgentStep PROVE QueuedOnce'
<1> USE DEF rows, section, agents
<1>1. UNCHANGED <<status, taskGpus, worker, cur>>
  BY DEF AgentStep, AgentStart, AgentRefuse, BoxExit
<1>2. pc' \in {"launching", "launched", "refused"} => pc \in {"launching", "launched", "refused"}
  BY DEF AgentStep, AgentStart, AgentRefuse, BoxExit, Awaited
<1>3. \A r \in requests' \cup boxes' \cup reports' :
         \E q \in requests \cup boxes \cup reports : r.task = q.task
  BY DEF AgentStep, AgentStart, AgentRefuse, BoxExit
<1>4. \A t \in Tasks : (Launching(t)' => Launching(t)) /\ (Known(t)' => Known(t))
  BY <1>1, <1>2, <1>3 DEF Launching, Known
<1> QED BY <1>1, <1>4, QueuedOnceKept

LEMMA LeaksStep ==
    ASSUME OneAtATime, TypeOK, QueuedOnce, NothingLeaks, [Next]_vars PROVE NothingLeaks'
<1> USE DEF rows, section, agents
<1>1. CASE UNCHANGED <<gpuStatus, taskGpus>>
  BY <1>1 DEF NothingLeaks
<1>2. CASE ApiStep
  <2>1. \A t \in Tasks : ~Delete(t)
    BY DEF Delete, OneAtATime
  <2> QED
    BY <1>1, <1>2, <2>1
    DEF ApiStep, Create, SubmitRead, CancelRead, SubmitPush, SubmitAborts,
        SubmitCommit, CancelCommit, Callback, CallbackUnknown
<1>3. CASE AgentStep
  BY <1>1, <1>3 DEF AgentStep, AgentStart, AgentRefuse, BoxExit
<1>4. CASE Dequeue \/ Skip \/ PutBack \/ Place \/ LaunchTimeout \/ CommitFailed
           \/ RowVanished \/ Crash \/ ListenerFails
  BY <1>1, <1>4
  DEF Dequeue, Skip, PutBack, Place, LaunchTimeout, CommitFailed, RowVanished, Crash,
      ListenerFails
<1>5. CASE CommitRunning
  <2> DEFINE u == cur.task
  <2>1. u \in Tasks /\ taskGpus[u] = {}
    BY <1>5 DEF CommitRunning, TypeOK, Entry, QueuedOnce, Launching
  <2>2. /\ taskGpus' = [taskGpus EXCEPT ![u] = allocGpus]
        /\ gpuStatus' = [g \in Gpus |-> IF g \in allocGpus THEN "allocated" ELSE gpuStatus[g]]
    BY <1>5 DEF CommitRunning
  <2>3. \A t \in Tasks : taskGpus[t] \subseteq taskGpus'[t]
    BY <2>1, <2>2 DEF TypeOK
  <2>4. taskGpus'[u] = allocGpus
    BY <2>1, <2>2 DEF TypeOK
  <2> QED BY <2>1, <2>2, <2>3, <2>4 DEF NothingLeaks
<1>6. CASE FinishTask
  <2> DEFINE u == Head(notices)
  <2>1. u \in Tasks
    BY <1>6 DEF TypeOK, FinishTask
  <2>2. /\ taskGpus' = [taskGpus EXCEPT ![u] = {}]
        /\ gpuStatus' = [g \in Gpus |-> IF g \in taskGpus[u] THEN "idle" ELSE gpuStatus[g]]
    BY <1>6 DEF FinishTask
  <2>3. \A t \in Tasks : taskGpus'[t] = IF t = u THEN {} ELSE taskGpus[t]
    BY <2>1, <2>2 DEF TypeOK
  <2> QED BY <2>2, <2>3 DEF NothingLeaks
<1>7. CASE UNCHANGED vars
  BY <1>1, <1>7 DEF vars
<1> QED BY <1>2, <1>3, <1>4, <1>5, <1>6, <1>7 DEF Next, SchedulerStep

\* While requests are served one after the other and no task is deleted, every allocated row
\* is held by a task, through crashes, lost messages, repeated callbacks and late starts.
\* Inductive together with QueuedOnce: no launch overwrites assigned_gpu_indices.
THEOREM NoRowLeaks == ASSUME OneAtATime PROVE Spec => []NothingLeaks
<1>1. Init => QueuedOnce /\ NothingLeaks
  BY DEF Init, QueuedOnce, NothingLeaks, Known, Launching, IdleWorker
<1>2. TypeOK /\ QueuedOnce /\ [Next]_vars => QueuedOnce'
  <2>1. CASE UNCHANGED vars
    BY <2>1 DEF QueuedOnce, Known, Launching, vars, rows, section, agents
  <2> QED BY <2>1, QueuedOnceApi, QueuedOnceScheduler, QueuedOnceAgent DEF Next
<1>3. TypeOK /\ QueuedOnce /\ NothingLeaks /\ [Next]_vars => NothingLeaks'
  BY LeaksStep
<1> QED BY <1>1, <1>2, <1>3, TypeCorrect, PTL DEF Spec
=============================================================================
