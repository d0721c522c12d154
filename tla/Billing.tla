------------------------------- MODULE Billing -------------------------------
(***************************************************************************)
(* calculate_task_billing, which celery beat starts every five minutes,    *)
(* next to the steps that change what it reads: the callbacks of a task,   *)
(* of any status and at any time, the scheduler that commits a second      *)
(* launch or clears assigned_gpu_indices, and the deletion of a task.  A   *)
(* celery worker runs several tasks at a time and nothing keeps two        *)
(* billing runs apart, so "Runs" is the number of them.                    *)
(*                                                                         *)
(* A run reads the unbilled tasks, then their users, charges one task      *)
(* after the other in memory and writes everything in one commit; the new  *)
(* credits are written as a value, not as a difference.                    *)
(*                                                                         *)
(* Amounts are integers in units of 0.0001 credits, the scale of           *)
(* cost_credits; users.credits has two decimals, so it is a multiple of    *)
(* Cent.  gpu_hour_rate has its default of 1 credit.                       *)
(***************************************************************************)
EXTENDS Integers, FiniteSetsExt

CONSTANTS
    Tasks,       \* tasks that were launched
    Users,
    Owner,       \* tasks.user_id
    GpuCount,    \* how many GPUs each task was given
    Durations,   \* bound: seconds from started_at to finished_at, < 0 as well
    Purses,      \* bound: credits a user starts with, in cents
    Runs,        \* billing runs that may be active at one time
    MaxMishaps   \* bound: billing runs killed, second launches and callbacks after
                 \* a final one, in a behaviour

ASSUME BillingAssumption ==
    /\ IsFiniteSet(Tasks)
    /\ Owner \in [Tasks -> Users]
    /\ GpuCount \in [Tasks -> Nat]
    /\ Durations \subseteq Int
    /\ Purses \subseteq Nat
    /\ MaxMishaps \in Nat

VARIABLES
    status,    \* tasks.status
    duration,  \* finished_at - started_at in seconds, 0 before
    gpus,      \* len(tasks.assigned_gpu_indices or [])
    ended,     \* the tasks whose finished message was published
    billed,    \* tasks.billed
    credits,   \* users.credits
    records,   \* how many billing_records rows were written for each task
    paid,      \* the sum of their cost_credits
    purse,     \* history: the credits each user had in the beginning
    run,       \* the memory of each billing run
    overlap,   \* history: two runs were active at one time
    mishaps    \* history: how many of the steps that MaxMishaps bounds there were

taskRows == <<status, duration, gpus, ended, billed>>
ledger == <<credits, records, paid>>
history == <<purse, overlap, mishaps>>
billingVars == <<taskRows, ledger, run, history>>

Unit == 10000          \* one credit
Cent == 100            \* 0.01 credits

\* Decimal.quantize(..., ROUND_HALF_UP) of a non-negative quotient a / b.
HalfUp(a, b) == (2 * a + b) \div (2 * b)

Billable(seconds) == IF seconds > 0 THEN seconds ELSE 0

\* The cost of a run time on some GPUs, to four decimals.
Cost(seconds, n) == HalfUp(Billable(seconds) * n * Unit, 3600)

\* A seeded mistake: the rest is cut off.
Remaining_CutOff(balance, cost) == Cent * ((balance - cost) \div Cent)

\* What remains of a balance, to two decimals.
Remaining(balance, cost) == Cent * HalfUp(balance - cost, Cent)

Item == [task : Tasks, cost : Nat]
IdleRun == [step |-> "idle", todo |-> {}, read |-> [u \in Users |-> 0],
            wallet |-> [u \in Users |-> 0], done |-> {}, bills |-> [t \in Tasks |-> 0]]

BillingInit ==
    /\ status = [t \in Tasks |-> "running"]
    /\ duration = [t \in Tasks |-> 0]
    /\ gpus = GpuCount
    /\ ended = {}
    /\ billed = [t \in Tasks |-> FALSE]
    /\ \E p \in [Users -> Purses] : credits = [u \in Users |-> Cent * p[u]]
    /\ records = [t \in Tasks |-> 0]
    /\ paid = [t \in Tasks |-> 0]
    /\ purse = credits
    /\ run = [r \in Runs |-> IdleRun]
    /\ overlap = FALSE
    /\ mishaps = 0

-----------------------------------------------------------------------------
(* The rest of the system *)

Mishap == mishaps < MaxMishaps /\ mishaps' = mishaps + 1

\* handle_callback takes any status in any state.  A final one writes finished_at
\* again, whether the task was charged or not.  started_at is the clock of the
\* scheduler and finished_at that of the API, so the difference may be negative.
Callback(t, text) ==
    /\ status[t] # "deleted"
    /\ status' = [status EXCEPT ![t] = text]
    /\ IF text = "running" THEN UNCHANGED <<duration, ended>>
       ELSE /\ \E d \in Durations : duration' = [duration EXCEPT ![t] = d]
            /\ ended' = ended \cup {t}
    /\ IF t \in ended THEN Mishap ELSE UNCHANGED mishaps
    /\ UNCHANGED <<gpus, billed, ledger, purse, overlap, run>>

\* The scheduler commits a launch of a task that was launched before: the duplicate
\* entry of a task submitted twice, or a launch whose callbacks overtook it.
LaunchCommit(t) ==
    /\ status[t] # "deleted"
    /\ status' = [status EXCEPT ![t] = "running"]
    /\ gpus' = [gpus EXCEPT ![t] = GpuCount[t]]
    /\ \E d \in Durations : duration' = [duration EXCEPT ![t] = d]
    /\ Mishap
    /\ UNCHANGED <<ended, billed, ledger, purse, overlap, run>>

\* The scheduler handles a finished message, whatever the status is by then.
ClearIndices(t) ==
    /\ t \in ended
    /\ status[t] # "deleted"
    /\ gpus[t] # 0
    /\ gpus' = [gpus EXCEPT ![t] = 0]
    /\ UNCHANGED <<status, duration, ended, billed, ledger, history, run>>

\* delete_task.  billing_records.task_id of a charged task becomes NULL: its rows, and
\* what they add up to for the user, stay.
DeleteTask(t) ==
    /\ status[t] \in {"success", "failed"}
    /\ status' = [status EXCEPT ![t] = "deleted"]
    /\ UNCHANGED <<duration, gpus, ended, billed, ledger, history, run>>

-----------------------------------------------------------------------------
(* A billing run *)

\* The SELECT of the unbilled tasks, with the columns the cost depends on.
SelectTasks(r) ==
    /\ run[r].step = "idle"
    /\ run' = [run EXCEPT ![r].step = "selected",
                  ![r].todo = {[task |-> t, cost |-> Cost(duration[t], gpus[t])] :
                                  t \in {x \in Tasks : status[x] = "success" /\ ~billed[x]}}]
    /\ overlap' = (overlap \/ \E q \in Runs : run[q].step # "idle")
    /\ UNCHANGED <<taskRows, ledger, purse, mishaps>>

\* selectinload(Task.user): a second SELECT.
LoadUsers(r) ==
    /\ run[r].step = "selected"
    /\ run' = [run EXCEPT ![r].step = "charging", ![r].read = credits,
                          ![r].wallet = credits]
    /\ UNCHANGED <<taskRows, ledger, history>>

\* A seeded mistake: the balance is not looked at.
ChargeTask_OnCredit(r, item) ==
    LET u == Owner[item.task]
        free == item.cost = 0
    IN  /\ run[r].step = "charging"
        /\ item \in run[r].todo
        /\ run' = [run EXCEPT
              ![r].todo = @ \ {item},
              ![r].wallet[u] = IF free THEN @ ELSE Remaining(@, item.cost),
              ![r].done = @ \cup {item.task},
              ![r].bills[item.task] = item.cost]
        /\ UNCHANGED <<taskRows, ledger, history>>

\* A seeded mistake: a task with nothing to pay is passed over.
ChargeTask_SkipsFree(r, item) ==
    LET u == Owner[item.task]
        pays == item.cost # 0 /\ run[r].wallet[u] >= item.cost
    IN  /\ run[r].step = "charging"
        /\ item \in run[r].todo
        /\ run' = [run EXCEPT
              ![r].todo = @ \ {item},
              ![r].wallet[u] = IF pays THEN Remaining(@, item.cost) ELSE @,
              ![r].done = IF pays THEN @ \cup {item.task} ELSE @,
              ![r].bills[item.task] = IF pays THEN item.cost ELSE 0]
        /\ UNCHANGED <<taskRows, ledger, history>>

\* One turn of the loop.  Nothing to pay marks the task billed; a user who cannot
\* pay keeps the task for a later run.
ChargeTask(r, item) ==
    LET u == Owner[item.task]
        free == item.cost = 0
        solvent == run[r].wallet[u] >= item.cost
    IN  /\ run[r].step = "charging"
        /\ item \in run[r].todo
        /\ run' = [run EXCEPT
              ![r].todo = @ \ {item},
              ![r].wallet[u] = IF free \/ ~solvent THEN @ ELSE Remaining(@, item.cost),
              ![r].done = IF free \/ solvent THEN @ \cup {item.task} ELSE @,
              ![r].bills[item.task] = IF solvent THEN item.cost ELSE 0]
        /\ UNCHANGED <<taskRows, ledger, history>>

\* A seeded mistake: the flag is not written.
CommitRun_ForgetsBilled(r) ==
    /\ run[r].step = "charging"
    /\ run[r].todo = {}
    /\ \A t \in run[r].done : status[t] # "deleted"
    /\ credits' = [u \in Users |->
          IF run[r].wallet[u] # run[r].read[u] THEN run[r].wallet[u] ELSE credits[u]]
    /\ records' = [t \in Tasks |-> records[t] + (IF run[r].bills[t] > 0 THEN 1 ELSE 0)]
    /\ paid' = [t \in Tasks |-> paid[t] + run[r].bills[t]]
    /\ run' = [run EXCEPT ![r] = IdleRun]
    /\ UNCHANGED <<taskRows, history>>

\* The commit: only balances that changed in memory are written.
CommitRun(r) ==
    /\ run[r].step = "charging"
    /\ run[r].todo = {}
    /\ \A t \in run[r].done : status[t] # "deleted"
    /\ credits' = [u \in Users |->
          IF run[r].wallet[u] # run[r].read[u] THEN run[r].wallet[u] ELSE credits[u]]
    /\ records' = [t \in Tasks |-> records[t] + (IF run[r].bills[t] > 0 THEN 1 ELSE 0)]
    /\ paid' = [t \in Tasks |-> paid[t] + run[r].bills[t]]
    /\ billed' = [t \in Tasks |-> billed[t] \/ t \in run[r].done]
    /\ run' = [run EXCEPT ![r] = IdleRun]
    /\ UNCHANGED <<status, duration, gpus, ended, history>>

\* A seeded mistake: the session with its objects is used for the next run.
CommitFails_KeepsMemory(r) ==
    /\ run[r].step = "charging"
    /\ run[r].todo = {}
    /\ \E t \in run[r].done : status[t] = "deleted"
    /\ run' = [run EXCEPT ![r].step = "idle"]
    /\ UNCHANGED <<taskRows, ledger, history>>

\* The UPDATE of a row that is gone fails and the whole run is rolled back.
CommitFails(r) ==
    /\ run[r].step = "charging"
    /\ run[r].todo = {}
    /\ \E t \in run[r].done : status[t] = "deleted"
    /\ run' = [run EXCEPT ![r] = IdleRun]
    /\ UNCHANGED <<taskRows, ledger, history>>

\* The worker is killed: nothing is written, the next run starts from the tables.
RunDies(r) ==
    /\ Mishap
    /\ run[r].step # "idle"
    /\ run' = [run EXCEPT ![r] = IdleRun]
    /\ UNCHANGED <<taskRows, ledger, purse, overlap>>

BillingNext ==
    \/ \E t \in Tasks :
          \/ \E text \in {"running", "success", "failed"} : Callback(t, text)
          \/ LaunchCommit(t) \/ ClearIndices(t) \/ DeleteTask(t)
    \/ \E r \in Runs :
          \/ SelectTasks(r) \/ LoadUsers(r)
          \/ \E item \in run[r].todo : ChargeTask(r, item)
          \/ CommitRun(r) \/ CommitFails(r) \/ RunDies(r)

BillingSpec == BillingInit /\ [][BillingNext]_billingVars

\* Beat starts a run every five minutes and a run that was started goes on; it may be
\* killed, but not for ever.
BillingFairness ==
    \A r \in Runs :
        WF_billingVars(SelectTasks(r) \/ LoadUsers(r) \/ CommitRun(r) \/ CommitFails(r)
                          \/ \E item \in run[r].todo : ChargeTask(r, item))

BillingFairSpec == BillingSpec /\ BillingFairness

-----------------------------------------------------------------------------
(* Correctness *)

\* The type invariant; the memory of a run is empty between two runs.
BillingTypeOK ==
    /\ status \in [Tasks -> {"running", "success", "failed", "deleted"}]
    /\ duration \in [Tasks -> Int]
    /\ gpus \in [Tasks -> Nat]
    /\ ended \subseteq Tasks
    /\ billed \in [Tasks -> BOOLEAN]
    /\ credits \in [Users -> Int] /\ purse \in [Users -> Int]
    /\ records \in [Tasks -> Nat] /\ paid \in [Tasks -> Nat]
    /\ run \in [Runs -> [step : {"idle", "selected", "charging"}, todo : SUBSET Item,
                         read : [Users -> Int], wallet : [Users -> Int],
                         done : SUBSET Tasks, bills : [Tasks -> Nat]]]
    /\ \A r \in Runs : run[r].step = "idle" => run[r] = IdleRun
    /\ overlap \in BOOLEAN /\ mishaps \in Nat

\* docs/code-remediation.md:24: charging never makes a balance negative, although a
\* run charges several tasks of a user against one balance it read, and concurrent
\* runs overwrite each other's result.
CreditsNeverNegative == \A u \in Users : credits[u] >= 0

TasksOf(u) == {t \in Tasks : Owner[t] = u}
CostOf(t) == Cost(duration[t], GpuCount[t])
Charges(u) == SumFunctionOnSet(records, TasksOf(u))
Used(u) == SumFunctionOnSet(paid, TasksOf(u))

\* The billing summary adds what remains to what was used.  While runs did not
\* overlap the sum stays what the user had in the beginning but for half a cent for
\* each charge, however the runs are cut short, rolled back or repeated, whichever
\* tasks are deleted, charged ones too, and whatever late callbacks make of the times.
SumIsKept ==
    ~overlap => \A u \in Users :
        LET drift == credits[u] + Used(u) - purse[u]
        IN  2 * drift \in -(Cent * Charges(u)) .. Cent * Charges(u)

\* While runs did not overlap a task is charged at most once.  Nothing keeps them
\* apart: two runs that overlap do charge a task twice.  A task that succeeds, or is
\* launched, once more after its charge is not charged again.
ChargedOnce == ~overlap => \A t \in Tasks : records[t] <= 1

\* Liveness: a successful task is marked billed in the end, unless it loses that
\* status or its owner cannot pay for it; one task that cannot be charged holds up no
\* other.
EventuallyBilled ==
    \A t \in Tasks :
        status[t] = "success"
            ~> billed[t] \/ status[t] # "success"
                         \/ credits[Owner[t]] < CostOf(t)

(***************************************************************************)
(* What the documents say and the code does not do.                        *)
(***************************************************************************)

\* README.md:62: GPU time is billed by duration: a task that is marked billed and
\* ran on GPUs for some time has a billing record.
BilledMeansCharged ==
    \A t \in Tasks : billed[t] /\ duration[t] > 0 /\ GpuCount[t] > 0 => records[t] > 0
=============================================================================
