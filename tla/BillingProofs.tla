---------------------------- MODULE BillingProofs ----------------------------
(***************************************************************************)
(* Proofs about Billing, for any number of tasks, users and billing runs,  *)
(* any run times and any balances.                                         *)
(***************************************************************************)
EXTENDS Billing, FiniteSetTheorems, WellFoundedInduction, TLAPS

-----------------------------------------------------------------------------
(* Amounts *)

\* Rounding a quotient of a natural number gives a natural number.
LEMMA HalfUpNat ==
    ASSUME NEW a \in Nat, NEW b \in Nat \ {0}
    PROVE  HalfUp(a, b) \in Nat
  <1>1. 2 * a + b \in Nat /\ 2 * b \in Nat \ {0}
    OBVIOUS
  <1>2. \A x \in Nat, y \in Nat \ {0} : x \div y \in Nat
    OBVIOUS
  <1> QED
    BY <1>1, <1>2 DEF HalfUp

\* The cost of a task is a natural number, whatever the clocks said.
LEMMA CostNat ==
    ASSUME NEW s \in Int, NEW n \in Nat
    PROVE  Cost(s, n) \in Nat
  <1>1. Billable(s) \in Nat
    BY DEF Billable
  <1>2. \A x, y \in Nat : x * y \in Nat
    OBVIOUS
  <1>3. Billable(s) * n * Unit \in Nat
    BY <1>1, <1>2 DEF Unit
  <1> QED
    BY <1>3, HalfUpNat DEF Cost

\* What remains of a balance that covers the cost is not negative.
LEMMA RemainingNat ==
    ASSUME NEW b \in Int, NEW c \in Nat, b >= c
    PROVE  Remaining(b, c) \in Nat
  <1>1. b - c \in Nat
    OBVIOUS
  <1>2. HalfUp(b - c, Cent) \in Nat
    BY <1>1, HalfUpNat DEF Cent
  <1> QED
    BY <1>2 DEF Remaining, Cent

-----------------------------------------------------------------------------
(* Types, and balances that are never negative *)

\* The balances in the table and those every run holds in memory.
Solvent ==
    /\ \A u \in Users : credits[u] >= 0
    /\ \A r \in Runs : \A u \in Users : run[r].wallet[u] >= 0

Memory == [step : {"idle", "selected", "charging"}, todo : SUBSET Item,
           read : [Users -> Int], wallet : [Users -> Int],
           done : SUBSET Tasks, bills : [Tasks -> Nat]]

LEMMA IdleRunTyped == IdleRun \in Memory /\ \A u \in Users : IdleRun.wallet[u] = 0
  BY DEF IdleRun, Memory

\* One turn of the loop keeps the memory of a run typed and solvent.
LEMMA ChargeTyped ==
    ASSUME BillingTypeOK, Solvent, NEW r \in Runs, NEW item \in run[r].todo,
           ChargeTask(r, item)
    PROVE  /\ run' \in [Runs -> Memory]
           /\ \A q \in Runs : run'[q].step = "idle" => run'[q] = IdleRun
           /\ \A q \in Runs : \A u \in Users : run'[q].wallet[u] >= 0
  <1> USE BillingAssumption
  <1> DEFINE u == Owner[item.task]
             free == item.cost = 0
             able == run[r].wallet[u] >= item.cost
             w == IF free \/ ~able THEN run[r].wallet[u]
                  ELSE Remaining(run[r].wallet[u], item.cost)
             m == [run[r] EXCEPT !.todo = @ \ {item},
                      !.wallet[u] = w,
                      !.done = IF free \/ able THEN @ \cup {item.task} ELSE @,
                      !.bills[item.task] = IF able THEN item.cost ELSE 0]
  <1>1. run[r] \in Memory /\ run \in [Runs -> Memory]
    BY DEF BillingTypeOK, Memory
  <1>2. item.task \in Tasks /\ item.cost \in Nat /\ u \in Users
    BY <1>1 DEF Memory, Item
  <1>3. w \in Int /\ w >= 0
    <2>1. run[r].wallet[u] \in Int /\ run[r].wallet[u] >= 0
      BY <1>1, <1>2 DEF Memory, Solvent
    <2>2. CASE free \/ ~able
      BY <2>1, <2>2
    <2>3. CASE ~(free \/ ~able)
      BY <2>1, <2>3, <1>2, RemainingNat
    <2> QED
      BY <2>2, <2>3
  <1>4. run' = [run EXCEPT ![r] = m]
    BY <1>1, <1>2 DEF ChargeTask, Memory
  <1>5. m \in Memory /\ m.step = "charging" /\ \A x \in Users : m.wallet[x] >= 0
    <2> DEFINE tm == run[r].todo \ {item}
               wm == [run[r].wallet EXCEPT ![u] = w]
               dm == IF free \/ able THEN run[r].done \cup {item.task} ELSE run[r].done
               bm == [run[r].bills EXCEPT ![item.task] = IF able THEN item.cost ELSE 0]
    <2>1. wm \in [Users -> Int] /\ \A x \in Users : wm[x] >= 0
      BY <1>1, <1>2, <1>3 DEF Memory, Solvent
    <2>2. bm \in [Tasks -> Nat]
      <3>1. run[r].bills \in [Tasks -> Nat]
        BY <1>1 DEF Memory
      <3>2. (IF able THEN item.cost ELSE 0) \in Nat
        BY <1>2
      <3> HIDE DEF able
      <3> QED
        BY <3>1, <3>2
    <2>3. tm \subseteq Item /\ dm \subseteq Tasks
      BY <1>1, <1>2 DEF Memory
    <2>4. m = [run[r] EXCEPT !.todo = tm, !.wallet = wm, !.done = dm, !.bills = bm]
      BY <1>1 DEF Memory
    <2>5. run[r].step = "charging"
      BY DEF ChargeTask
    <2> HIDE DEF tm, wm, dm, bm, m
    <2>6. m \in Memory
      BY <1>1, <2>1, <2>2, <2>3, <2>4 DEF Memory
    <2>7. m.step = "charging" /\ m.wallet = wm
      BY <1>1, <2>4, <2>5 DEF Memory
    <2> QED
      BY <2>1, <2>6, <2>7
  <1> HIDE DEF m
  <1>6. \A q \in Runs : run'[q] = IF q = r THEN m ELSE run[q]
    BY <1>1, <1>4
  <1>7. run' \in [Runs -> Memory]
    BY <1>1, <1>4, <1>5
  <1>8. \A q \in Runs : run'[q].step = "idle" => run'[q] = IdleRun
    BY <1>5, <1>6 DEF BillingTypeOK
  <1> QED
    BY <1>5, <1>6, <1>7, <1>8 DEF Solvent

LEMMA BillingInitTyped == BillingInit => BillingTypeOK /\ Solvent
  <1> SUFFICES ASSUME BillingInit PROVE BillingTypeOK /\ Solvent
    OBVIOUS
  <1> USE BillingAssumption
  <1>1. PICK p \in [Users -> Purses] : credits = [u \in Users |-> Cent * p[u]]
    BY DEF BillingInit
  <1>2. \A u \in Users : credits[u] \in Int /\ credits[u] >= 0
    <2>1. \A u \in Users : p[u] \in Nat
      OBVIOUS
    <2>2. \A u \in Users : credits[u] = 100 * p[u]
      BY <1>1 DEF Cent
    <2> QED
      BY <2>1, <2>2
  <1>3. credits \in [Users -> Int] /\ purse \in [Users -> Int]
    BY <1>1, <1>2 DEF BillingInit
  <1>4. run \in [Runs -> Memory] /\ \A r \in Runs : run[r] = IdleRun
    BY IdleRunTyped DEF BillingInit
  <1>5. status \in [Tasks -> {"running", "success", "failed", "deleted"}]
        /\ duration \in [Tasks -> Int] /\ gpus \in [Tasks -> Nat]
        /\ billed \in [Tasks -> BOOLEAN] /\ records \in [Tasks -> Nat]
        /\ paid \in [Tasks -> Nat] /\ ended \subseteq Tasks /\ mishaps \in Nat
    BY DEF BillingInit
  <1>o. overlap \in BOOLEAN
    BY Zenon DEF BillingInit
  <1>6. BillingTypeOK
    BY <1>3, <1>4, <1>5, <1>o DEF BillingTypeOK, Memory
  <1>7. Solvent
    BY <1>2, <1>4, IdleRunTyped DEF Solvent
  <1> QED
    BY <1>6, <1>7

LEMMA BillingStepTyped ==
    BillingTypeOK /\ Solvent /\ [BillingNext]_billingVars => (BillingTypeOK /\ Solvent)'
  <1> SUFFICES ASSUME BillingTypeOK, Solvent, [BillingNext]_billingVars
               PROVE  (BillingTypeOK /\ Solvent)'
    OBVIOUS
  <1> USE BillingAssumption
  <1>m. run \in [Runs -> Memory] /\ \A r \in Runs : run[r].step = "idle" => run[r] = IdleRun
    BY DEF BillingTypeOK, Memory
  <1>0. ASSUME Mishap PROVE mishaps' \in Nat
    BY <1>0 DEF Mishap, BillingTypeOK
  <1>1. ASSUME NEW t \in Tasks, NEW text \in {"running", "success", "failed"},
               Callback(t, text)
        PROVE  (BillingTypeOK /\ Solvent)'
    <2>1. status' \in [Tasks -> {"running", "success", "failed", "deleted"}]
      BY <1>1 DEF Callback, BillingTypeOK
    <2>2. duration' \in [Tasks -> Int] /\ ended' \subseteq Tasks
      <3>1. CASE text = "running"
        BY <1>1, <3>1 DEF Callback, BillingTypeOK
      <3>2. CASE text # "running"
        <4>1. /\ \E d \in Durations : duration' = [duration EXCEPT ![t] = d]
              /\ ended' = ended \cup {t}
          BY <1>1, <3>2 DEF Callback
        <4> QED
          BY <4>1 DEF BillingTypeOK
      <3> QED
        BY <3>1, <3>2
    <2>3. mishaps' \in Nat
      BY <1>1, <1>0 DEF Callback, BillingTypeOK
    <2> QED
      BY <1>1, <2>1, <2>2, <2>3 DEF Callback, BillingTypeOK, Solvent, ledger
  <1>2. ASSUME NEW t \in Tasks, LaunchCommit(t) PROVE (BillingTypeOK /\ Solvent)'
    <2>1. status' \in [Tasks -> {"running", "success", "failed", "deleted"}]
          /\ duration' \in [Tasks -> Int] /\ gpus' \in [Tasks -> Nat]
      BY <1>2 DEF LaunchCommit, BillingTypeOK
    <2> QED
      BY <1>0, <1>2, <2>1 DEF LaunchCommit, BillingTypeOK, Solvent, ledger
  <1>3. ASSUME NEW t \in Tasks, ClearIndices(t) \/ DeleteTask(t)
        PROVE  (BillingTypeOK /\ Solvent)'
    <2>1. status' \in [Tasks -> {"running", "success", "failed", "deleted"}]
      BY <1>3 DEF ClearIndices, DeleteTask, BillingTypeOK
    <2>2. gpus' \in [Tasks -> Nat]
      BY <1>3 DEF ClearIndices, DeleteTask, BillingTypeOK
    <2>3. UNCHANGED <<duration, ended, billed, ledger, history, run>>
      BY <1>3 DEF ClearIndices, DeleteTask
    <2> QED
      BY <2>1, <2>2, <2>3 DEF BillingTypeOK, Solvent, ledger, history
  <1>4. ASSUME NEW r \in Runs, SelectTasks(r) PROVE (BillingTypeOK /\ Solvent)'
    <2> DEFINE T == {[task |-> t, cost |-> Cost(duration[t], gpus[t])] :
                        t \in {x \in Tasks : status[x] = "success" /\ ~billed[x]}}
               m == [run[r] EXCEPT !.step = "selected", !.todo = T]
    <2>1. \A t \in Tasks : Cost(duration[t], gpus[t]) \in Nat
      BY CostNat DEF BillingTypeOK
    <2>2. T \in SUBSET Item
      BY <2>1 DEF Item
    <2>3. run' = [run EXCEPT ![r] = m]
      BY <1>4, <1>m DEF SelectTasks, Memory
    <2> HIDE DEF T
    <2>4. m \in Memory /\ m.step = "selected" /\ m.wallet = run[r].wallet
      BY <1>m, <2>2 DEF Memory
    <2> HIDE DEF m
    <2>5. \A q \in Runs : run'[q] = IF q = r THEN m ELSE run[q]
      BY <1>m, <2>3
    <2>6. run' \in [Runs -> Memory]
      BY <1>m, <2>3, <2>4
    <2>7. \A q \in Runs : run'[q].step = "idle" => run'[q] = IdleRun
      BY <1>m, <2>4, <2>5
    <2>8. \A q \in Runs : run'[q].wallet = run[q].wallet
      BY <2>4, <2>5
    <2>9. BillingTypeOK'
      BY <1>4, <2>6, <2>7 DEF SelectTasks, BillingTypeOK, Memory, taskRows, ledger
    <2> QED
      BY <1>4, <2>8, <2>9 DEF SelectTasks, Solvent, ledger
  <1>5. ASSUME NEW r \in Runs, LoadUsers(r) PROVE (BillingTypeOK /\ Solvent)'
    <2> DEFINE m == [run[r] EXCEPT !.step = "charging", !.read = credits, !.wallet = credits]
    <2>1. run' = [run EXCEPT ![r] = m]
      BY <1>5, <1>m DEF LoadUsers, Memory
    <2>2. m \in Memory /\ m.step = "charging" /\ m.wallet = credits
      <3>1. run[r] \in Memory /\ credits \in [Users -> Int]
        BY <1>m DEF BillingTypeOK
      <3> QED
        BY <3>1 DEF Memory
    <2> HIDE DEF m
    <2>3. \A q \in Runs : run'[q] = IF q = r THEN m ELSE run[q]
      BY <1>m, <2>1
    <2>4. run' \in [Runs -> Memory]
      BY <1>m, <2>1, <2>2
    <2>5. \A q \in Runs : run'[q].step = "idle" => run'[q] = IdleRun
      BY <1>m, <2>2, <2>3
    <2>6. BillingTypeOK'
      BY <1>5, <2>4, <2>5 DEF LoadUsers, BillingTypeOK, Memory, taskRows, ledger, history
    <2> QED
      BY <1>5, <2>2, <2>3, <2>6 DEF LoadUsers, Solvent, ledger
  <1>6. ASSUME NEW r \in Runs, NEW item \in run[r].todo, ChargeTask(r, item)
        PROVE  (BillingTypeOK /\ Solvent)'
    <2>1. /\ run' \in [Runs -> Memory]
          /\ \A q \in Runs : run'[q].step = "idle" => run'[q] = IdleRun
          /\ \A q \in Runs : \A u \in Users : run'[q].wallet[u] >= 0
      BY <1>6, ChargeTyped
    <2>2. UNCHANGED <<taskRows, ledger, history>>
      BY <1>6 DEF ChargeTask
    <2> QED
      BY <2>1, <2>2 DEF BillingTypeOK, Memory, Solvent, taskRows, ledger, history
  <1>e. ASSUME NEW r \in Runs, run' = [run EXCEPT ![r] = IdleRun]
        PROVE  /\ run' \in [Runs -> Memory]
               /\ \A q \in Runs : run'[q].step = "idle" => run'[q] = IdleRun
               /\ \A q \in Runs : \A u \in Users : run'[q].wallet[u] >= 0
    BY <1>e, <1>m, IdleRunTyped DEF Solvent
  <1>7. ASSUME NEW r \in Runs, CommitRun(r) PROVE (BillingTypeOK /\ Solvent)'
    <2>1. credits' \in [Users -> Int] /\ \A u \in Users : credits'[u] >= 0
      BY <1>7, <1>m DEF CommitRun, BillingTypeOK, Memory, Solvent
    <2>2. records' \in [Tasks -> Nat] /\ paid' \in [Tasks -> Nat]
      <3>1. \A t \in Tasks : records[t] \in Nat /\ paid[t] \in Nat /\ run[r].bills[t] \in Nat
        BY <1>m DEF BillingTypeOK, Memory
      <3>2. \A m, n \in Nat : m + n \in Nat
        OBVIOUS
      <3>3. \A t \in Tasks : (IF run[r].bills[t] > 0 THEN 1 ELSE 0) \in Nat
        OBVIOUS
      <3> QED
        BY <1>7, <3>1, <3>2, <3>3 DEF CommitRun
    <2>3. billed' \in [Tasks -> BOOLEAN]
      BY <1>7 DEF CommitRun, BillingTypeOK
    <2>4. run' = [run EXCEPT ![r] = IdleRun] /\ UNCHANGED <<status, duration, gpus, ended, history>>
      BY <1>7 DEF CommitRun
    <2> QED
      BY <1>e, <2>1, <2>2, <2>3, <2>4 DEF BillingTypeOK, Memory, Solvent, history
  <1>8. ASSUME NEW r \in Runs, CommitFails(r) \/ RunDies(r) PROVE (BillingTypeOK /\ Solvent)'
    <2>1. run' = [run EXCEPT ![r] = IdleRun] /\ UNCHANGED <<taskRows, ledger, purse, overlap>>
      BY <1>8 DEF CommitFails, RunDies, history
    <2>2. mishaps' \in Nat
      BY <1>8, <1>0 DEF CommitFails, RunDies, history, BillingTypeOK
    <2> QED
      BY <1>e, <2>1, <2>2 DEF BillingTypeOK, Memory, Solvent, taskRows, ledger
  <1>9. CASE UNCHANGED billingVars
    BY <1>9 DEF billingVars, taskRows, ledger, history, BillingTypeOK, Solvent
  <1> QED
    BY <1>1, <1>2, <1>3, <1>4, <1>5, <1>6, <1>7, <1>8, <1>9 DEF BillingNext

\* The type invariant of Billing.
THEOREM BillingTypeCorrect == BillingSpec => []BillingTypeOK
  <1>1. BillingSpec => [](BillingTypeOK /\ Solvent)
    BY BillingInitTyped, BillingStepTyped, PTL DEF BillingSpec
  <1> QED
    BY <1>1, PTL

\* No balance is ever negative: however many billing runs overlap, each writes a
\* balance it has seen, less what that balance covers (calculate_task_billing).
THEOREM NoBalanceIsNegative == BillingSpec => []CreditsNeverNegative
  <1>1. BillingSpec => [](BillingTypeOK /\ Solvent)
    BY BillingInitTyped, BillingStepTyped, PTL DEF BillingSpec
  <1>2. Solvent => CreditsNeverNegative
    BY DEF Solvent, CreditsNeverNegative
  <1> QED
    BY <1>1, <1>2, PTL

-----------------------------------------------------------------------------
(* Runs that do not overlap charge a task once *)

\* Only one run is active.  A charge marks the task billed in the same commit, and the
\* run works on tasks that were not billed when it read them; nobody else can bill
\* them meanwhile.
ChargesMatchFlags ==
    ~overlap =>
        /\ \A q, r \in Runs : run[q].step # "idle" /\ run[r].step # "idle" => q = r
        /\ \A t \in Tasks : records[t] \in {0, 1} /\ (records[t] = 1 => billed[t])
        /\ \A r \in Runs :
              /\ \A item \in run[r].todo : ~billed[item.task]
              /\ \A t \in Tasks : run[r].bills[t] > 0 => t \in run[r].done /\ ~billed[t]

LEMMA IdleBills == \A t \in Tasks : IdleRun.bills[t] = 0
  BY DEF IdleRun

LEMMA FlagsInit == BillingInit => ChargesMatchFlags
  <1> SUFFICES ASSUME BillingInit PROVE ChargesMatchFlags
    OBVIOUS
  <1>1. \A r \in Runs : run[r].step = "idle" /\ run[r].todo = {}
    BY DEF BillingInit, IdleRun
  <1>2. \A r \in Runs : \A t \in Tasks : ~ (run[r].bills[t] > 0)
    BY IdleBills DEF BillingInit
  <1>3. \A t \in Tasks : records[t] = 0
    BY DEF BillingInit
  <1> QED
    BY <1>1, <1>2, <1>3 DEF ChargesMatchFlags

LEMMA FlagsStep ==
    BillingTypeOK /\ ChargesMatchFlags /\ [BillingNext]_billingVars => ChargesMatchFlags'
  <1> SUFFICES ASSUME BillingTypeOK, ChargesMatchFlags, [BillingNext]_billingVars, ~overlap'
               PROVE  ChargesMatchFlags'
    BY DEF ChargesMatchFlags
  <1>m. run \in [Runs -> Memory] /\ \A r \in Runs : run[r].step = "idle" => run[r] = IdleRun
    BY DEF BillingTypeOK, Memory
  <1>1. ASSUME NEW t \in Tasks,
               \/ \E text \in {"running", "success", "failed"} : Callback(t, text)
               \/ LaunchCommit(t) \/ ClearIndices(t) \/ DeleteTask(t)
        PROVE  ChargesMatchFlags'
    <2>1. UNCHANGED <<billed, records, run, overlap>>
      BY <1>1 DEF Callback, LaunchCommit, ClearIndices, DeleteTask, ledger, history
    <2> QED
      BY <2>1 DEF ChargesMatchFlags
  <1>2. ASSUME NEW r \in Runs, SelectTasks(r) PROVE ChargesMatchFlags'
    <2>1. ~overlap /\ \A q \in Runs : run[q].step = "idle"
      BY <1>2 DEF SelectTasks
    <2>2. run'[r].bills = IdleRun.bills /\ \A q \in Runs \ {r} : run'[q] = IdleRun
      <3>1. run[r] = IdleRun
        BY <1>m, <2>1
      <3>2. run'[r].bills = run[r].bills
        BY <1>2, <1>m DEF SelectTasks, Memory
      <3>3. \A q \in Runs \ {r} : run'[q] = run[q]
        BY <1>2, <1>m DEF SelectTasks
      <3>. QED  BY <1>m, <2>1, <3>1, <3>2, <3>3
    <2>3. \A item \in run'[r].todo : ~billed[item.task]
      BY <1>2, <1>m DEF SelectTasks, Memory
    <2>4. UNCHANGED <<billed, records>>
      BY <1>2 DEF SelectTasks, taskRows, ledger
    <2>5. \A t \in Tasks : records[t] \in {0, 1} /\ (records[t] = 1 => billed[t])
      BY <2>1 DEF ChargesMatchFlags
    <2>6. \A q \in Runs \ {r} : /\ run'[q].step = "idle" /\ run'[q].todo = {}
                                /\ run'[q].bills = IdleRun.bills
      BY <2>2 DEF IdleRun
    <2>7. \A p, q \in Runs : run'[p].step # "idle" /\ run'[q].step # "idle" => p = q
      BY <2>6
    <2>8. \A q \in Runs :
             /\ \A item \in run'[q].todo : ~billed[item.task]
             /\ \A t \in Tasks : ~ (run'[q].bills[t] > 0)
      BY <2>2, <2>3, <2>6, IdleBills
    <2> QED
      BY <2>4, <2>5, <2>7, <2>8 DEF ChargesMatchFlags
  <1>3. ASSUME NEW r \in Runs, LoadUsers(r) PROVE ChargesMatchFlags'
    <2>1. /\ run'[r].bills = run[r].bills /\ run'[r].done = run[r].done
          /\ run'[r].todo = run[r].todo /\ run[r].step = "selected"
      BY <1>3, <1>m DEF LoadUsers, Memory
    <2>2. \A q \in Runs \ {r} : run'[q] = run[q]
      BY <1>3, <1>m DEF LoadUsers
    <2>3. UNCHANGED <<billed, records, overlap>>
      BY <1>3 DEF LoadUsers, taskRows, ledger, history
    <2> QED
      BY <2>1, <2>2, <2>3 DEF ChargesMatchFlags
  <1>4. ASSUME NEW r \in Runs, NEW item \in run[r].todo, ChargeTask(r, item)
        PROVE  ChargesMatchFlags'
    <2>1. run'[r].todo \subseteq run[r].todo /\ run[r].step = "charging"
      BY <1>4, <1>m DEF ChargeTask, Memory
    <2>2. /\ \A t \in Tasks : t # item.task => run'[r].bills[t] = run[r].bills[t]
          /\ run[r].done \subseteq run'[r].done
      BY <1>4, <1>m DEF ChargeTask, Memory
    <2>3. run'[r].bills[item.task] > 0 => item.task \in run'[r].done
      <3>1. item.task \in Tasks /\ item.cost \in Nat
        BY <1>m DEF Memory, Item
      <3>2. run'[r].bills[item.task]
              = IF run[r].wallet[Owner[item.task]] >= item.cost THEN item.cost ELSE 0
        BY <1>4, <1>m, <3>1 DEF ChargeTask, Memory
      <3>3. run[r].wallet[Owner[item.task]] >= item.cost => item.task \in run'[r].done
        BY <1>4, <1>m DEF ChargeTask, Memory
      <3> QED
        BY <3>1, <3>2, <3>3
    <2>4. ~billed[item.task] \/ overlap
      BY DEF ChargesMatchFlags
    <2>5. \A q \in Runs \ {r} : run'[q] = run[q]
      BY <1>4, <1>m DEF ChargeTask
    <2>6. UNCHANGED <<billed, records, overlap>>
      BY <1>4 DEF ChargeTask, taskRows, ledger, history
    <2>7. \A t \in Tasks : run'[r].bills[t] > 0 => t \in run'[r].done /\ ~billed[t]
      BY <2>2, <2>3, <2>4, <2>6 DEF ChargesMatchFlags
    <2> QED
      BY <2>1, <2>5, <2>6, <2>7 DEF ChargesMatchFlags
  <1>5. ASSUME NEW r \in Runs, CommitRun(r) PROVE ChargesMatchFlags'
    <2>1. ~overlap /\ run[r].step = "charging"
      BY <1>5 DEF CommitRun, history
    <2>2. \A q \in Runs : run'[q] = IdleRun
      BY <1>5, <1>m, <2>1 DEF CommitRun, ChargesMatchFlags
    <2>3. ASSUME NEW t \in Tasks
          PROVE  records'[t] \in {0, 1} /\ (records'[t] = 1 => billed'[t])
      <3>1. /\ records'[t] = records[t] + (IF run[r].bills[t] > 0 THEN 1 ELSE 0)
            /\ billed'[t] = (billed[t] \/ t \in run[r].done)
        BY <1>5 DEF CommitRun
      <3>2. records[t] \in {0, 1} /\ (records[t] = 1 => billed[t])
        BY <2>1 DEF ChargesMatchFlags
      <3>3. CASE run[r].bills[t] > 0
        <4>1. t \in run[r].done /\ ~billed[t]
          BY <2>1, <3>3 DEF ChargesMatchFlags
        <4>2. records'[t] \in {0, 1}
          BY <3>1, <3>2, <3>3, <4>1
        <4>3. billed'[t]
          BY <3>1, <4>1, Zenon
        <4> QED
          BY <4>2, <4>3
      <3>4. CASE ~ (run[r].bills[t] > 0)
        <4>1. records'[t] = records[t]
          BY <3>1, <3>2, <3>4
        <4>2. billed[t] => billed'[t]
          BY <3>1, Zenon
        <4> QED
          BY <3>2, <4>1, <4>2
      <3> QED
        BY <3>3, <3>4
    <2>4. \A q \in Runs : /\ run'[q].step = "idle" /\ run'[q].todo = {}
                          /\ \A t \in Tasks : ~ (run'[q].bills[t] > 0)
      <3>1. IdleRun.step = "idle" /\ IdleRun.todo = {}
        BY DEF IdleRun
      <3> QED
        BY <2>2, <3>1, IdleBills
    <2> QED
      BY <2>3, <2>4 DEF ChargesMatchFlags
  <1>6. ASSUME NEW r \in Runs, CommitFails(r) \/ RunDies(r) PROVE ChargesMatchFlags'
    <2>1. run'[r] = IdleRun /\ \A q \in Runs \ {r} : run'[q] = run[q]
      BY <1>6, <1>m DEF CommitFails, RunDies
    <2>2. UNCHANGED <<billed, records, overlap>>
      BY <1>6 DEF CommitFails, RunDies, taskRows, ledger, history
    <2>3. /\ run'[r].step = "idle" /\ run'[r].todo = {}
          /\ \A t \in Tasks : ~ (run'[r].bills[t] > 0)
      <3>1. IdleRun.step = "idle" /\ IdleRun.todo = {}
        BY DEF IdleRun
      <3> QED
        BY <2>1, <3>1, IdleBills
    <2> QED
      BY <2>1, <2>2, <2>3 DEF ChargesMatchFlags
  <1>7. CASE UNCHANGED billingVars
    BY <1>7 DEF billingVars, taskRows, ledger, history, ChargesMatchFlags
  <1> QED
    BY <1>1, <1>2, <1>3, <1>4, <1>5, <1>6, <1>7 DEF BillingNext

\* While billing runs did not overlap, no task was charged twice: whatever is killed,
\* fails or is repeated, and whatever callbacks and second launches a task sees after
\* its charge, the record and the flag are committed together
\* (calculate_task_billing).
THEOREM SeparateRunsChargeOnce == BillingSpec => []ChargedOnce
  <1>1. BillingSpec => []ChargesMatchFlags
    BY FlagsInit, FlagsStep, BillingTypeCorrect, PTL DEF BillingSpec
  <1>2. ChargesMatchFlags => ChargedOnce
    BY DEF ChargesMatchFlags, ChargedOnce
  <1> QED
    BY <1>1, <1>2, PTL

-----------------------------------------------------------------------------
(* Sums over a finite set.  The element a sum takes next is Pick of the    *)
(* rest; induction is over the sets of a set of sets, which the provers    *)
(* can instantiate, and comes from WFMin.                                  *)

Pick(s) == CHOOSE x \in s : TRUE

\* h[s] is the sum of f over s, for every subset s of S.
Sums(f, S, h) ==
    h = [s \in SUBSET S |-> IF s = {} THEN 0 ELSE f[Pick(s)] + h[s \ {Pick(s)}]]

\* A sum as a choice of such a function.
LEMMA SumUnfolds ==
    ASSUME NEW f, NEW S
    PROVE  SumFunctionOnSet(f, S) = (CHOOSE h : Sums(f, S, h))[S]
  BY DEF SumFunctionOnSet, FoldFunctionOnSet, MapThenFoldSet, Sums, Pick

LEMMA PickIsIn == ASSUME NEW s, s # {} PROVE Pick(s) \in s
  BY DEF Pick

\* A set of naturals has a least element.
LEMMA LeastNatural ==
    ASSUME NEW T, T \subseteq Nat, T # {}
    PROVE  \E m \in T : \A k \in T : m <= k
  <1>1. PICK m \in T : \A k \in T : ~ (<<k, m>> \in OpToRel(<, Nat))
    BY NatLessThanWellFounded, WFMin
  <1>2. \A k, n \in Nat : k < n => <<k, n>> \in OpToRel(<, Nat)
    BY DEF OpToRel
  <1>3. \A k \in T : ~ (k < m)
    BY <1>1, <1>2
  <1> QED
    BY <1>3

\* What holds of the empty set, and of a set if it holds without the element picked
\* from it, holds of every subset of a finite set.
LEMMA PickInduction ==
    ASSUME NEW S, IsFiniteSet(S), NEW B, {} \in B,
           \A s \in SUBSET S : s # {} /\ s \ {Pick(s)} \in B => s \in B
    PROVE  \A s \in SUBSET S : s \in B
  <1> DEFINE T == {s \in SUBSET S : s \notin B}
  <1> SUFFICES ASSUME T # {} PROVE FALSE
    OBVIOUS
  <1>1. T \subseteq FiniteSubsetsOf(S)
    BY FS_FiniteSubsetsOfFinite
  <1>2. PICK s \in T : \A u \in T : ~ (<<u, s>> \in StrictSubsetOrdering(S))
    BY <1>1, WFMin, FS_StrictSubsetOrderingWellFounded
  <1>3. s \in SUBSET S /\ s # {} /\ Pick(s) \in s
    BY PickIsIn
  <1>4. <<s \ {Pick(s)}, s>> \in StrictSubsetOrdering(S)
    BY <1>3 DEF StrictSubsetOrdering
  <1>5. s \ {Pick(s)} \in B
    BY <1>2, <1>3, <1>4
  <1> QED
    BY <1>3, <1>5

\* Sums exist: for subsets of at most n elements, by induction on n.
LEMMA SumsExist ==
    ASSUME NEW S, IsFiniteSet(S), NEW f, \A x \in S : f[x] \in Int
    PROVE  \E h : Sums(f, S, h)
  <1> DEFINE Next(h, s) == IF s = {} THEN 0 ELSE f[Pick(s)] + h[s \ {Pick(s)}]
             UpTo(n) == \E h : \A s \in SUBSET S : Cardinality(s) <= n => h[s] = Next(h, s)
             T == {n \in Nat : ~ UpTo(n)}
  <1>1. \A s \in SUBSET S : Cardinality(s) \in Nat
    BY FS_Subset, FS_CardinalityType
  <1>2. UpTo(0)
    <2> DEFINE h == [s \in SUBSET S |-> 0]
    <2>1. \A s \in SUBSET S : Cardinality(s) <= 0 => s = {}
      BY <1>1, FS_Subset, FS_EmptySet
    <2>2. \A s \in SUBSET S : Cardinality(s) <= 0 => h[s] = Next(h, s)
      BY <2>1
    <2> HIDE DEF h
    <2> QED
      BY <2>2
  <1>3. ASSUME NEW n \in Nat, UpTo(n) PROVE UpTo(n + 1)
    <2>1. PICK h : \A s \in SUBSET S : Cardinality(s) <= n => h[s] = Next(h, s)
      BY <1>3
    <2> DEFINE k == [s \in SUBSET S |-> Next(h, s)]
    <2>2. \A s \in SUBSET S : k[s] = Next(h, s)
      OBVIOUS
    <2> HIDE DEF k
    <2>3. ASSUME NEW s \in SUBSET S, Cardinality(s) <= n + 1
          PROVE  k[s] = Next(k, s)
      <3>1. CASE s = {}
        BY <2>2, <3>1
      <3>2. CASE s # {}
        <4> DEFINE u == s \ {Pick(s)}
        <4>1. Pick(s) \in s
          BY <3>2, PickIsIn
        <4>2. u \in SUBSET S /\ Cardinality(u) = Cardinality(s) - 1
          BY <4>1, FS_Subset, FS_RemoveElement
        <4>3. Cardinality(u) <= n
          BY <1>1, <2>3, <4>2
        <4>4. k[u] = h[u]
          BY <2>1, <2>2, <4>2, <4>3
        <4> QED
          BY <2>2, <3>2, <4>4
      <3> QED
        BY <3>1, <3>2
    <2> QED
      BY <2>3
  <1>4. T = {}
    <2> SUFFICES ASSUME T # {} PROVE FALSE
      OBVIOUS
    <2>1. PICK m \in T : \A k \in T : m <= k
      <3>1. T \subseteq Nat
        OBVIOUS
      <3> HIDE DEF T
      <3> QED
        BY <3>1, LeastNatural
    <2> HIDE DEF UpTo
    <2>2. m \in Nat /\ m # 0 /\ ~ UpTo(m)
      BY <1>2
    <2>3. m - 1 \in Nat /\ m - 1 \notin T /\ (m - 1) + 1 = m
      BY <2>1, <2>2
    <2>4. UpTo(m - 1)
      BY <2>3
    <2> QED
      BY <1>3, <2>2, <2>3, <2>4
  <1> HIDE DEF UpTo
  <1>5. UpTo(Cardinality(S))
    BY <1>1, <1>4
  <1>6. PICK h : \A s \in SUBSET S : Cardinality(s) <= Cardinality(S) => h[s] = Next(h, s)
    BY <1>5 DEF UpTo
  <1> DEFINE k == [s \in SUBSET S |-> Next(h, s)]
  <1>7. \A s \in SUBSET S : h[s] = k[s]
    BY <1>6, FS_Subset
  <1>8. \A s \in SUBSET S : s # {} => s \ {Pick(s)} \in SUBSET S
    OBVIOUS
  <1>9. \A s \in SUBSET S : k[s] = Next(k, s)
    BY <1>7, <1>8
  <1> HIDE DEF k
  <1>10. k = [s \in SUBSET S |-> k[s]]
    BY DEF k
  <1>11. k = [s \in SUBSET S |-> Next(k, s)]
    BY <1>9, <1>10
  <1> QED
    BY <1>11 DEF Sums

\* h adds one element at a time.
Adds(f, S, h) ==
    /\ h[{}] = 0
    /\ \A s \in SUBSET S : s # {} => h[s] = f[Pick(s)] + h[s \ {Pick(s)}]

\* A sum is the last value of such a function.
LEMMA SumIsTaken ==
    ASSUME NEW S, IsFiniteSet(S), NEW f, \A x \in S : f[x] \in Int
    PROVE  \E h : Adds(f, S, h) /\ SumFunctionOnSet(f, S) = h[S]
  <1> DEFINE h == CHOOSE h : Sums(f, S, h)
  <1>1. Sums(f, S, h)
    BY SumsExist
  <1>2. SumFunctionOnSet(f, S) = h[S]
    BY SumUnfolds
  <1> HIDE DEF h
  <1>3. \A s \in SUBSET S : h[s] = IF s = {} THEN 0 ELSE f[Pick(s)] + h[s \ {Pick(s)}]
    BY <1>1 DEF Sums
  <1>4. {} \in SUBSET S
    OBVIOUS
  <1>5. h[{}] = 0
    BY <1>3, <1>4
  <1> QED
    BY <1>2, <1>3, <1>5 DEF Adds

\* The sum of integers is an integer, and the sum of the sums is the sum of both.
LEMMA SumAdds ==
    ASSUME NEW S, IsFiniteSet(S), NEW f, NEW g, NEW k,
           \A x \in S : f[x] \in Int /\ g[x] \in Int /\ k[x] = f[x] + g[x]
    PROVE  /\ SumFunctionOnSet(f, S) \in Int
           /\ SumFunctionOnSet(g, S) \in Int
           /\ SumFunctionOnSet(k, S) = SumFunctionOnSet(f, S) + SumFunctionOnSet(g, S)
  <1>i. \A x \in S : f[x] \in Int /\ g[x] \in Int /\ k[x] \in Int
    OBVIOUS
  <1>1. PICK F : Adds(f, S, F) /\ SumFunctionOnSet(f, S) = F[S]
    BY <1>i, SumIsTaken
  <1>2. PICK G : Adds(g, S, G) /\ SumFunctionOnSet(g, S) = G[S]
    BY <1>i, SumIsTaken
  <1>3. PICK K : Adds(k, S, K) /\ SumFunctionOnSet(k, S) = K[S]
    BY <1>i, SumIsTaken
  <1> DEFINE B == {s \in SUBSET S : F[s] \in Int /\ G[s] \in Int /\ K[s] = F[s] + G[s]}
  <1>4. {} \in B
    BY <1>1, <1>2, <1>3 DEF Adds
  <1>5. ASSUME NEW s \in SUBSET S, s # {}, s \ {Pick(s)} \in B PROVE s \in B
    <2>1. Pick(s) \in S
      BY <1>5, PickIsIn
    <2>2. /\ F[s] = f[Pick(s)] + F[s \ {Pick(s)}]
          /\ G[s] = g[Pick(s)] + G[s \ {Pick(s)}]
          /\ K[s] = k[Pick(s)] + K[s \ {Pick(s)}]
      BY <1>1, <1>2, <1>3, <1>5 DEF Adds
    <2> QED
      BY <1>5, <2>1, <2>2
  <1>6. S \in B
    <2> HIDE DEF B
    <2> QED
      BY <1>4, <1>5, PickInduction
  <1> QED
    BY <1>1, <1>2, <1>3, <1>6

\* The sum of a function that is zero but for one element.
LEMMA SumOfOne ==
    ASSUME NEW S, IsFiniteSet(S), NEW f, NEW a, NEW d \in Int,
           \A x \in S : f[x] = IF x = a THEN d ELSE 0
    PROVE  SumFunctionOnSet(f, S) = IF a \in S THEN d ELSE 0
  <1>i. \A x \in S : f[x] \in Int
    OBVIOUS
  <1>1. PICK F : Adds(f, S, F) /\ SumFunctionOnSet(f, S) = F[S]
    BY <1>i, SumIsTaken
  <1> DEFINE B == {s \in SUBSET S : F[s] = IF a \in s THEN d ELSE 0}
  <1>2. {} \in B
    BY <1>1 DEF Adds
  <1>3. ASSUME NEW s \in SUBSET S, s # {}, s \ {Pick(s)} \in B PROVE s \in B
    <2>1. Pick(s) \in s /\ Pick(s) \in S
      BY <1>3, PickIsIn
    <2>2. F[s] = f[Pick(s)] + F[s \ {Pick(s)}]
      BY <1>1, <1>3 DEF Adds
    <2>3. f[Pick(s)] = IF Pick(s) = a THEN d ELSE 0
      BY <2>1
    <2>4. F[s \ {Pick(s)}] = IF a \in s \ {Pick(s)} THEN d ELSE 0
      BY <1>3
    <2>5. F[s] = IF a \in s THEN d ELSE 0
      BY <2>1, <2>2, <2>3, <2>4
    <2> QED
      BY <2>5
  <1>4. S \in B
    <2> HIDE DEF B
    <2> QED
      BY <1>2, <1>3, PickInduction
  <1> QED
    BY <1>1, <1>4

\* Only the values that are added count.
LEMMA SumOfSame ==
    ASSUME NEW S, IsFiniteSet(S), NEW f, NEW g,
           \A x \in S : f[x] \in Int /\ g[x] = f[x]
    PROVE  /\ SumFunctionOnSet(f, S) \in Int
           /\ SumFunctionOnSet(g, S) = SumFunctionOnSet(f, S)
  <1> DEFINE z == [x \in S |-> 0]
  <1>1. \A x \in S : z[x] = 0
    OBVIOUS
  <1> HIDE DEF z
  <1>2. SumFunctionOnSet(z, S) = 0
    <2>1. \A x \in S : z[x] = IF x = 0 THEN 0 ELSE 0
      BY <1>1
    <2> QED
      BY <2>1, SumOfOne
  <1> QED
    BY <1>1, <1>2, SumAdds

-----------------------------------------------------------------------------
(* What a user has and what was used *)

\* x is at most half a cent for each of n charges away from zero.
Near(x, n) == -(Cent * n) <= 2 * x /\ 2 * x <= Cent * n

LEMMA NearAdds ==
    ASSUME NEW x \in Int, NEW y \in Int, NEW m \in Int, NEW n \in Int, Near(x, m), Near(y, n)
    PROVE  Near(x + y, m + n)
  BY DEF Near, Cent

\* A charge takes the cost from a balance but for half a cent.
LEMMA ChargeIsNear ==
    ASSUME NEW b \in Int, NEW c \in Nat, b >= c
    PROVE  Near(Remaining(b, c) + c - b, 1)
  <1> DEFINE a == b - c
             q == (2 * a + 100) \div 200
  <1>1. a \in Nat /\ 2 * a + 100 \in Nat
    OBVIOUS
  <1>2. q \in Int /\ 200 * q <= 2 * a + 100 /\ 2 * a + 100 < 200 * q + 200
    <2>1. \A x \in Nat : /\ x \div 200 \in Int
                         /\ 200 * (x \div 200) <= x
                         /\ x < 200 * (x \div 200) + 200
      OBVIOUS
    <2> QED
      BY <1>1, <2>1
  <1>3. Remaining(b, c) = 100 * q
    BY DEF Remaining, HalfUp, Cent
  <1> HIDE DEF q
  <1> QED
    BY <1>2, <1>3 DEF Near, Cent

\* What the bills b charge a user, and how many of them there are.
Dues(u, b) == SumFunctionOnSet(b, TasksOf(u))
Number(u, b) == SumFunctionOnSet([t \in Tasks |-> IF b[t] > 0 THEN 1 ELSE 0], TasksOf(u))

NoBills == [t \in Tasks |-> 0]

LEMMA FiniteTasks ==
    ASSUME NEW u PROVE IsFiniteSet(TasksOf(u)) /\ TasksOf(u) \subseteq Tasks
  <1>1. TasksOf(u) \subseteq Tasks
    BY DEF TasksOf
  <1> QED
    BY <1>1, FS_Subset, BillingAssumption

\* No bill, no dues.
LEMMA DuesOfNone ==
    ASSUME NEW u PROVE Dues(u, NoBills) = 0 /\ Number(u, NoBills) = 0
  <1> DEFINE n == [t \in Tasks |-> IF NoBills[t] > 0 THEN 1 ELSE 0]
  <1>1. /\ \A t \in TasksOf(u) : NoBills[t] = IF t = 0 THEN 0 ELSE 0
        /\ \A t \in TasksOf(u) : n[t] = IF t = 0 THEN 0 ELSE 0
    BY FiniteTasks DEF NoBills
  <1>2. Dues(u, NoBills) = IF 0 \in TasksOf(u) THEN 0 ELSE 0
    BY <1>1, FiniteTasks, SumOfOne DEF Dues
  <1>3. Number(u, NoBills) = SumFunctionOnSet(n, TasksOf(u))
    BY DEF Number
  <1> HIDE DEF n
  <1>4. Number(u, NoBills) = IF 0 \in TasksOf(u) THEN 0 ELSE 0
    BY <1>1, <1>3, FiniteTasks, SumOfOne
  <1> QED
    BY <1>2, <1>4

LEMMA DuesTyped ==
    ASSUME NEW u, NEW b \in [Tasks -> Nat]
    PROVE  Dues(u, b) \in Int /\ Number(u, b) \in Int
  <1> DEFINE n == [t \in Tasks |-> IF b[t] > 0 THEN 1 ELSE 0]
  <1>1. \A t \in TasksOf(u) : b[t] \in Int /\ n[t] \in Int
    BY FiniteTasks
  <1>2. Dues(u, b) = SumFunctionOnSet(b, TasksOf(u))
        /\ Number(u, b) = SumFunctionOnSet(n, TasksOf(u))
    BY DEF Dues, Number
  <1> HIDE DEF n
  <1> QED
    BY <1>1, <1>2, FiniteTasks, SumOfSame

\* One bill more.
LEMMA DuesOfOneMore ==
    ASSUME NEW u, NEW b \in [Tasks -> Nat], NEW t \in Tasks, b[t] = 0, NEW c \in Nat \ {0}
    PROVE  /\ Dues(u, [b EXCEPT ![t] = c]) = Dues(u, b) + (IF Owner[t] = u THEN c ELSE 0)
           /\ Number(u, [b EXCEPT ![t] = c]) = Number(u, b) + (IF Owner[t] = u THEN 1 ELSE 0)
  <1> DEFINE S == TasksOf(u)
             d == [b EXCEPT ![t] = c]
             g == [x \in Tasks |-> IF x = t THEN c ELSE 0]
             bn == [x \in Tasks |-> IF b[x] > 0 THEN 1 ELSE 0]
             gn == [x \in Tasks |-> IF x = t THEN 1 ELSE 0]
             dn == [x \in Tasks |-> IF d[x] > 0 THEN 1 ELSE 0]
  <1>1. \A x \in S : b[x] \in Int /\ g[x] \in Int /\ d[x] = b[x] + g[x]
    BY FiniteTasks
  <1>2. \A x \in S : bn[x] \in Int /\ gn[x] \in Int /\ dn[x] = bn[x] + gn[x]
    BY FiniteTasks
  <1>3. /\ \A x \in S : g[x] = IF x = t THEN c ELSE 0
        /\ \A x \in S : gn[x] = IF x = t THEN 1 ELSE 0
    BY FiniteTasks
  <1>4. t \in S <=> Owner[t] = u
    BY DEF TasksOf
  <1>5. /\ Dues(u, b) = SumFunctionOnSet(b, S)
        /\ Dues(u, d) = SumFunctionOnSet(d, S)
        /\ Number(u, b) = SumFunctionOnSet(bn, S)
        /\ Number(u, d) = SumFunctionOnSet(dn, S)
    BY DEF Dues, Number
  <1>6. IsFiniteSet(S) /\ c \in Int /\ 1 \in Int
    BY FiniteTasks
  <1> HIDE DEF d, g, bn, gn, dn, S
  <1>7. SumFunctionOnSet(d, S) = SumFunctionOnSet(b, S) + SumFunctionOnSet(g, S)
    BY <1>1, <1>6, SumAdds
  <1>8. SumFunctionOnSet(dn, S) = SumFunctionOnSet(bn, S) + SumFunctionOnSet(gn, S)
    BY <1>2, <1>6, SumAdds
  <1>9. SumFunctionOnSet(g, S) = IF t \in S THEN c ELSE 0
    BY <1>3, <1>6, SumOfOne
  <1>10. SumFunctionOnSet(gn, S) = IF t \in S THEN 1 ELSE 0
    BY <1>3, <1>6, SumOfOne
  <1>11. /\ Dues(u, d) = Dues(u, b) + (IF Owner[t] = u THEN c ELSE 0)
         /\ Number(u, d) = Number(u, b) + (IF Owner[t] = u THEN 1 ELSE 0)
    BY <1>4, <1>5, <1>7, <1>8, <1>9, <1>10
  <1> QED
    BY <1>11 DEF d

\* A commit adds the dues of its bills to what was used.
LEMMA SumsOfCommit ==
    ASSUME BillingTypeOK, NEW u, NEW b \in [Tasks -> Nat],
           records' = [t \in Tasks |-> records[t] + (IF b[t] > 0 THEN 1 ELSE 0)],
           paid' = [t \in Tasks |-> paid[t] + b[t]]
    PROVE  /\ Charges(u)' = Charges(u) + Number(u, b)
           /\ Used(u)' = Used(u) + Dues(u, b)
  <1> DEFINE S == TasksOf(u)
             n == [t \in Tasks |-> IF b[t] > 0 THEN 1 ELSE 0]
  <1>1. \A t \in S : records[t] \in Int /\ n[t] \in Int /\ records'[t] = records[t] + n[t]
    BY FiniteTasks DEF BillingTypeOK
  <1>2. \A t \in S : paid[t] \in Int /\ b[t] \in Int /\ paid'[t] = paid[t] + b[t]
    BY FiniteTasks DEF BillingTypeOK
  <1>3. /\ Used(u) = SumFunctionOnSet(paid, S) /\ Used(u)' = SumFunctionOnSet(paid', S)
        /\ Charges(u) = SumFunctionOnSet(records, S)
        /\ Charges(u)' = SumFunctionOnSet(records', S)
        /\ Dues(u, b) = SumFunctionOnSet(b, S) /\ Number(u, b) = SumFunctionOnSet(n, S)
    BY DEF Used, Charges, Dues, Number, TasksOf
  <1>4. IsFiniteSet(S)
    BY FiniteTasks
  <1> HIDE DEF n, S
  <1>5. PICK records2, paid2 : records2 = records' /\ paid2 = paid'
    OBVIOUS
  <1>6. SumFunctionOnSet(records2, S) = SumFunctionOnSet(records, S) + SumFunctionOnSet(n, S)
    BY <1>1, <1>4, <1>5, SumAdds
  <1>7. SumFunctionOnSet(paid2, S) = SumFunctionOnSet(paid, S) + SumFunctionOnSet(b, S)
    BY <1>2, <1>4, <1>5, SumAdds
  <1> QED
    BY <1>3, <1>5, <1>6, <1>7

LEMMA SumsTyped ==
    ASSUME BillingTypeOK, NEW u
    PROVE  Charges(u) \in Int /\ Used(u) \in Int
  <1>1. \A t \in TasksOf(u) : records[t] \in Int /\ paid[t] \in Int
    BY FiniteTasks DEF BillingTypeOK
  <1> QED
    BY <1>1, FiniteTasks, SumOfSame DEF Charges, Used

-----------------------------------------------------------------------------
(* The sum of what remains and what was used is kept *)

\* A run charges a task once: what it still has to do it has not charged, and before
\* the loop it has charged nothing.
BillsAreFresh ==
    \A r \in Runs :
        /\ \A i \in run[r].todo : run[r].bills[i.task] = 0
        /\ \A i, j \in run[r].todo : i.task = j.task => i = j
        /\ run[r].step # "charging" => run[r].bills = NoBills

\* What a run holds in memory balances against the table.
RunBalanced(r) ==
    /\ run[r].read = credits
    /\ \A u \in Users : Near(run[r].wallet[u] + Dues(u, run[r].bills) - credits[u],
                             Number(u, run[r].bills))

\* The tables balance, and so does the memory of the run that is active.
Balanced ==
    ~overlap =>
        /\ \A u \in Users : Near(credits[u] + Used(u) - purse[u], Charges(u))
        /\ \A r \in Runs : run[r].step = "charging" => RunBalanced(r)

LEMMA IdleIsFresh == IdleRun.todo = {} /\ IdleRun.bills = NoBills /\ IdleRun.step = "idle"
  BY DEF IdleRun, NoBills

LEMMA FreshInit == BillingInit => BillsAreFresh
  BY IdleIsFresh DEF BillingInit, BillsAreFresh

LEMMA BalancedInit == BillingInit => Balanced
  <1> SUFFICES ASSUME BillingInit, NEW u \in Users
               PROVE  Near(credits[u] + Used(u) - purse[u], Charges(u))
    <2>1. BillingInit => \A r \in Runs : run[r].step # "charging"
      BY DEF BillingInit, IdleRun
    <2> QED
      BY <2>1, Zenon DEF Balanced
  <1>1. BillingTypeOK
    BY BillingInitTyped
  <1>2. \A t \in TasksOf(u) : /\ records[t] = IF t = 0 THEN 0 ELSE 0
                              /\ paid[t] = IF t = 0 THEN 0 ELSE 0
    BY FiniteTasks DEF BillingInit
  <1>3. Used(u) = 0 /\ Charges(u) = 0
    BY <1>2, FiniteTasks, SumOfOne DEF Charges, Used
  <1>4. purse[u] = credits[u] /\ credits[u] \in Int
    BY <1>1 DEF BillingInit, BillingTypeOK
  <1> QED
    BY <1>3, <1>4 DEF Near, Cent

LEMMA FreshStep ==
    ASSUME BillingTypeOK, BillsAreFresh, [BillingNext]_billingVars
    PROVE  BillsAreFresh'
  <1>m. run \in [Runs -> Memory] /\ \A r \in Runs : run[r].step = "idle" => run[r] = IdleRun
    BY DEF BillingTypeOK, Memory
  <1>1. ASSUME UNCHANGED run PROVE BillsAreFresh'
    BY <1>1 DEF BillsAreFresh
  <1>2. ASSUME NEW r \in Runs, SelectTasks(r) PROVE BillsAreFresh'
    <2>1. \A q \in Runs \ {r} : run'[q] = run[q]
      BY <1>2, <1>m DEF SelectTasks
    <2>2. /\ run'[r].bills = run[r].bills
          /\ run'[r].todo = {[task |-> t, cost |-> Cost(duration[t], gpus[t])] :
                               t \in {x \in Tasks : status[x] = "success" /\ ~billed[x]}}
      BY <1>2, <1>m DEF SelectTasks, Memory
    <2>3. run[r].bills = NoBills
      BY <1>2, <1>m, IdleIsFresh DEF SelectTasks
    <2>4. \A i \in run'[r].todo : i.task \in Tasks
      BY <2>2
    <2>5. \A i, j \in run'[r].todo : i.task = j.task => i = j
      BY <2>2
    <2>6. \A i \in run'[r].todo : run'[r].bills[i.task] = 0
      BY <2>2, <2>3, <2>4 DEF NoBills
    <2> QED
      BY <2>1, <2>2, <2>3, <2>5, <2>6 DEF BillsAreFresh
  <1>3. ASSUME NEW r \in Runs, LoadUsers(r) PROVE BillsAreFresh'
    <2>1. \A q \in Runs \ {r} : run'[q] = run[q]
      BY <1>3, <1>m DEF LoadUsers
    <2>2. /\ run'[r].bills = run[r].bills /\ run'[r].todo = run[r].todo
          /\ run'[r].step = "charging"
      BY <1>3, <1>m DEF LoadUsers, Memory
    <2> QED
      BY <2>1, <2>2 DEF BillsAreFresh
  <1>4. ASSUME NEW r \in Runs, NEW item \in run[r].todo, ChargeTask(r, item)
        PROVE  BillsAreFresh'
    <2>1. \A q \in Runs \ {r} : run'[q] = run[q]
      BY <1>4, <1>m DEF ChargeTask
    <2>2. /\ run'[r].todo = run[r].todo \ {item} /\ run'[r].step = "charging"
          /\ \A t \in Tasks : t # item.task => run'[r].bills[t] = run[r].bills[t]
      BY <1>4, <1>m DEF ChargeTask, Memory
    <2>3. \A i \in run'[r].todo : i.task # item.task /\ i.task \in Tasks /\ i \in run[r].todo
      BY <1>m, <2>2 DEF BillsAreFresh, Memory, Item
    <2>4. \A i \in run'[r].todo : run'[r].bills[i.task] = 0
      BY <2>2, <2>3 DEF BillsAreFresh
    <2>5. \A i, j \in run'[r].todo : i.task = j.task => i = j
      BY <2>3 DEF BillsAreFresh
    <2> QED
      BY <2>1, <2>2, <2>4, <2>5 DEF BillsAreFresh
  <1>5. ASSUME NEW r \in Runs, CommitRun(r) \/ CommitFails(r) \/ RunDies(r)
        PROVE  BillsAreFresh'
    <2>1. run'[r] = IdleRun /\ \A q \in Runs \ {r} : run'[q] = run[q]
      BY <1>5, <1>m DEF CommitRun, CommitFails, RunDies
    <2> QED
      BY <2>1, IdleIsFresh DEF BillsAreFresh
  <1>6. ASSUME NEW t \in Tasks,
               \/ \E text \in {"running", "success", "failed"} : Callback(t, text)
               \/ LaunchCommit(t) \/ ClearIndices(t) \/ DeleteTask(t)
        PROVE  UNCHANGED run
    BY <1>6 DEF Callback, LaunchCommit, ClearIndices, DeleteTask
  <1>7. CASE UNCHANGED billingVars
    BY <1>1, <1>7 DEF billingVars
  <1> QED
    BY <1>1, <1>2, <1>3, <1>4, <1>5, <1>6, <1>7 DEF BillingNext

\* What a charge does to a balance in memory.
LEMMA BalancedCharge ==
    ASSUME BillingTypeOK, BillsAreFresh, NEW r \in Runs, NEW item \in run[r].todo,
           ChargeTask(r, item), NEW u \in Users,
           Near(run[r].wallet[u] + Dues(u, run[r].bills) - credits[u],
                Number(u, run[r].bills))
    PROVE  Near(run'[r].wallet[u] + Dues(u, run'[r].bills) - credits[u],
                Number(u, run'[r].bills))
  <1> USE BillingAssumption
  <1> DEFINE t == item.task
             c == item.cost
             w == run[r].wallet[u]
             b == run[r].bills
             pays == c # 0 /\ run[r].wallet[Owner[t]] >= c
  <1>1. run \in [Runs -> Memory] /\ run[r] \in Memory /\ b \in [Tasks -> Nat]
    BY DEF BillingTypeOK, Memory
  <1>2. item \in Item /\ t \in Tasks /\ c \in Nat /\ Owner[t] \in Users
    BY <1>1 DEF Memory, Item
  <1>3. w \in Int /\ credits[u] \in Int /\ Dues(u, b) \in Int /\ Number(u, b) \in Int
    BY <1>1, DuesTyped DEF Memory, BillingTypeOK
  <1>4. b[t] = 0
    BY DEF BillsAreFresh
  <1>5. CASE ~pays
    <2>1. run'[r].bills = [b EXCEPT ![t] = 0] /\ run'[r].wallet[u] = w
      BY <1>1, <1>2, <1>5 DEF ChargeTask, Memory
    <2>2. run'[r].bills = b
      BY <1>1, <1>2, <1>4, <2>1
    <2> QED
      BY <2>1, <2>2
  <1>6. CASE pays
    <2>1. run'[r].bills = [b EXCEPT ![t] = c]
      BY <1>1, <1>2, <1>6 DEF ChargeTask, Memory
    <2>2. /\ Dues(u, run'[r].bills) = Dues(u, b) + (IF Owner[t] = u THEN c ELSE 0)
          /\ Number(u, run'[r].bills) = Number(u, b) + (IF Owner[t] = u THEN 1 ELSE 0)
      BY <1>1, <1>2, <1>4, <1>6, <2>1, DuesOfOneMore
    <2>3. CASE Owner[t] # u
      <3>1. run'[r].wallet[u] = w
        BY <1>1, <1>2, <1>6, <2>3 DEF ChargeTask, Memory
      <3>2. Dues(u, run'[r].bills) = Dues(u, b) /\ Number(u, run'[r].bills) = Number(u, b)
        BY <1>3, <2>2, <2>3
      <3> QED
        BY <3>1, <3>2
    <2>4. CASE Owner[t] = u
      <3>1. run'[r].wallet[u] = Remaining(w, c)
        BY <1>1, <1>2, <1>6, <2>4 DEF ChargeTask, Memory
      <3>2. w >= c
        BY <1>6, <2>4
      <3>3. Near(Remaining(w, c) + c - w, 1)
        BY <1>2, <1>3, <3>2, ChargeIsNear
      <3>4. Remaining(w, c) \in Int
        BY <1>2, <1>3, <3>2, RemainingNat
      <3> DEFINE x == w + Dues(u, b) - credits[u]
                 y == Remaining(w, c) + c - w
      <3>5. Near(x + y, Number(u, b) + 1)
        <4>1. x \in Int /\ y \in Int /\ Near(x, Number(u, b)) /\ Near(y, 1)
          BY <1>2, <1>3, <3>3, <3>4
        <4> HIDE DEF x, y
        <4> QED
          BY <1>3, <4>1, NearAdds
      <3>6. x + y = Remaining(w, c) + (Dues(u, b) + c) - credits[u]
        BY <1>2, <1>3, <3>4
      <3> QED
        BY <2>2, <2>4, <3>1, <3>5, <3>6
    <2> QED
      BY <2>3, <2>4
  <1> QED
    BY <1>5, <1>6

\* A step that changes neither what is recorded nor a balance in the table, and the
\* memory of a run only so that it balances again.
LEMMA BalancedStays ==
    ASSUME Balanced, ~overlap, UNCHANGED <<credits, records, paid, purse>>,
           \A r \in Runs : run'[r].step = "charging" => run'[r] = run[r] \/ RunBalanced(r)'
    PROVE  Balanced'
  <1>1. \A u \in Users : Charges(u)' = Charges(u) /\ Used(u)' = Used(u)
    BY DEF Charges, Used, TasksOf
  <1>2. \A u \in Users : Near(credits'[u] + Used(u)' - purse'[u], Charges(u)')
    BY <1>1 DEF Balanced
  <1>3. ASSUME NEW r \in Runs, run'[r].step = "charging", run'[r] = run[r]
        PROVE  RunBalanced(r)'
    <2>1. RunBalanced(r)
      BY <1>3 DEF Balanced
    <2> QED
      BY <1>3, <2>1 DEF RunBalanced, Near, Dues, Number, TasksOf
  <1> QED
    BY <1>2, <1>3 DEF Balanced, Near

LEMMA BalancedStep ==
    ASSUME BillingTypeOK, BillsAreFresh, ChargesMatchFlags, Balanced,
           [BillingNext]_billingVars
    PROVE  Balanced'
  <1> SUFFICES ASSUME ~overlap' PROVE Balanced'
    BY Zenon DEF Balanced
  <1>m. run \in [Runs -> Memory] /\ \A r \in Runs : run[r].step = "idle" => run[r] = IdleRun
    BY DEF BillingTypeOK, Memory
  <1>1. ASSUME NEW t \in Tasks,
               \/ \E text \in {"running", "success", "failed"} : Callback(t, text)
               \/ LaunchCommit(t) \/ ClearIndices(t) \/ DeleteTask(t)
        PROVE  Balanced'
    <2>1. UNCHANGED <<credits, records, paid, purse, run, overlap>>
      BY <1>1 DEF Callback, LaunchCommit, ClearIndices, DeleteTask, ledger, history
    <2> QED
      BY <2>1, BalancedStays
  <1>2. ASSUME NEW r \in Runs, SelectTasks(r) PROVE Balanced'
    <2>1. UNCHANGED <<credits, records, paid, purse>> /\ ~overlap
      BY <1>2 DEF SelectTasks, ledger
    <2>2. run'[r].step = "selected" /\ \A q \in Runs \ {r} : run'[q] = run[q]
      BY <1>2, <1>m DEF SelectTasks, Memory
    <2> QED
      BY <2>1, <2>2, BalancedStays
  <1>3. ASSUME NEW r \in Runs, LoadUsers(r) PROVE Balanced'
    <2>1. UNCHANGED <<credits, records, paid, purse, overlap>>
      BY <1>3 DEF LoadUsers, ledger, history
    <2>2. \A q \in Runs \ {r} : run'[q] = run[q]
      BY <1>3, <1>m DEF LoadUsers
    <2>3. /\ run'[r].read = credits /\ run'[r].wallet = credits
          /\ run'[r].bills = run[r].bills
      BY <1>3, <1>m DEF LoadUsers, Memory
    <2>4. run'[r].bills = NoBills
      BY <1>3, <2>3 DEF LoadUsers, BillsAreFresh
    <2>5. PICK b : b = run'[r].bills
      OBVIOUS
    <2>6. \A u : Dues(u, b) = 0 /\ Number(u, b) = 0
      BY <2>4, <2>5, DuesOfNone
    <2>7. \A u \in Users : Near(credits[u] + 0 - credits[u], 0)
      BY DEF Near, Cent, BillingTypeOK
    <2>8. \A u : Dues(u, run[r].bills)' = Dues(u, b) /\ Number(u, run[r].bills)' = Number(u, b)
      BY <2>5 DEF Dues, Number, TasksOf
    <2>9. RunBalanced(r)'
      BY <2>1, <2>3, <2>6, <2>7, <2>8 DEF RunBalanced, Near
    <2> QED
      BY <2>1, <2>2, <2>9, BalancedStays
  <1>4. ASSUME NEW r \in Runs, NEW item \in run[r].todo, ChargeTask(r, item)
        PROVE  Balanced'
    <2>1. UNCHANGED <<credits, records, paid, purse, overlap>> /\ run[r].step = "charging"
      BY <1>4 DEF ChargeTask, ledger, history
    <2>2. /\ \A q \in Runs \ {r} : run'[q] = run[q]
          /\ run'[r].read = run[r].read
      BY <1>4, <1>m DEF ChargeTask, Memory
    <2>3. RunBalanced(r)
      BY <2>1 DEF Balanced
    <2>4. PICK b : b = run'[r].bills
      OBVIOUS
    <2>5. \A u \in Users : Near(run'[r].wallet[u] + Dues(u, b) - credits[u], Number(u, b))
      BY <1>4, <2>3, <2>4, BalancedCharge DEF RunBalanced
    <2>6. \A u : Dues(u, run[r].bills)' = Dues(u, b) /\ Number(u, run[r].bills)' = Number(u, b)
      BY <2>4 DEF Dues, Number, TasksOf
    <2>7. RunBalanced(r)'
      BY <2>1, <2>2, <2>3, <2>5, <2>6 DEF RunBalanced, Near
    <2> QED
      BY <2>1, <2>2, <2>7, BalancedStays
  <1>5. ASSUME NEW r \in Runs, CommitRun(r) PROVE Balanced'
    <2>1. ~overlap /\ run[r].step = "charging" /\ UNCHANGED purse
      BY <1>5 DEF CommitRun, history
    <2>2. \A q \in Runs : run'[q] = IdleRun
      BY <1>5, <1>m, <2>1 DEF CommitRun, ChargesMatchFlags
    <2>3. RunBalanced(r)
      BY <2>1 DEF Balanced
    <2>4. PICK b \in [Tasks -> Nat] : b = run[r].bills
      BY <1>m DEF Memory
    <2>5. /\ records' = [t \in Tasks |-> records[t] + (IF b[t] > 0 THEN 1 ELSE 0)]
          /\ paid' = [t \in Tasks |-> paid[t] + b[t]]
      BY <1>5, <2>4 DEF CommitRun
    <2>6. \A u : Charges(u)' = Charges(u) + Number(u, b) /\ Used(u)' = Used(u) + Dues(u, b)
      BY <2>5, SumsOfCommit
    <2>7. \A u \in Users : credits'[u] = run[r].wallet[u]
      BY <1>5, <2>3 DEF CommitRun, RunBalanced
    <2>8. ASSUME NEW u \in Users
          PROVE  Near(credits'[u] + Used(u)' - purse'[u], Charges(u)')
      <3> DEFINE x == credits[u] + Used(u) - purse[u]
                 y == run[r].wallet[u] + Dues(u, b) - credits[u]
      <3>1. /\ credits[u] \in Int /\ purse[u] \in Int /\ run[r].wallet[u] \in Int
            /\ Used(u) \in Int /\ Charges(u) \in Int
            /\ Dues(u, b) \in Int /\ Number(u, b) \in Int
        BY <1>m, SumsTyped, DuesTyped DEF BillingTypeOK, Memory
      <3>2. Near(x, Charges(u)) /\ Near(y, Number(u, b))
        BY <2>1, <2>3, <2>4 DEF Balanced, RunBalanced
      <3>3. x + y = run[r].wallet[u] + (Used(u) + Dues(u, b)) - purse[u]
        BY <3>1
      <3>4. x \in Int /\ y \in Int
        BY <3>1
      <3> HIDE DEF x, y
      <3>5. Near(x + y, Charges(u) + Number(u, b))
        BY <3>1, <3>2, <3>4, NearAdds
      <3> QED
        BY <2>1, <2>6, <2>7, <3>3, <3>5
    <2>9. \A q \in Runs : run'[q].step # "charging"
      BY <2>2, IdleIsFresh
    <2> QED
      BY <2>8, <2>9 DEF Balanced, Near
  <1>6. ASSUME NEW r \in Runs, CommitFails(r) \/ RunDies(r) PROVE Balanced'
    <2>1. UNCHANGED <<credits, records, paid, purse, overlap>>
      BY <1>6 DEF CommitFails, RunDies, ledger, history
    <2>2. run'[r].step = "idle" /\ \A q \in Runs \ {r} : run'[q] = run[q]
      BY <1>6, <1>m, IdleIsFresh DEF CommitFails, RunDies
    <2> QED
      BY <2>1, <2>2, BalancedStays
  <1>7. CASE UNCHANGED billingVars
    <2>1. UNCHANGED <<credits, records, paid, purse, overlap, run>>
      BY <1>7 DEF billingVars, ledger, history
    <2> QED
      BY <2>1, BalancedStays
  <1> QED
    BY <1>1, <1>2, <1>3, <1>4, <1>5, <1>6, <1>7 DEF BillingNext

\* While billing runs did not overlap, what a user has and what its records say was
\* used add up to what it had, but for half a cent for each charge: however often a
\* run is killed, rolled back or repeated, whichever tasks are deleted and whatever
\* late callbacks make of the run times (calculate_task_billing, get_billing_summary).
THEOREM TheSumIsKept == BillingSpec => []SumIsKept
  <1>1. BillingSpec => []ChargesMatchFlags
    BY FlagsInit, FlagsStep, BillingTypeCorrect, PTL DEF BillingSpec
  <1>2. BillingSpec => []BillsAreFresh
    BY FreshInit, FreshStep, BillingTypeCorrect, PTL DEF BillingSpec
  <1>3. BillingSpec => []Balanced
    BY <1>1, <1>2, BalancedInit, BalancedStep, BillingTypeCorrect, PTL DEF BillingSpec
  <1>4. ASSUME BillingTypeOK, Balanced PROVE SumIsKept
    <2>1. \A u : Charges(u) \in Int /\ Used(u) \in Int
      BY <1>4, SumsTyped
    <2>2. \A u \in Users : credits[u] \in Int /\ purse[u] \in Int
      BY <1>4 DEF BillingTypeOK
    <2>3. ~overlap => \A u \in Users : Near(credits[u] + Used(u) - purse[u], Charges(u))
      BY <1>4, Zenon DEF Balanced
    <2>4. ASSUME NEW u \in Users, Near(credits[u] + Used(u) - purse[u], Charges(u))
          PROVE  2 * (credits[u] + Used(u) - purse[u])
                     \in -(Cent * Charges(u)) .. Cent * Charges(u)
      BY <2>1, <2>2, <2>4 DEF Near, Cent
    <2> QED
      BY <2>3, <2>4 DEF SumIsKept
  <1> QED
    BY <1>3, <1>4, BillingTypeCorrect, PTL
=============================================================================
