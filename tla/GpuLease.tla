------------------------------- MODULE GpuLease -------------------------------
(***************************************************************************)
(* What the scheduler promises about GPUs, without queue, launches,        *)
(* transactions and failures: a row is free, leased to one task, or lost   *)
(* to both when the task that had it is launched again or deleted.         *)
(***************************************************************************)

CONSTANTS Tasks, Gpus

VARIABLES
    held,   \* the rows leased to each task
    free    \* the rows on offer

leaseVars == <<held, free>>

LeaseInit ==
    /\ held = [t \in Tasks |-> {}]
    /\ free = Gpus

\* Some free rows are leased to a task, instead of what it had.
Grant(t, rows) ==
    /\ rows \subseteq free
    /\ held' = [held EXCEPT ![t] = rows]
    /\ free' = free \ rows

\* A task gives back all it has.
GiveBack(t) ==
    /\ held' = [held EXCEPT ![t] = {}]
    /\ free' = free \cup held[t]

\* A task is deleted with what it has.
Forget(t) ==
    /\ held' = [held EXCEPT ![t] = {}]
    /\ UNCHANGED free

LeaseNext ==
    \E t \in Tasks :
        \/ Forget(t)
        \/ GiveBack(t)
        \/ \E rows \in SUBSET free : Grant(t, rows)

LeaseSpec == LeaseInit /\ [][LeaseNext]_leaseVars

\* A row is not leased twice, and a leased row is not on offer.
Exclusive ==
    /\ \A t \in Tasks : held[t] \subseteq Gpus \ free
    /\ \A t, u \in Tasks : t # u => held[t] \cap held[u] = {}
=============================================================================
