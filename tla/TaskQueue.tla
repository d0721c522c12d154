------------------------------ MODULE TaskQueue ------------------------------
(***************************************************************************)
(* The three Redis lists that carry submitted tasks from the API to the    *)
(* scheduler.  A list is a sequence whose HEAD is the right end of the     *)
(* Redis list: LPUSH appends, RPOP takes the head, and the RPUSH of a      *)
(* requeue puts an entry back in front of everything that waits.           *)
(*                                                                         *)
(* An entry is the JSON payload.  QueueService.enqueue_task writes no      *)
(* "priority" key, so the record of a backend entry has no such field;     *)
(* QueueManager.enqueue, which nothing calls, would write one.  "ticket"   *)
(* stands for enqueued_at and identifies the push.                         *)
(***************************************************************************)
EXTENDS Integers, Sequences

Levels == {"high", "normal", "low"}

\* QueueService.get_queue_level: the list a submitted task is pushed to.
BackendLevel(priority) ==
    IF priority >= 10 THEN "high" ELSE IF priority < 0 THEN "low" ELSE "normal"

\* QueueManager._get_queue_name: the list a payload is put back to.
SchedulerLevel(priority) ==
    IF priority >= 10 THEN "high" ELSE IF priority >= 0 THEN "normal" ELSE "low"

EmptyQueues == [level \in Levels |-> <<>>]

\* The payload QueueService.enqueue_task builds.
BackendEntry(task, ticket) == [task |-> task, ticket |-> ticket]

\* int(task_data.get("priority", 0) or 0)
PriorityOf(entry) == IF "priority" \in DOMAIN entry THEN entry.priority ELSE 0

Push(q, level, entry) == [q EXCEPT ![level] = Append(@, entry)]

\* The level dequeue() pops from: the first non-empty one, high to low.
PopLevel(q) ==
    IF q["high"] # <<>> THEN "high" ELSE IF q["normal"] # <<>> THEN "normal" ELSE "low"

SomeEntry(q) == \E level \in Levels : q[level] # <<>>

Popped(q) == Head(q[PopLevel(q)])

Pop(q) == [q EXCEPT ![PopLevel(q)] = Tail(@)]

\* A seeded mistake: put back with LPUSH, behind everything that waits.
Requeue_AtTheBack(q, entry) ==
    [q EXCEPT ![SchedulerLevel(PriorityOf(entry))] = Append(@, entry)]

Requeue(q, entry) ==
    [q EXCEPT ![SchedulerLevel(PriorityOf(entry))] = <<entry>> \o @]

EntriesOf(q) == UNION {{q[level][i] : i \in DOMAIN q[level]} : level \in Levels}
=============================================================================
