----------------------------- MODULE Registration -----------------------------
(***************************************************************************)
(* How hosts enter the tables: NodeService.handle_heartbeat statement by   *)
(* statement, when several heartbeats of a node are handled at a time.     *)
(*                                                                         *)
(* The reporter of an agent waits 5 seconds for an answer and sends the    *)
(* next heartbeat 10 seconds later (heartbeat.py:51); the API still works  *)
(* on the first when it waits for a row.  A transaction sees what was      *)
(* committed before each of its statements, and PostgreSQL holds the       *)
(* unique keys nodes.ip, running_containers.container_id and (node_id,     *)
(* gpu_index).  What a heartbeat reads, deletes and inserts is kept apart; *)
(* what it writes into a row, its status above all, is the subject of      *)
(* Cluster.                                                                *)
(***************************************************************************)
EXTENDS Naturals, FiniteSets

CONSTANTS
    Hosts,      \* machines that run an agent
    Addresses,  \* values of NODE_IP; a node is known by its address
    FirstAddress,
    Boxes,      \* managed containers: an id of docker is used once
    MaxGpus,    \* bound: GPUs of a host
    Slots,      \* bound: heartbeats under way
    MaxMoves,   \* bound: agents started again with another address
    None

ASSUME MaxGpusAssumption == MaxGpus \in Nat
ASSUME FirstAddressAssumption == FirstAddress \in [Hosts -> Addresses]
ASSUME NoneAssumption == None \notin Hosts \cup Addresses

VARIABLES
    address,   \* the address of each agent
    count,     \* the GPUs nvidia-smi lists on each host
    home,      \* the host of a container that docker lists
    fresh,     \* containers not started yet
    moves,
    beats,     \* the heartbeats under way
    nodes,     \* the nodes table: addresses
    gpuRows,   \* the gpu_devices table, as <<address, index>>
    ctrRow     \* the running_containers table: the node of a container's row

hostVars == <<address, count, home, fresh, moves>>
tables == <<nodes, gpuRows, ctrRow>>
regVars == <<hostVars, beats, tables>>

Indices == 0 .. MaxGpus - 1

\* Where handle_heartbeat is: the call has not been taken, the node was read, the
\* DELETE has found its rows.
Stages == {"sent", "read", "deleted"}

\* known: the GPU rows it read.  gone: the container rows its DELETE has found.
\* adds: it inserted the node.  alone: no other heartbeat of the node was committed
\* since it read (a history variable).
Beat == [host : Hosts, ip : Addresses, boxes : SUBSET Boxes, gpus : SUBSET Indices,
         stage : Stages, known : SUBSET Indices, gone : SUBSET Boxes,
         adds : BOOLEAN, alone : BOOLEAN]

RegTypeOK ==
    /\ address \in [Hosts -> Addresses]
    /\ count \in [Hosts -> 0 .. MaxGpus]
    /\ home \in [Boxes -> Hosts \cup {None}]
    /\ fresh \subseteq Boxes
    /\ moves \in Nat
    /\ beats \in [Slots -> Beat \cup {None}]
    /\ nodes \subseteq Addresses
    /\ gpuRows \subseteq nodes \X Indices
    /\ ctrRow \in [Boxes -> nodes \cup {None}]

RegInit ==
    /\ address = FirstAddress
    /\ count \in [Hosts -> 0 .. MaxGpus]
    /\ home = [b \in Boxes |-> None]
    /\ fresh = Boxes
    /\ moves = 0
    /\ beats = [s \in Slots |-> None]
    /\ nodes = {} /\ gpuRows = {}
    /\ ctrRow = [b \in Boxes |-> None]

-----------------------------------------------------------------------------
(* The hosts *)

Listed(h) == {b \in Boxes : home[b] = h}

\* run_container, and stop_container, which also removes.
Start(b, h) ==
    /\ b \in fresh
    /\ home' = [home EXCEPT ![b] = h]
    /\ fresh' = fresh \ {b}
    /\ UNCHANGED <<address, count, moves, beats, tables>>

Remove(b) ==
    /\ home[b] # None
    /\ home' = [home EXCEPT ![b] = None]
    /\ UNCHANGED <<address, count, fresh, moves, beats, tables>>

\* nvidia-smi fails and nothing is listed (gpu_monitor.py:41), a GPU drops out, or it is
\* back.  The index is the place in the list, so the first ones are always in use.
GpusChange(h) ==
    /\ \E n \in 0 .. MaxGpus : count' = [count EXCEPT ![h] = n]
    /\ UNCHANGED <<address, home, fresh, moves, beats, tables>>

\* An agent is started again with another NODE_IP; docker's containers stay.
Move(h) ==
    /\ moves < MaxMoves
    /\ \E ip \in Addresses :
          /\ \A g \in Hosts : address[g] # ip
          /\ address' = [address EXCEPT ![h] = ip]
    /\ moves' = moves + 1
    /\ UNCHANGED <<count, home, fresh, beats, tables>>

\* build_payload and the POST.
Send(h) ==
    /\ \E s \in Slots :
          /\ beats[s] = None
          /\ beats' = [beats EXCEPT ![s] =
                [host |-> h, ip |-> address[h], boxes |-> Listed(h),
                 gpus |-> 0 .. count[h] - 1, stage |-> "sent", known |-> {}, gone |-> {},
                 adds |-> FALSE, alone |-> TRUE]]
    /\ UNCHANGED <<hostVars, tables>>

-----------------------------------------------------------------------------
(* Seeded mistakes *)

\* An index that counts from one.
GpuRowsAfter_OffByOne(b) ==
    (gpuRows \ ({b.ip} \X (b.known \ b.gpus))) \cup ({b.ip} \X {i + 1 : i \in b.gpus \ b.known})

\* Rows of GPUs that are not listed any more stay.
GpuRowsAfter_KeepsStale(b) == gpuRows \cup ({b.ip} \X b.gpus)

\* GPUs are inserted with their node only.
GpuRowsAfter_FirstOnly(b) ==
    (gpuRows \ ({b.ip} \X (b.known \ b.gpus)))
        \cup (IF b.adds THEN {b.ip} \X b.gpus ELSE {})

\* The handler deletes the rows of the containers it is told of.
FoundBy_ListedOnly(b) == {c \in b.boxes : ctrRow[c] = b.ip}

\* A heartbeat of an unknown node goes no further.
Delete_KnownOnly(s) ==
    /\ beats[s] # None
    /\ beats[s].stage = "read"
    /\ beats[s].ip \in nodes
    /\ beats' = [beats EXCEPT ![s].stage = "deleted",
                              ![s].gone = {c \in Boxes : ctrRow[c] = beats[s].ip}]
    /\ UNCHANGED <<hostVars, tables>>

-----------------------------------------------------------------------------
(* NodeService.handle_heartbeat *)

At(s, stage) == beats[s] # None /\ beats[s].stage = stage

KnownGpus(ip) == {i \in Indices : <<ip, i>> \in gpuRows}

\* The SELECT of the node and its GPU rows.
Read(s) ==
    /\ At(s, "sent")
    /\ beats' = [beats EXCEPT ![s].stage = "read",
                              ![s].adds = beats[s].ip \notin nodes,
                              ![s].known = KnownGpus(beats[s].ip)]
    /\ UNCHANGED <<hostVars, tables>>

\* The rows the DELETE finds.
FoundBy(b) == {c \in Boxes : ctrRow[c] = b.ip}

\* The node is inserted if there was none, then the DELETE takes its snapshot.  When
\* two heartbeats insert one node or delete one row, the second waits for the end of the
\* first; which of them came first is left to Commit.
Delete(s) ==
    /\ At(s, "read")
    /\ beats[s].adds => beats[s].ip \notin nodes
    /\ beats' = [beats EXCEPT ![s].stage = "deleted", ![s].gone = FoundBy(beats[s])]
    /\ UNCHANGED <<hostVars, tables>>

\* Containers whose row stands in the way of the INSERT.
Clash(s) == {c \in beats[s].boxes \ beats[s].gone : ctrRow[c] # None}

\* The transactions that have deleted such a row and are not committed.
WaitsFor(s) ==
    {o \in Slots \ {s} : At(o, "deleted") /\ beats[o].gone \cap Clash(s) # {}}

\* GPU rows that were inserted since they were read.
GpuClash(b) == (b.gpus \ b.known) \cap KnownGpus(b.ip)

\* New rows are inserted, those of GPUs that are not listed are deleted.
GpuRowsAfter(b) ==
    (gpuRows \ ({b.ip} \X (b.known \ b.gpus))) \cup ({b.ip} \X (b.gpus \ b.known))

\* What a commit means to another heartbeat of the node: a DELETE that waited skips the
\* rows that are gone, and the new ones are not in its snapshot.
Notice(b, o) ==
    IF o = None \/ o.ip # b.ip \/ o.stage = "sent" THEN o
    ELSE [o EXCEPT !.alone = FALSE, !.gone = o.gone \ b.gone]

\* The flush and the commit.
Commit(s) ==
    LET b == beats[s] IN
    /\ At(s, "deleted")
    /\ b.adds => b.ip \notin nodes
    /\ Clash(s) = {} /\ GpuClash(b) = {}
    /\ nodes' = nodes \cup {b.ip}
    /\ gpuRows' = GpuRowsAfter(b)
    /\ ctrRow' = [c \in Boxes |-> IF c \in b.boxes THEN b.ip
                                  ELSE IF c \in b.gone THEN None ELSE ctrRow[c]]
    /\ beats' = [o \in Slots |-> IF o = s THEN None ELSE Notice(b, beats[o])]
    /\ UNCHANGED hostVars

\* A unique key refuses an insert (a row that another transaction has deleted is waited
\* for), or the UPDATE of a GPU row that was deleted matches nothing; when there is
\* nothing to update, Commit is possible.  Everything is rolled back.
Refused(s) ==
    \/ (At(s, "read") \/ At(s, "deleted")) /\ beats[s].adds /\ beats[s].ip \in nodes
    \/ /\ At(s, "deleted")
       /\ \/ \E c \in Clash(s) : \A o \in WaitsFor(s) : c \notin beats[o].gone
          \/ GpuClash(beats[s]) # {}
          \/ ~((beats[s].known \cap beats[s].gpus) \subseteq KnownGpus(beats[s].ip))

Refuse(s) ==
    /\ Refused(s)
    /\ beats' = [beats EXCEPT ![s] = None]
    /\ UNCHANGED <<hostVars, tables>>

\* The database goes away, or ends one of two transactions that wait for each other: a
\* rollback.  (A call that is lost was never sent.)
Lose(s) ==
    /\ At(s, "deleted")
    /\ beats' = [beats EXCEPT ![s] = None]
    /\ UNCHANGED <<hostVars, tables>>

HostStep ==
    \/ \E h \in Hosts : GpusChange(h) \/ Move(h) \/ Send(h)
    \/ \E b \in Boxes : Remove(b) \/ \E h \in Hosts : Start(b, h)

HandlerStep(s) == Read(s) \/ Delete(s) \/ Commit(s) \/ Refuse(s)

RegNext ==
    \/ HostStep
    \/ \E s \in Slots : HandlerStep(s) \/ Lose(s)

RegSpec == RegInit /\ [][RegNext]_regVars

\* Reporters send for ever, the API goes on with what it has begun, and not every
\* heartbeat of a host is rolled back.
Of(h, s) == beats[s] # None /\ beats[s].host = h /\ beats[s].ip = address[h]

RegFairness ==
    /\ \A h \in Hosts :
          /\ SF_regVars(Send(h))
          /\ SF_regVars(\E s \in Slots : Of(h, s) /\ Commit(s))
    /\ \A s \in Slots : WF_regVars(HandlerStep(s))

RegFairSpec == RegSpec /\ RegFairness

-----------------------------------------------------------------------------
(* Correctness *)

\* Action property: a heartbeat with no other commit of its node since it read leaves
\* exactly the rows it reports, whatever other nodes do and others have begun meanwhile.
LoneHeartbeatIsExact ==
    [][\A s \in Slots :
          Commit(s) /\ beats[s].alone =>
             LET b == beats[s] IN
             /\ {i \in Indices : <<b.ip, i>> \in gpuRows'} = b.gpus
             /\ {c \in Boxes : ctrRow'[c] = b.ip} = b.boxes]_regVars

\* The row of one of its containers belongs to another node, the one of its former
\* address: the unique key refuses its heartbeats until that node's are accepted again.
Shut(h) == \E c \in Boxes : home[c] = h /\ ctrRow[c] \notin {None, address[h]}

\* Liveness: a host whose agent sends heartbeats becomes a node, although first
\* heartbeats overlap and refuse each other.
AgentsAreKnown ==
    \A h \in Hosts, ip \in Addresses :
        address[h] = ip ~> address[h] # ip \/ ip \in nodes \/ Shut(h)

\* Liveness: the row of a container that is gone goes, although a DELETE that overlaps
\* another heartbeat misses the rows that one inserts.
ContainerRowsConverge ==
    \A h \in Hosts, ip \in Addresses, c \in Boxes :
        address[h] = ip /\ ctrRow[c] = ip /\ home[c] # h
            ~> address[h] # ip \/ ctrRow[c] # ip \/ home[c] = h \/ Shut(h)

\* Liveness: GPU rows come and go with what nvidia-smi lists, although the rows a
\* heartbeat has read are changed by another before it writes.
GpuRowsConverge ==
    \A h \in Hosts, ip \in Addresses, i \in Indices :
        address[h] = ip /\ (i < count[h]) # (<<ip, i>> \in gpuRows)
            ~> address[h] # ip \/ (i < count[h]) = (<<ip, i>> \in gpuRows) \/ Shut(h)
=============================================================================
