------------------------------ MODULE AiGateway ------------------------------
(***************************************************************************)
(* AIService: a call of the OpenAI interface is given to one of the        *)
(* running instances of its model in turn and recorded when it ends.  It   *)
(* reads the rows ModelService writes; the instance may be stopped, or its *)
(* container may be gone, by the time the call arrives at its endpoint.    *)
(*                                                                         *)
(* The gateway's handlers run on one event loop and only give it up while  *)
(* they wait for an instance: reading the rows and taking the counter is   *)
(* one step.  The counters are memory of the API process.                  *)
(***************************************************************************)
EXTENDS ModelDeployment, Sequences

CONSTANT Calls   \* the calls users make, each once

ASSUME CallsAssumption == None \notin Calls /\ IsFiniteSet(Calls)

VARIABLES
    call,      \* each call: where it is, the instance chosen, the container that answers
    counter,   \* _rr_counters
    turns,     \* history: the instances last chosen from and how often each was chosen
    apiCalls   \* the status_code of each api_calls row of each call

gateway == <<call, counter, turns, apiCalls>>
gatewayVars == <<deployVars, gateway>>

Call == [step : {"new", "sent", "taken", "ended", "lost"}, stream : BOOLEAN, chosen : Ids \cup {0},
         node : Nodes \cup {None}, port : Ports \cup {0}, by : Ids \cup {0}]
NewCall == [step |-> "new", stream |-> FALSE, chosen |-> 0, node |-> None, port |-> 0, by |-> 0]
NoTurns == [among |-> {}, count |-> [id \in Ids |-> 0]]

GatewayInit ==
    /\ DeployInit
    /\ call = [c \in Calls |-> NewCall]
    /\ counter = [m \in Models |-> 0]
    /\ turns = [m \in Models |-> NoTurns]
    /\ apiCalls = [c \in Calls |-> <<>>]

-----------------------------------------------------------------------------
Running(m) == {i \in InstancesOf(m) : i.status = "running"}

\* The index of an instance in the list, which is in the order they were started.
Index(i, list) == Cardinality({j \in list : j.id < i.id})

\* The call as it is sent to an instance.
Sent(i, stream) ==
    [step |-> "sent", stream |-> stream, chosen |-> i.id, node |-> i.node, port |-> i.port, by |-> 0]

\* The history: counts begin anew with every change of the running instances.
Turn(m, i) ==
    LET among == {j.id : j \in Running(m)}
        before == IF turns[m].among = among THEN turns[m].count ELSE NoTurns.count
    IN  [among |-> among, count |-> [before EXCEPT ![i.id] = @ + 1]]

\* Seeded mistake: a stream returns before the counter moves.
Select_StreamsKeepCounter(c, m) ==
    /\ call[c].step = "new"
    /\ ModelExists(m)
    /\ \E i \in Running(m) : \E stream \in BOOLEAN :
          /\ Index(i, Running(m)) = counter[m] % Cardinality(Running(m))
          /\ call' = [call EXCEPT ![c] = Sent(i, stream)]
          /\ turns' = [turns EXCEPT ![m] = Turn(m, i)]
          /\ counter' = IF stream THEN counter ELSE [counter EXCEPT ![m] = @ + 1]
    /\ UNCHANGED <<deployVars, apiCalls>>

\* _select_running_instance, and the start of the call.  Without a running instance the
\* answer is 409 and nothing changes.
Select(c, m) ==
    /\ call[c].step = "new"
    /\ ModelExists(m)
    /\ \E i \in Running(m) : \E stream \in BOOLEAN :
          /\ Index(i, Running(m)) = counter[m] % Cardinality(Running(m))
          /\ call' = [call EXCEPT ![c] = Sent(i, stream)]
          /\ turns' = [turns EXCEPT ![m] = Turn(m, i)]
    /\ counter' = [counter EXCEPT ![m] = @ + 1]
    /\ UNCHANGED <<deployVars, apiCalls>>

\* The containers that listen at the endpoint of a call, and whether the one that took it is up.
Listening(c) == AtEndpoint(call[c].node, call[c].port)
StillUp(c) == \E b \in boxes : b.id = call[c].by /\ b.state = "up"

\* _record_api_call.
Record(c, status) == apiCalls' = [apiCalls EXCEPT ![c] = Append(@, status)]

\* What a stream that ends early records: 200, unless the container has sent its status.
StreamStatus(c) == IF call[c].step = "taken" THEN {200, 500} ELSE {200}

\* A container takes the call.
Connect(c) ==
    /\ call[c].step = "sent"
    /\ \E b \in Listening(c) : call' = [call EXCEPT ![c].step = "taken", ![c].by = b.id]
    /\ UNCHANGED <<deployVars, counter, turns, apiCalls>>

\* The whole answer arrives and is recorded with its status.
Answer(c) ==
    /\ call[c].step = "taken"
    /\ StillUp(c)
    /\ \E status \in {200, 500} : Record(c, status)
    /\ call' = [call EXCEPT ![c].step = "ended"]
    /\ UNCHANGED <<deployVars, counter, turns>>

\* Seeded mistake: no finally around the stream.
Break_Unrecorded(c) ==
    /\ \/ call[c].step = "sent" /\ Listening(c) = {}
       \/ call[c].step = "taken" /\ ~StillUp(c)
    /\ call' = [call EXCEPT ![c].step = "ended"]
    /\ UNCHANGED <<deployVars, counter, turns, apiCalls>>

\* Seeded mistake: the status a proxy would write for a client that left.
Leave_OtherStatus(c) ==
    /\ call[c].step \in {"sent", "taken"} /\ call[c].stream
    /\ Record(c, 499)
    /\ call' = [call EXCEPT ![c].step = "ended"]
    /\ UNCHANGED <<deployVars, counter, turns>>

\* Nobody listens, or the container goes away in the middle.  A call that is not a stream
\* ends with the exception; the finally of a stream records what it has.
Break(c) ==
    /\ \/ call[c].step = "sent" /\ Listening(c) = {}
       \/ call[c].step = "taken" /\ ~StillUp(c)
    /\ IF call[c].stream THEN \E status \in StreamStatus(c) : Record(c, status)
       ELSE UNCHANGED apiCalls
    /\ call' = [call EXCEPT ![c].step = "ended"]
    /\ UNCHANGED <<deployVars, counter, turns>>

\* The user of a stream goes away: its generator is closed and records what it has.
Leave(c) ==
    /\ call[c].step \in {"sent", "taken"} /\ call[c].stream
    /\ \E status \in StreamStatus(c) : Record(c, status)
    /\ call' = [call EXCEPT ![c].step = "ended"]
    /\ UNCHANGED <<deployVars, counter, turns>>

\* The user is gone before the generator of the stream has started: nothing is sent.
LeaveEarly(c) ==
    /\ call[c].step = "sent" /\ call[c].stream
    /\ call' = [call EXCEPT ![c].step = "lost"]
    /\ UNCHANGED <<deployVars, counter, turns, apiCalls>>

\* With the API process its calls and its counters go.
GatewayCrash ==
    /\ ApiCrash
    /\ call' = [c \in Calls |-> IF call[c].step \in {"sent", "taken"}
                                THEN [call[c] EXCEPT !.step = "lost"] ELSE call[c]]
    /\ counter' = [m \in Models |-> 0]
    /\ turns' = [m \in Models |-> NoTurns]
    /\ UNCHANGED apiCalls

-----------------------------------------------------------------------------
CallStep(c) ==
    \/ \E m \in Models : Select(c, m)
    \/ Connect(c) \/ Answer(c) \/ Break(c) \/ Leave(c) \/ LeaveEarly(c)

GatewayNext ==
    \/ StepWithoutCrash /\ UNCHANGED gateway
    \/ GatewayCrash
    \/ \E c \in Calls : CallStep(c)

GatewaySpec == GatewayInit /\ [][GatewayNext]_gatewayVars

-----------------------------------------------------------------------------
(* Correctness *)

GatewayTypeOK ==
    /\ DeployTypeOK
    /\ call \in [Calls -> Call]
    /\ counter \in [Models -> 0 .. Cardinality(Calls)]
    /\ \A c \in Calls : apiCalls[c] \in Seq({200, 500})

\* Calls in turn: as long as the running instances of a model stay the same, no instance
\* gets two calls more than another, however many calls are on their way at once.
EvenTurns ==
    \A m \in Models : \A a, b \in turns[m].among : turns[m].count[a] <= turns[m].count[b] + 1

\* A call that ended is recorded exactly once, by whichever path it ended, except one that
\* is not a stream and got no answer.
RecordedOnce ==
    \A c \in Calls :
        /\ Len(apiCalls[c]) <= 1
        /\ call[c].step # "ended" => apiCalls[c] = <<>>
        /\ call[c].step = "ended" /\ call[c].stream => apiCalls[c] # <<>>

\* While its instance is recorded, a call is answered by the container of that instance or by a
\* leftover: one that no row names and no deployment is about to record, although containers
\* die, stay behind and are started with ports that were used before.  The leftover may be of
\* another model: whatever a lost launch left at the endpoint gets the calls.
Leftover(id) == (\A i \in instances : i.id # id) /\ ~(step = "launched" /\ current = id)
AnsweredByChosen ==
    [][\A c \in Calls :
          call[c].by = 0 /\ call'[c].by # 0 =>
              \/ call'[c].by = call[c].chosen
              \/ \A i \in instances : i.id # call[c].chosen
              \/ Leftover(call'[c].by)]_gatewayVars
=============================================================================
