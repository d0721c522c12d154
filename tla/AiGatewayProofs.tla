---------------------------- MODULE AiGatewayProofs ----------------------------
(***************************************************************************)
(* Proofs about AiGateway, for every number of calls, next to everything   *)
(* ModelDeployment allows.                                                 *)
(***************************************************************************)
EXTENDS AiGateway, ModelDeploymentProofs

\* What was proved of the deployment holds beside the gateway.
LEMMA GatewayDeploys == ASSUME [GatewayNext]_gatewayVars PROVE [DeployNext]_deployVars
<1>1. ASSUME NEW c \in Calls, CallStep(c) PROVE UNCHANGED deployVars
  BY <1>1 DEF CallStep, Select, Connect, Answer, Break, Leave, LeaveEarly
<1>2. CASE UNCHANGED gatewayVars
  BY <1>2 DEF gatewayVars
<1>3. CASE GatewayCrash
  BY <1>3 DEF GatewayCrash, DeployNext
<1> QED BY <1>1, <1>2, <1>3 DEF GatewayNext, DeployNext

LEMMA GatewayDeployInv == GatewaySpec => []DeployInv
<1>1. GatewayInit => DeployInv
  BY DeployInvInit DEF GatewayInit
<1>2. DeployInv /\ [GatewayNext]_gatewayVars => DeployInv'
  BY GatewayDeploys, DeployInvStep
<1> QED BY <1>1, <1>2, PTL DEF GatewaySpec

-----------------------------------------------------------------------------
(* Records *)

Recorded ==
    /\ call \in [Calls -> Call]
    /\ apiCalls \in [Calls -> Seq({200, 500})]
    /\ RecordedOnce

LEMMA RecordedInit == GatewayInit => Recorded
  BY DEF GatewayInit, Recorded, RecordedOnce, NewCall, Call

\* A call whose step is replaced stays what it is.
Moved(r, s) == [r EXCEPT !.step = s]

LEMMA MovedCall ==
    ASSUME NEW r \in Call, NEW s \in {"new", "sent", "taken", "ended", "lost"}
    PROVE  /\ Moved(r, s) \in Call /\ Moved(r, s).step = s /\ Moved(r, s).stream = r.stream
           /\ Moved(r, s).chosen = r.chosen /\ Moved(r, s).node = r.node
           /\ Moved(r, s).port = r.port /\ Moved(r, s).by = r.by
  BY DEF Moved, Call

\* What the steps that neither choose an instance nor reach one do to the calls.
LEMMA CallsMove ==
    ASSUME call \in [Calls -> Call], NEW c \in Calls,
           Answer(c) \/ Break(c) \/ Leave(c) \/ LeaveEarly(c)
    PROVE  \E s \in {"ended", "lost"} :
               /\ call' = [call EXCEPT ![c] = Moved(call[c], s)]
               /\ s = "lost" => apiCalls' = apiCalls
               /\ s = "ended" => \/ \E code \in {200, 500} : Record(c, code)
                                 \/ apiCalls' = apiCalls /\ ~call[c].stream
<1>1. CASE Answer(c) \/ Break(c) \/ Leave(c)
  <2>1. call' = [call EXCEPT ![c] = Moved(call[c], "ended")]
    BY <1>1 DEF Answer, Break, Leave, Moved
  <2>2. (\E code \in {200, 500} : Record(c, code)) \/ (apiCalls' = apiCalls /\ ~call[c].stream)
    BY <1>1 DEF Answer, Break, Leave, StreamStatus, Call
  <2> QED BY <2>1, <2>2
<1>2. CASE LeaveEarly(c)
  <2>1. call' = [call EXCEPT ![c] = Moved(call[c], "lost")] /\ apiCalls' = apiCalls
    BY <1>2 DEF LeaveEarly, Moved
  <2> QED BY <2>1
<1> QED BY <1>1, <1>2

\* The call after it reached a container.
Taken(r, id) == [r EXCEPT !.step = "taken", !.by = id]

LEMMA TakenCall ==
    ASSUME NEW r \in Call, NEW id \in Ids
    PROVE  /\ Taken(r, id) \in Call /\ Taken(r, id).step = "taken"
           /\ Taken(r, id).chosen = r.chosen /\ Taken(r, id).node = r.node
           /\ Taken(r, id).port = r.port /\ Taken(r, id).by = id
  BY DEF Taken, Call

LEMMA ConnectTakes ==
    ASSUME DeployTypeOK, call \in [Calls -> Call], NEW c \in Calls, Connect(c)
    PROVE  \E b \in Listening(c) : b.id \in Ids /\ call' = [call EXCEPT ![c] = Taken(call[c], b.id)]
<1>1. PICK b \in Listening(c) : call' = [call EXCEPT ![c].step = "taken", ![c].by = b.id]
  BY DEF Connect
<1>2. b.id \in Ids
  BY DEF Listening, AtEndpoint, DeployTypeOK, ModelBox
<1>3. call' = [call EXCEPT ![c] = Taken(call[c], b.id)]
  BY <1>1, <1>2 DEF Taken, Call
<1> QED BY <1>2, <1>3

LEMMA RecordedStep ==
    ASSUME DeployTypeOK, Recorded, [GatewayNext]_gatewayVars PROVE Recorded'
<1> USE DEF Recorded, RecordedOnce
<1>1. CASE UNCHANGED gateway
  BY <1>1 DEF gateway
<1>2. CASE UNCHANGED gatewayVars
  BY <1>1, <1>2 DEF gatewayVars
<1>3. CASE GatewayCrash
  <2>1. /\ apiCalls' = apiCalls
        /\ call' = [c \in Calls |-> IF call[c].step \in {"sent", "taken"}
                                    THEN Moved(call[c], "lost") ELSE call[c]]
    BY <1>3, Zenon DEF GatewayCrash, Moved
  <2>2. \A c \in Calls :
            /\ Moved(call[c], "lost") \in Call /\ Moved(call[c], "lost").step = "lost"
            /\ Moved(call[c], "lost").stream = call[c].stream
    BY MovedCall
  <2> QED BY <2>1, <2>2
<1>4. ASSUME NEW c \in Calls, NEW m \in Models, Select(c, m) PROVE Recorded'
  <2>1. PICK i \in Running(m), stream \in BOOLEAN : call' = [call EXCEPT ![c] = Sent(i, stream)]
    BY <1>4 DEF Select
  <2>2. Sent(i, stream) \in Call /\ Sent(i, stream).step = "sent"
    BY <2>1, IdsAreNumbers DEF Sent, Call, Running, InstancesOf, DeployTypeOK, Instance
  <2> QED BY <1>4, <2>1, <2>2 DEF Select, Call
<1>5. ASSUME NEW c \in Calls, Connect(c) PROVE Recorded'
  <2>1. PICK b \in Listening(c) :
            b.id \in Ids /\ call' = [call EXCEPT ![c] = Taken(call[c], b.id)]
    BY <1>5, ConnectTakes
  <2>2. Taken(call[c], b.id) \in Call /\ Taken(call[c], b.id).step = "taken"
    BY <2>1, TakenCall
  <2>3. apiCalls' = apiCalls /\ call[c].step = "sent"
    BY <1>5 DEF Connect
  <2> QED BY <2>1, <2>2, <2>3
<1>6. ASSUME NEW c \in Calls, Answer(c) \/ Break(c) \/ Leave(c) \/ LeaveEarly(c) PROVE Recorded'
  <2>1. PICK s \in {"ended", "lost"} :
            /\ call' = [call EXCEPT ![c] = Moved(call[c], s)]
            /\ s = "lost" => apiCalls' = apiCalls
            /\ s = "ended" => \/ \E code \in {200, 500} : Record(c, code)
                              \/ apiCalls' = apiCalls /\ ~call[c].stream
    BY <1>6, CallsMove
  <2>2. /\ Moved(call[c], s) \in Call /\ Moved(call[c], s).step = s
        /\ Moved(call[c], s).stream = call[c].stream
    BY <2>1, MovedCall
  <2>3. call[c].step \in {"sent", "taken"} /\ apiCalls[c] = <<>>
    BY <1>6 DEF Answer, Break, Leave, LeaveEarly
  <2>4. CASE apiCalls' = apiCalls
    BY <2>1, <2>2, <2>3, <2>4 DEF Record
  <2>5. ASSUME NEW code \in {200, 500}, Record(c, code), s = "ended" PROVE Recorded'
    <3>1. apiCalls' = [apiCalls EXCEPT ![c] = <<code>>]
      BY <2>3, <2>5 DEF Record
    <3> QED BY <2>1, <2>2, <2>5, <3>1
  <2> QED BY <2>1, <2>4, <2>5
<1> QED BY <1>1, <1>2, <1>3, <1>4, <1>5, <1>6 DEF GatewayNext, CallStep

\* A call leaves one row in api_calls at most, before it ends none, and a stream that was
\* sent one, whichever way it ended and whatever becomes of its instance.
THEOREM CallsAreRecordedOnce == GatewaySpec => []RecordedOnce
<1>1. DeployInv /\ Recorded /\ [GatewayNext]_gatewayVars => Recorded'
  BY RecordedStep DEF DeployInv
<1>2. Recorded => RecordedOnce
  BY DEF Recorded
<1> QED BY RecordedInit, GatewayDeployInv, <1>1, <1>2, PTL DEF GatewaySpec
-----------------------------------------------------------------------------
(* Containers and instances: what stays of them in a step, by id and endpoint *)

SameAs(x, y) == x.id = y.id /\ x.node = y.node /\ x.port = y.port

\* No container changes its id or endpoint, and only launches add one.
LEMMA BoxesStay ==
    ASSUME DeployTypeOK, [DeployNext]_deployVars, ~Launch, ~LaunchFails
    PROVE  \A b \in boxes' : \E a \in boxes : SameAs(b, a)
<1> USE DEF tables, others, locals, history, bounds
<1> DEFINE ended(b) == [b EXCEPT !.state = "exited"]
<1>1. \A b \in boxes : SameAs(ended(b), b)
  BY DEF DeployTypeOK, ModelBox, SameAs
<1> HIDE DEF ended
<1>2. CASE boxes' \subseteq boxes
  BY <1>2 DEF SameAs
<1>3. CASE UNCHANGED deployVars
  BY <1>2, <1>3 DEF deployVars
<1>4. ASSUME NEW b \in boxes, BoxExits(b) PROVE \A x \in boxes' : \E a \in boxes : SameAs(x, a)
  <2>1. boxes' = (boxes \ {b}) \cup {ended(b)}
    BY <1>4, Zenon DEF BoxExits, ended
  <2> QED BY <1>1, <2>1 DEF SameAs
<1>5. CASE ModelStep
  BY <1>2, <1>5 DEF ModelStep, CreateModel, UpdateModel, DeleteModel
<1>6. CASE OtherStep
  BY <1>2, <1>6 DEF OtherStep, TaskTakes, TaskStarts, TaskEnds, TaskForgets, Silence, BuildPayload,
                    Heartbeat
<1>7. CASE OperationStep
  <2>1. CASE Healthy \/ Unhealthy \/ Finish \/ Flush \/ NothingToChoose
    BY <1>2, <2>1 DEF Healthy, Unhealthy, Finish, Flush, NothingToChoose
  <2>2. CASE InsertInstance \/ InsertFails \/ UndoCommit
    BY <1>2, <2>2 DEF InsertInstance, InsertFails, UndoCommit
  <2>3. CASE MarkError \/ StopCommit \/ StopOfDeleted
    BY <1>2, <2>3 DEF MarkError, StopCommit, StopOfDeleted
  <2>4. ASSUME NEW n \in Nodes, NEW g \in SUBSET Gpus, Choose(n, g) PROVE boxes' = boxes
    BY <2>4 DEF Choose
  <2> QED BY <1>2, <1>7, <2>1, <2>2, <2>3, <2>4 DEF OperationStep
<1>8. ASSUME NEW id \in Ids, UndoCall(id) PROVE boxes' \subseteq boxes
  BY <1>8 DEF UndoCall
<1>9. ASSUME NEW i \in instances, StopCall(i) PROVE boxes' \subseteq boxes
  BY <1>9 DEF StopCall
<1>10. ASSUME NEW i \in instances, StopCallFails(i)
       PROVE  \A b \in boxes' : \E a \in boxes : SameAs(b, a)
  <2>1. PICK mine \in SUBSET boxes :
            \/ boxes' = boxes \/ boxes' = boxes \ mine
            \/ boxes' = (boxes \ mine) \cup {ended(b) : b \in mine}
    <3>1. {b \in boxes : b.id = i.id} \in SUBSET boxes
      OBVIOUS
    <3> QED BY <1>10, <3>1, Zenon DEF StopCallFails, ended
  <2> QED BY <1>1, <2>1 DEF SameAs
<1>11. ASSUME NEW m \in Models, DeployBegin(m) \/ StopBegin(m) PROVE boxes' = boxes
  BY <1>11 DEF DeployBegin, StopBegin
<1>12. CASE ApiCrash \/ Refusal
  BY <1>2, <1>12 DEF ApiCrash, Refusal, WriteRefused, UndoRefused, MarkErrorRefused, StopRefused
<1> QED
  BY <1>2, <1>3, <1>4, <1>5, <1>6, <1>7, <1>8, <1>9, <1>10, <1>11, <1>12
  DEF DeployNext, StepWithoutCrash, AgentCall

\* No instance changes its id or endpoint, and only InsertInstance adds one.
LEMMA InstancesStay ==
    ASSUME DeployTypeOK, [DeployNext]_deployVars, ~InsertInstance
    PROVE  \A i \in instances' : \E j \in instances : SameAs(i, j)
<1> USE DEF tables, others, locals, history, bounds
<1>1. CASE instances' \subseteq instances
  BY <1>1 DEF SameAs
<1>2. CASE UNCHANGED deployVars \/ Around \/ Quiet
  BY <1>1, <1>2, AroundKeeps, QuietKeeps DEF deployVars
<1>3. ASSUME NEW m \in Models, DeployBegin(m) \/ StopBegin(m) PROVE instances' = instances
  BY <1>3 DEF DeployBegin, StopBegin
<1>4. ASSUME NEW n \in Nodes, NEW g \in SUBSET Gpus, Choose(n, g) PROVE instances' = instances
  BY <1>4 DEF Choose
<1>5. CASE Launch \/ LaunchFails
  BY <1>1, <1>5 DEF Launch, LaunchFails
<1>6. CASE Healthy
  <2>1. \A i \in instances : SameAs(Started(i, current), i)
    BY StateReplaced, DeploymentAssumption DEF DeployTypeOK, Ids, SameAs
  <2> QED BY <1>6, <2>1, HealthyStarts
<1>7. ASSUME NEW id \in Ids, UndoCall(id) PROVE instances' = instances
  BY <1>7 DEF UndoCall
<1>8. ASSUME NEW i \in instances, StopCall(i) \/ StopCallFails(i) PROVE instances' = instances
  BY <1>8, StopCallFailsKeeps DEF StopCall
<1>9. CASE UndoCommit \/ StopCommit
  BY <1>1, <1>9 DEF UndoCommit, StopCommit
<1> QED BY <1>1, <1>2, <1>3, <1>4, <1>5, <1>6, <1>7, <1>8, <1>9, DeployCases

\* An operation enters "launched" by Launch only, and keeps its launch there.
LEMMA LaunchedStays ==
    ASSUME [DeployNext]_deployVars, ~Launch, step' = "launched"
    PROVE  step = "launched" /\ UNCHANGED <<current, alloc>>
<1> USE DEF tables, others, locals, history, bounds
<1>1. CASE UNCHANGED deployVars \/ Around \/ Quiet
  BY <1>1, AroundKeeps, QuietKeeps DEF deployVars
<1>2. ASSUME NEW m \in Models, DeployBegin(m) \/ StopBegin(m) PROVE FALSE
  BY <1>2 DEF DeployBegin, StopBegin
<1>3. ASSUME NEW n \in Nodes, NEW g \in SUBSET Gpus, Choose(n, g) PROVE FALSE
  BY <1>3 DEF Choose
<1>4. CASE LaunchFails \/ UndoCommit
  BY <1>4 DEF LaunchFails, UndoCommit, Fail
<1>5. CASE InsertInstance \/ Healthy
  BY <1>5 DEF InsertInstance, Healthy
<1>6. ASSUME NEW id \in Ids, UndoCall(id) PROVE FALSE
  BY <1>6 DEF UndoCall
<1>7. ASSUME NEW i \in instances, StopCall(i) \/ StopCallFails(i) PROVE FALSE
  BY <1>7, StopCallFailsKeeps DEF StopCall
<1>8. CASE StopCommit
  BY <1>8 DEF StopCommit, LeaveLock
<1> QED BY <1>1, <1>2, <1>3, <1>4, <1>5, <1>6, <1>7, <1>8, DeployCases

LEMMA LaunchesStay ==
    ASSUME [DeployNext]_deployVars, ~Launch, ~LaunchFails PROVE launches' = launches
<1> USE DEF tables, others, locals, history, bounds
<1>1. CASE UNCHANGED deployVars \/ Around \/ Quiet
  BY <1>1, AroundKeeps, QuietKeeps DEF deployVars
<1>2. ASSUME NEW m \in Models, DeployBegin(m) \/ StopBegin(m) PROVE launches' = launches
  BY <1>2 DEF DeployBegin, StopBegin
<1>3. ASSUME NEW n \in Nodes, NEW g \in SUBSET Gpus, Choose(n, g) PROVE launches' = launches
  BY <1>3 DEF Choose
<1>4. CASE UndoCommit \/ InsertInstance \/ Healthy \/ StopCommit
  BY <1>4 DEF UndoCommit, InsertInstance, Healthy, StopCommit
<1>5. ASSUME NEW id \in Ids, UndoCall(id) PROVE launches' = launches
  BY <1>5 DEF UndoCall
<1>6. ASSUME NEW i \in instances, StopCall(i) \/ StopCallFails(i) PROVE launches' = launches
  BY <1>6, StopCallFailsKeeps DEF StopCall
<1> QED BY <1>1, <1>2, <1>3, <1>4, <1>5, <1>6, DeployCases

-----------------------------------------------------------------------------
(* Answers *)

\* A container has the endpoint of the instance recorded for it, and the launch that is
\* not recorded yet that of the allocation.
Endpoints ==
    /\ \A b \in boxes : b.id \in 1 .. launches
    /\ \A b \in boxes : \A i \in instances : b.id = i.id => b.node = i.node /\ b.port = i.port
    /\ step = "launched" =>
          \A b \in boxes : b.id = current => b.node = alloc.node /\ b.port = alloc.port

LEMMA EndpointsStep ==
    ASSUME DeployTypeOK, IdsAreOwn, Endpoints, [DeployNext]_deployVars
    PROVE  Endpoints'
<1> USE DEF tables, others, locals, history, bounds, SameAs
<1>0. launches \in Nat /\ launches' \in {launches, launches + 1}
  <2>1. launches \in Nat
    BY DeploymentAssumption DEF DeployTypeOK
  <2>2. CASE Launch \/ LaunchFails
    BY <2>1, <2>2 DEF Launch, LaunchFails
  <2>3. CASE ~Launch /\ ~LaunchFails
    BY <2>1, <2>3, LaunchesStay
  <2> QED BY <2>1, <2>2, <2>3
<1>1. CASE Launch \/ LaunchFails
  <2>1. /\ boxes' \subseteq boxes \cup {NewBox("up"), NewBox("created")}
        /\ launches' = launches + 1 /\ instances' = instances
        /\ step' = "launched" => current' = launches + 1 /\ alloc' = alloc
    BY <1>1 DEF Launch, LaunchFails, Fail
  <2>2. \A state \in {"up", "created"} :
            /\ NewBox(state).id = launches + 1
            /\ NewBox(state).node = alloc.node /\ NewBox(state).port = alloc.port
    BY DEF NewBox
  <2>3. \A i \in instances : i.id # launches + 1
    BY <1>0 DEF IdsAreOwn
  <2>4. \A b \in boxes' : b \in boxes \/ (b.id = launches + 1 /\ b.node = alloc.node
                                            /\ b.port = alloc.port)
    BY <2>1, <2>2
  <2> QED BY <1>0, <2>1, <2>3, <2>4 DEF Endpoints
<1>2. CASE InsertInstance
  <2> DEFINE new == [id |-> current, model |-> model, node |-> alloc.node, gpus |-> alloc.gpus,
                     port |-> alloc.port, status |-> "starting"]
  <2>1. /\ instances' = instances \cup {new} /\ step = "launched" /\ step' = "waiting"
        /\ boxes' = boxes /\ launches' = launches
    BY <1>2 DEF InsertInstance
  <2>2. new.id = current /\ new.node = alloc.node /\ new.port = alloc.port
    OBVIOUS
  <2> HIDE DEF new
  <2> QED BY <2>1, <2>2 DEF Endpoints
<1>3. CASE ~Launch /\ ~LaunchFails /\ ~InsertInstance
  <2>1. \A b \in boxes' : \E a \in boxes : b.id = a.id /\ b.node = a.node /\ b.port = a.port
    BY <1>3, BoxesStay
  <2>2. \A i \in instances' : \E j \in instances :
            i.id = j.id /\ i.node = j.node /\ i.port = j.port
    BY <1>3, InstancesStay
  <2>3. step' = "launched" => step = "launched" /\ current' = current /\ alloc' = alloc
    BY <1>3, LaunchedStays
  <2>4. \A b \in boxes' : b.id \in 1 .. launches'
    BY <1>0, <2>1 DEF Endpoints
  <2>5. \A b \in boxes' : \A i \in instances' : b.id = i.id => b.node = i.node /\ b.port = i.port
    BY <2>1, <2>2 DEF Endpoints
  <2>6. step' = "launched" =>
            \A b \in boxes' : b.id = current' => b.node = alloc'.node /\ b.port = alloc'.port
    BY <2>1, <2>3 DEF Endpoints
  <2> QED BY <2>4, <2>5, <2>6 DEF Endpoints
<1> QED BY <1>1, <1>2, <1>3

\* What a call remembers of its instance stays true for as long as the instance is recorded.
Remembered(c) ==
    /\ call[c].chosen \in 0 .. launches
    /\ step = "launched" => call[c].chosen # current
    /\ \A i \in instances :
          i.id = call[c].chosen => i.node = call[c].node /\ i.port = call[c].port

CallsKnow == \A c \in Calls : Remembered(c)

LEMMA DeploymentKeepsCalls ==
    ASSUME DeployTypeOK, IdsAreOwn, CallsKnow, [DeployNext]_deployVars, NEW c \in Calls,
           call'[c].chosen = call[c].chosen, call'[c].node = call[c].node,
           call'[c].port = call[c].port
    PROVE  Remembered(c)'
<1> USE DEF tables, others, locals, history, bounds, SameAs
<1>0. launches \in Nat /\ call[c].chosen \in 0 .. launches /\ Remembered(c)
  BY DeploymentAssumption DEF DeployTypeOK, CallsKnow, Remembered
<1>1. CASE Launch
  BY <1>0, <1>1 DEF Launch, Remembered
<1>2. CASE LaunchFails
  BY <1>0, <1>2 DEF LaunchFails, Fail, Remembered
<1>3. CASE InsertInstance
  <2> DEFINE new == [id |-> current, model |-> model, node |-> alloc.node, gpus |-> alloc.gpus,
                     port |-> alloc.port, status |-> "starting"]
  <2>1. /\ instances' = instances \cup {new} /\ step = "launched" /\ step' = "waiting"
        /\ launches' = launches
    BY <1>3 DEF InsertInstance
  <2>2. new.id = current
    OBVIOUS
  <2> HIDE DEF new
  <2> QED BY <1>0, <2>1, <2>2 DEF Remembered
<1>4. CASE ~Launch /\ ~LaunchFails /\ ~InsertInstance
  <2>1. launches' = launches
    BY <1>4, LaunchesStay
  <2>2. \A i \in instances' : \E j \in instances :
            i.id = j.id /\ i.node = j.node /\ i.port = j.port
    BY <1>4, InstancesStay
  <2>3. step' = "launched" => step = "launched" /\ current' = current
    BY <1>4, LaunchedStays
  <2> QED BY <1>0, <2>1, <2>2, <2>3 DEF Remembered
<1> QED BY <1>1, <1>2, <1>3, <1>4

\* The endpoint a call remembers, after its step was replaced.
LEMMA CallsKnowStep ==
    ASSUME DeployInv, Recorded, CallsKnow, [GatewayNext]_gatewayVars PROVE CallsKnow'
<1> USE DEF Recorded, DeployInv
<1>1. ASSUME \A c \in Calls : /\ call'[c].chosen = call[c].chosen
                              /\ call'[c].node = call[c].node /\ call'[c].port = call[c].port
      PROVE  CallsKnow'
  BY <1>1, GatewayDeploys, DeploymentKeepsCalls DEF CallsKnow
<1>2. CASE UNCHANGED gatewayVars \/ UNCHANGED gateway
  BY <1>1, <1>2 DEF gatewayVars, gateway
<1>3. CASE GatewayCrash
  <2>1. call' = [c \in Calls |-> IF call[c].step \in {"sent", "taken"}
                                 THEN Moved(call[c], "lost") ELSE call[c]]
    BY <1>3, Zenon DEF GatewayCrash, Moved
  <2>2. \A c \in Calls : /\ Moved(call[c], "lost").chosen = call[c].chosen
                         /\ Moved(call[c], "lost").node = call[c].node
                         /\ Moved(call[c], "lost").port = call[c].port
    BY MovedCall
  <2> QED BY <1>1, <2>1, <2>2
<1>4. ASSUME NEW c \in Calls, NEW m \in Models, Select(c, m) PROVE CallsKnow'
  <2>1. PICK i \in Running(m), stream \in BOOLEAN : call' = [call EXCEPT ![c] = Sent(i, stream)]
    BY <1>4 DEF Select
  <2>2. /\ Sent(i, stream).chosen = i.id /\ Sent(i, stream).node = i.node
        /\ Sent(i, stream).port = i.port
    BY DEF Sent
  <2>3. UNCHANGED <<instances, launches, step, current>>
    BY <1>4 DEF Select, deployVars, tables, locals, bounds
  <2>4. i \in instances
    BY <2>1 DEF Running, InstancesOf
  <2>5. i.id \in 0 .. launches /\ (step = "launched" => i.id # current)
        /\ \A j \in instances : j.id = i.id => j = i
    BY <2>4, DeploymentAssumption DEF IdsAreOwn, DeployTypeOK
  <2>6. Remembered(c)'
    BY <2>1, <2>2, <2>3, <2>5 DEF Remembered
  <2>7. ASSUME NEW d \in Calls, d # c PROVE Remembered(d)'
    BY <2>1, <2>3, <2>7 DEF Remembered, CallsKnow
  <2> QED BY <2>6, <2>7 DEF CallsKnow
<1>5. ASSUME NEW c \in Calls, Connect(c) PROVE CallsKnow'
  <2>1. PICK b \in Listening(c) :
            b.id \in Ids /\ call' = [call EXCEPT ![c] = Taken(call[c], b.id)]
    BY <1>5, ConnectTakes
  <2>2. /\ Taken(call[c], b.id).chosen = call[c].chosen
        /\ Taken(call[c], b.id).node = call[c].node /\ Taken(call[c], b.id).port = call[c].port
    BY <2>1, TakenCall
  <2> QED BY <1>1, <2>1, <2>2
<1>6. ASSUME NEW c \in Calls, Answer(c) \/ Break(c) \/ Leave(c) \/ LeaveEarly(c) PROVE CallsKnow'
  <2>1. PICK s \in {"ended", "lost"} : call' = [call EXCEPT ![c] = Moved(call[c], s)]
    BY <1>6, CallsMove
  <2>2. /\ Moved(call[c], s).chosen = call[c].chosen /\ Moved(call[c], s).node = call[c].node
        /\ Moved(call[c], s).port = call[c].port
    BY <2>1, MovedCall
  <2> QED BY <1>1, <2>1, <2>2
<1> QED BY <1>2, <1>3, <1>4, <1>5, <1>6 DEF GatewayNext, CallStep

\* AnsweredByChosen, of one step.
AnswerOf(c) ==
    call[c].by = 0 /\ call'[c].by # 0 =>
        \/ call'[c].by = call[c].chosen
        \/ \A i \in instances : i.id # call[c].chosen
        \/ Leftover(call'[c].by)

LEMMA ConnectAnswers ==
    ASSUME DeployInv, Recorded, CallsKnow, Endpoints, NEW c \in Calls, Connect(c),
           NEW d \in Calls
    PROVE  AnswerOf(d)
<1> USE DEF Recorded, DeployInv
<1>1. PICK b \in Listening(c) :
          b.id \in Ids /\ call' = [call EXCEPT ![c] = Taken(call[c], b.id)]
  BY ConnectTakes
<1>2. Taken(call[c], b.id).by = b.id
  BY <1>1, TakenCall
<1>3. CASE d # c
  BY <1>1, <1>3 DEF AnswerOf
<1>4. CASE d = c
  <2>1. call'[c].by = b.id
    BY <1>1, <1>2
  <2>2. SUFFICES ASSUME NEW i \in instances, i.id = call[c].chosen, ~Leftover(b.id)
                 PROVE  b.id = call[c].chosen
    BY <1>4, <2>1 DEF AnswerOf
  <2>3. b \in boxes /\ b.node = call[c].node /\ b.port = call[c].port
    BY <1>1 DEF Listening, AtEndpoint
  <2>4. i.node = call[c].node /\ i.port = call[c].port
    BY <2>2 DEF CallsKnow, Remembered
  <2>5. ASSUME NEW j \in instances, j.id = b.id PROVE b.id = call[c].chosen
    <3>1. b.node = j.node /\ b.port = j.port
      BY <2>3, <2>5 DEF Endpoints
    <3> QED BY <2>2, <2>3, <2>4, <2>5, <3>1 DEF PortsAreOwn
  \* A launch in hand was given a port no instance has.
  <2>6. CASE step = "launched" /\ current = b.id
    <3>1. b.node = alloc.node /\ b.port = alloc.port
      BY <2>3, <2>6 DEF Endpoints
    <3> QED BY <2>3, <2>4, <2>6, <3>1 DEF PortsAreOwn
  <2> QED BY <2>2, <2>5, <2>6 DEF Leftover
<1> QED BY <1>3, <1>4

LEMMA AnswersStep ==
    ASSUME DeployInv, Recorded, CallsKnow, Endpoints, [GatewayNext]_gatewayVars, NEW d \in Calls
    PROVE  AnswerOf(d)
<1> USE DEF Recorded
<1>1. CASE call'[d].by = call[d].by \/ call'[d].by = 0
  BY <1>1 DEF AnswerOf
<1>2. CASE UNCHANGED gatewayVars \/ UNCHANGED gateway
  BY <1>1, <1>2 DEF gatewayVars, gateway
<1>3. CASE GatewayCrash
  <2>1. call' = [c \in Calls |-> IF call[c].step \in {"sent", "taken"}
                                 THEN Moved(call[c], "lost") ELSE call[c]]
    BY <1>3, Zenon DEF GatewayCrash, Moved
  <2>2. Moved(call[d], "lost").by = call[d].by
    BY MovedCall
  <2> QED BY <1>1, <2>1, <2>2
<1>4. ASSUME NEW c \in Calls, NEW m \in Models, Select(c, m) PROVE AnswerOf(d)
  <2>1. PICK i \in Running(m), stream \in BOOLEAN : call' = [call EXCEPT ![c] = Sent(i, stream)]
    BY <1>4 DEF Select
  <2>2. Sent(i, stream).by = 0
    BY DEF Sent
  <2> QED BY <1>1, <2>1, <2>2
<1>5. ASSUME NEW c \in Calls, Connect(c) PROVE AnswerOf(d)
  BY <1>5, ConnectAnswers
<1>6. ASSUME NEW c \in Calls, Answer(c) \/ Break(c) \/ Leave(c) \/ LeaveEarly(c)
      PROVE  AnswerOf(d)
  <2>1. PICK s \in {"ended", "lost"} : call' = [call EXCEPT ![c] = Moved(call[c], s)]
    BY <1>6, CallsMove
  <2>2. Moved(call[c], s).by = call[c].by
    BY <2>1, MovedCall
  <2> QED BY <1>1, <2>1, <2>2
<1> QED BY <1>2, <1>3, <1>4, <1>5, <1>6 DEF GatewayNext, CallStep

\* While its instance is recorded, no call is answered by the container of another recorded
\* instance, nor by one that a deployment has launched and is about to record: ports that
\* _next_host_port gives again and containers that stay behind included.
THEOREM AnsweredByChosenHolds == GatewaySpec => AnsweredByChosen
<1> DEFINE Inv == DeployInv /\ Recorded /\ CallsKnow /\ Endpoints
<1>1. GatewayInit => Recorded /\ CallsKnow /\ Endpoints
  BY RecordedInit
  DEF GatewayInit, DeployInit, CallsKnow, Remembered, Endpoints, NewCall
<1>2. Inv /\ [GatewayNext]_gatewayVars => Recorded' /\ CallsKnow' /\ Endpoints'
  BY RecordedStep, CallsKnowStep, EndpointsStep, GatewayDeploys DEF DeployInv
<1>3. Inv /\ [GatewayNext]_gatewayVars =>
          [\A c \in Calls :
              call[c].by = 0 /\ call'[c].by # 0 =>
                  \/ call'[c].by = call[c].chosen
                  \/ \A i \in instances : i.id # call[c].chosen
                  \/ Leftover(call'[c].by)]_gatewayVars
  BY AnswersStep DEF AnswerOf
<1> QED BY GatewayDeployInv, <1>1, <1>2, <1>3, PTL DEF GatewaySpec, AnsweredByChosen
-----------------------------------------------------------------------------
(* Turns *)

\* Another multiple of n is at least n away.
LEMMA Multiples ==
    ASSUME NEW n \in Nat \ {0}, NEW d \in Int, n * d < n, -n < n * d PROVE d = 0
<1>1. CASE d >= 1
  <2>1. n * (d - 1) >= 0
    <3>1. \A x, y \in Nat : x * y >= 0
      OBVIOUS
    <3> QED BY <1>1, <3>1
  <2>2. n * (d - 1) = n * d - n
    OBVIOUS
  <2> QED BY <2>1, <2>2
<1>2. CASE d <= -1
  <2>1. n * (-1 - d) >= 0
    <3>1. \A x, y \in Nat : x * y >= 0
      OBVIOUS
    <3> QED BY <1>2, <3>1
  <2>2. n * (-1 - d) = (-n) - n * d
    OBVIOUS
  <2> QED BY <2>1, <2>2
<1> QED BY <1>1, <1>2

\* A remainder is known by its range.
LEMMA Remainder ==
    ASSUME NEW c \in Nat, NEW n \in Nat \ {0}, NEW q \in Int, NEW r \in 0 .. n - 1,
           c = n * q + r
    PROVE  c % n = r
<1>1. c % n \in 0 .. n - 1
  OBVIOUS
<1>2. c = n * (c \div n) + (c % n)
  OBVIOUS
<1>3. c \div n \in Int
  OBVIOUS
<1>4. PICK p \in Int : p = c \div n
  BY <1>3
<1>5. n * (p - q) = n * p - n * q
  OBVIOUS
<1>6. n * p \in Int /\ n * q \in Int
  OBVIOUS
<1>7. n * (p - q) < n /\ -n < n * (p - q)
  BY <1>1, <1>2, <1>4, <1>5, <1>6
<1>8. p - q = 0
  BY <1>7, Multiples
<1>9. p = q
  BY <1>8
<1> QED BY <1>1, <1>2, <1>4, <1>6, <1>9

\* The remainder of the next number.
LEMMA NextRemainder == ASSUME NEW c \in Nat, NEW n \in Nat \ {0}
  PROVE  (c + 1) % n = IF (c % n) + 1 = n THEN 0 ELSE (c % n) + 1
<1>1. c % n \in 0 .. n - 1
  OBVIOUS
<1>2. c = n * (c \div n) + (c % n)
  OBVIOUS
<1>3. PICK p \in Int : p = c \div n
  OBVIOUS
<1>4. n * p \in Int /\ n * (p + 1) = n * p + n
  OBVIOUS
<1>5. CASE (c % n) + 1 = n
  <2>1. c + 1 = n * (p + 1) + 0
    BY <1>1, <1>2, <1>3, <1>4, <1>5
  <2>2. c + 1 \in Nat /\ p + 1 \in Int /\ 0 \in 0 .. n - 1
    OBVIOUS
  <2>3. (c + 1) % n = 0
    BY <2>1, <2>2, Remainder
  <2> QED BY <1>5, <2>3
<1>6. CASE (c % n) + 1 # n
  <2>1. c + 1 = n * p + ((c % n) + 1) /\ (c % n) + 1 \in 0 .. n - 1
    BY <1>1, <1>2, <1>3, <1>4, <1>6
  <2>2. c + 1 \in Nat
    OBVIOUS
  <2>3. (c + 1) % n = (c % n) + 1
    BY <2>1, <2>2, Remainder
  <2> QED BY <1>6, <2>3
<1> QED BY <1>5, <1>6

\* How many of A are less than x: the place of x in the list.
Rank(x, A) == Cardinality({y \in A : y < x})

LEMMA RanksDiffer ==
    ASSUME NEW A, IsFiniteSet(A), A \subseteq Int
    PROVE  /\ \A a \in A : Rank(a, A) \in 0 .. Cardinality(A) - 1
           /\ \A a, b \in A : a < b => Rank(a, A) < Rank(b, A)
           /\ \A a, b \in A : Rank(a, A) = Rank(b, A) => a = b
<1> DEFINE below(a) == {y \in A : y < a}
<1>1. ASSUME NEW a \in A PROVE IsFiniteSet(below(a)) /\ Cardinality(below(a)) \in Nat
  <2>1. below(a) \subseteq A
    OBVIOUS
  <2> HIDE DEF below
  <2> QED BY <2>1, FS_Subset, FS_CardinalityType
<1>2. ASSUME NEW a \in A PROVE Cardinality(below(a)) < Cardinality(A)
  <2>1. below(a) \subseteq A /\ a \in A \ below(a)
    BY <1>2
  <2> HIDE DEF below
  <2>2. /\ Cardinality(below(a)) <= Cardinality(A)
        /\ Cardinality(A) = Cardinality(below(a)) => A = below(a)
    BY <2>1, FS_Subset
  <2>3. Cardinality(A) # Cardinality(below(a))
    BY <2>1, <2>2
  <2>4. Cardinality(A) \in Nat /\ Cardinality(below(a)) \in Nat
    BY <1>1, FS_CardinalityType
  <2> QED BY <2>2, <2>3, <2>4
<1>3. ASSUME NEW a \in A, NEW b \in A, a < b PROVE Cardinality(below(a)) < Cardinality(below(b))
  <2>0. \A y \in A : y < a => y < b
    <3>1. \A x, y, z \in Int : x < y /\ y < z => x < z
      OBVIOUS
    <3> QED BY <1>3, <3>1
  <2>1. below(a) \subseteq below(b) /\ a \in below(b) /\ a \notin below(a)
    <3>1. ~ (a < a)
      OBVIOUS
    <3> QED BY <1>3, <2>0, <3>1
  <2>2. IsFiniteSet(below(b)) /\ Cardinality(below(a)) \in Nat /\ Cardinality(below(b)) \in Nat
    BY <1>1
  <2> HIDE DEF below
  <2>3. /\ Cardinality(below(a)) <= Cardinality(below(b))
        /\ Cardinality(below(b)) = Cardinality(below(a)) => below(b) = below(a)
    BY <2>1, <2>2, FS_Subset
  <2> QED BY <2>1, <2>2, <2>3
<1>4. Cardinality(A) \in Nat
  BY FS_CardinalityType
<1>5. \A a \in A : Rank(a, A) = Cardinality(below(a))
  BY DEF Rank
<1> HIDE DEF below
<1>6. \A a \in A : Rank(a, A) \in 0 .. Cardinality(A) - 1
  BY <1>1, <1>2, <1>4, <1>5
<1>7. \A a, b \in A : a < b => Rank(a, A) < Rank(b, A)
  BY <1>3, <1>5
<1>8. \A a, b \in A : Rank(a, A) = Rank(b, A) => a = b
  BY <1>6, <1>7
<1> QED BY <1>6, <1>7, <1>8

\* From place s on, in a circle, up to place r.
Passed(x, s, r) == IF s <= r THEN s <= x /\ x < r ELSE s <= x \/ x < r

\* The calls of a round: the counts begin at place s; those the round has passed have one
\* more than the others, and the next is the one the counter c points to.
Round(A, count, c) ==
    \E q \in Nat, s \in 0 .. Cardinality(A) - 1 : \A a \in A :
        count[a] = IF Passed(Rank(a, A), s, c % Cardinality(A)) THEN q + 1 ELSE q

\* Counts that begin anew.
LEMMA RoundBegins ==
    ASSUME NEW A, IsFiniteSet(A), A # {}, A \subseteq Int, NEW count, \A a \in A : count[a] = 0,
           NEW c \in Nat
    PROVE  Round(A, count, c)
<1> DEFINE n == Cardinality(A)
           s == c % Cardinality(A)
<1>1. n \in Nat \ {0}
  BY FS_CardinalityType, FS_EmptySet
<1>2. s \in 0 .. n - 1
  BY <1>1
<1>3. \A a \in A : ~ Passed(Rank(a, A), s, s)
  <2>1. \A a \in A : Rank(a, A) \in 0 .. n - 1
    BY RanksDiffer
  <2> HIDE DEF n, s
  <2> QED BY <1>1, <1>2, <2>1 DEF Passed
<1>4. \A a \in A : count[a] = IF Passed(Rank(a, A), s, s) THEN 0 + 1 ELSE 0
  BY <1>3
<1> HIDE DEF n
<1> QED BY <1>2, <1>4 DEF Round, n

\* The one the counter points to gets the next call.
LEMMA RoundGoesOn ==
    ASSUME NEW A, IsFiniteSet(A), A \subseteq Int, NEW count, NEW c \in Nat, Round(A, count, c),
           NEW a \in A, Rank(a, A) = c % Cardinality(A), NEW after,
           \A b \in A : after[b] = IF b = a THEN count[b] + 1 ELSE count[b]
    PROVE  Round(A, after, c + 1)
<1> DEFINE n == Cardinality(A)
           r == c % n
           p == (c + 1) % n
<1>1. n \in Nat \ {0}
  BY FS_CardinalityType, FS_EmptySet
<1>2. r \in 0 .. n - 1
  BY <1>1
<1>3. p = IF r + 1 = n THEN 0 ELSE r + 1
  BY <1>1, NextRemainder
<1>4. PICK q \in Nat, s \in 0 .. n - 1 :
         \A b \in A : count[b] = IF Passed(Rank(b, A), s, r) THEN q + 1 ELSE q
  BY DEF Round
<1>5. /\ \A b \in A : Rank(b, A) \in 0 .. n - 1
      /\ \A b \in A : Rank(b, A) = r => b = a
      /\ Rank(a, A) = r
  BY RanksDiffer
<1> HIDE DEF n, r, p
<1>6. CASE p = s
  <2>1. \A x \in 0 .. n - 1 : /\ x = r => ~ Passed(x, s, r)
                              /\ x # r => Passed(x, s, r)
                              /\ ~ Passed(x, s, p)
    BY <1>1, <1>2, <1>3, <1>6 DEF Passed
  <2>2. \A b \in A : after[b] = IF Passed(Rank(b, A), s, p) THEN (q + 1) + 1 ELSE q + 1
    BY <1>4, <1>5, <2>1
  <2> QED BY <2>2 DEF Round, n, p
<1>7. CASE p # s
  <2>1. \A x \in 0 .. n - 1 : /\ ~ Passed(r, s, r) /\ Passed(r, s, p)
                              /\ x # r => (Passed(x, s, p) <=> Passed(x, s, r))
    BY <1>1, <1>2, <1>3, <1>7 DEF Passed
  <2>2. \A b \in A : after[b] = IF Passed(Rank(b, A), s, p) THEN q + 1 ELSE q
    BY <1>2, <1>4, <1>5, <2>1
  <2> QED BY <2>2 DEF Round, n, p
<1> QED BY <1>6, <1>7

\* In a round nobody is two calls ahead.
LEMMA RoundIsEven ==
    ASSUME NEW A, NEW count, NEW c, Round(A, count, c), NEW a \in A, NEW b \in A
    PROVE  count[a] <= count[b] + 1
BY DEF Round

\* The calls that have begun.
Begun == {c \in Calls : call[c].step # "new"}

\* What a counter and the choices of its model have to do with each other.
TurnsAreRounds ==
    /\ counter \in [Models -> Nat]
    /\ turns \in [Models -> [among : SUBSET Ids, count : [Ids -> Nat]]]
    /\ \A m \in Models : counter[m] <= Cardinality(Begun)
    /\ \A m \in Models :
          turns[m].among # {} => Round(turns[m].among, turns[m].count, counter[m])

LEMMA CallsAreCounted ==
    IsFiniteSet(Begun) /\ Cardinality(Begun) \in Nat /\ Cardinality(Begun) <= Cardinality(Calls)
<1>1. Begun \subseteq Calls /\ IsFiniteSet(Calls)
  BY CallsAssumption DEF Begun
<1> QED BY <1>1, FS_Subset, FS_CardinalityType

LEMMA NoTurnsType ==
    /\ NoTurns \in [among : SUBSET Ids, count : [Ids -> Nat]]
    /\ NoTurns.among = {} /\ \A id \in Ids : NoTurns.count[id] = 0
  BY DEF NoTurns

\* Instances can be counted by their ids.
LEMMA InstancesById ==
    ASSUME DeployTypeOK, IdsAreOwn, NEW S \in SUBSET instances
    PROVE  /\ IsFiniteSet({i.id : i \in S}) /\ {i.id : i \in S} \subseteq Ids
           /\ Cardinality(S) = Cardinality({i.id : i \in S})
<1> DEFINE D == {i.id : i \in S}
           f == [id \in D |-> CHOOSE i \in S : i.id = id]
<1>1. D \subseteq Ids
  BY DEF DeployTypeOK, Instance
<1>2. IsFiniteSet(D)
  <2>1. IsFiniteSet(Ids)
    BY DeploymentAssumption, FS_Interval DEF Ids
  <2> HIDE DEF D
  <2> QED BY <1>1, <2>1, FS_Subset
<1>3. \A id \in D : f[id] \in S /\ f[id].id = id
  OBVIOUS
<1>4. \A i \in S : i.id \in D /\ f[i.id] = i
  BY <1>3 DEF IdsAreOwn
<1>5. f \in [D -> S]
  BY <1>3
<1> HIDE DEF D, f
<1>6. f \in Bijection(D, S)
  BY <1>3, <1>4, <1>5 DEF Bijection, Injection, Surjection, IsInjective
<1>7. Cardinality(S) = Cardinality(D)
  BY <1>2, <1>6, FS_Bijection DEF ExistsBijection
<1> QED BY <1>1, <1>2, <1>7 DEF D

\* The place of an instance in the list is the rank of its id.
LEMMA RunningById ==
    ASSUME DeployTypeOK, IdsAreOwn, NEW m \in Models, NEW A, A = {j.id : j \in Running(m)}
    PROVE  /\ IsFiniteSet(A) /\ A \subseteq Ids
           /\ Cardinality(Running(m)) = Cardinality(A)
           /\ \A i \in Running(m) : Index(i, Running(m)) = Rank(i.id, A)
<1>1. Running(m) \in SUBSET instances
  BY DEF Running, InstancesOf
<1>2. /\ IsFiniteSet(A) /\ A \subseteq Ids
      /\ Cardinality(Running(m)) = Cardinality(A)
  BY <1>1, InstancesById
<1>3. ASSUME NEW i \in Running(m) PROVE Index(i, Running(m)) = Rank(i.id, A)
  <2> DEFINE before == {j \in Running(m) : j.id < i.id}
  <2>1. before \in SUBSET instances
    BY <1>1
  <2>2. {j.id : j \in before} = {y \in A : y < i.id}
    OBVIOUS
  <2>3. Cardinality(before) = Cardinality({j.id : j \in before})
    <3> HIDE DEF before
    <3> QED BY <2>1, InstancesById
  <2>4. Cardinality(before) = Cardinality({y \in A : y < i.id})
    BY <2>2, <2>3, Zenon
  <2> QED BY <2>4 DEF Index, Rank
<1> QED BY <1>2, <1>3

\* A call is chosen for once, and a step that chooses for none takes no turn.
LEMMA BegunStays ==
    ASSUME DeployTypeOK, call \in [Calls -> Call], NEW c \in Calls,
           Connect(c) \/ Answer(c) \/ Break(c) \/ Leave(c) \/ LeaveEarly(c)
    PROVE  Begun \subseteq Begun' /\ UNCHANGED <<counter, turns>>
<1>1. UNCHANGED <<counter, turns>> /\ call[c].step # "new"
  BY DEF Connect, Answer, Break, Leave, LeaveEarly
<1>2. PICK r : r.step # "new" /\ call' = [call EXCEPT ![c] = r]
  <2>1. CASE Connect(c)
    <3>1. PICK b \in Listening(c) :
              b.id \in Ids /\ call' = [call EXCEPT ![c] = Taken(call[c], b.id)]
      BY <2>1, ConnectTakes
    <3>2. Taken(call[c], b.id).step # "new"
      BY <3>1, TakenCall
    <3> QED BY <3>1, <3>2
  <2>2. CASE Answer(c) \/ Break(c) \/ Leave(c) \/ LeaveEarly(c)
    <3>1. PICK s \in {"ended", "lost"} : call' = [call EXCEPT ![c] = Moved(call[c], s)]
      BY <2>2, CallsMove
    <3>2. Moved(call[c], s).step # "new"
      BY <3>1, MovedCall
    <3> QED BY <3>1, <3>2
  <2> QED BY <2>1, <2>2
<1>3. \A d \in Calls : call[d].step # "new" => call'[d].step # "new"
  BY <1>2
<1> QED BY <1>1, <1>3 DEF Begun

\* The one step that takes a turn.
LEMMA SelectTakesTurn ==
    ASSUME DeployInv, call \in [Calls -> Call], TurnsAreRounds,
           NEW c \in Calls, NEW m \in Models, Select(c, m)
    PROVE  TurnsAreRounds'
<1> USE DEF TurnsAreRounds, DeployInv
<1>1. PICK i \in Running(m), stream \in BOOLEAN :
          /\ Index(i, Running(m)) = counter[m] % Cardinality(Running(m))
          /\ call' = [call EXCEPT ![c] = Sent(i, stream)]
          /\ turns' = [turns EXCEPT ![m] = Turn(m, i)]
  BY DEF Select
<1>2. counter' = [counter EXCEPT ![m] = @ + 1] /\ call[c].step = "new"
  BY DEF Select
<1>3. PICK A : A = {j.id : j \in Running(m)}
  OBVIOUS
<1>4. /\ IsFiniteSet(A) /\ A \subseteq Ids /\ i.id \in A
      /\ Cardinality(Running(m)) = Cardinality(A)
      /\ Index(i, Running(m)) = Rank(i.id, A)
  BY <1>1, <1>3, RunningById
<1>5. A \subseteq Int /\ A # {} /\ counter[m] \in Nat
  BY <1>4, IdsAreNumbers
<1>6. PICK count : count = IF turns[m].among = A THEN turns[m].count ELSE NoTurns.count
  OBVIOUS
<1>7. count \in [Ids -> Nat] /\ turns[m].among \in SUBSET Ids
  BY <1>6, NoTurnsType DEF NoTurns
<1>8. PICK after : after = [count EXCEPT ![i.id] = @ + 1]
  OBVIOUS
<1>9. /\ after \in [Ids -> Nat]
      /\ \A b \in A : after[b] = IF b = i.id THEN count[b] + 1 ELSE count[b]
  BY <1>4, <1>7, <1>8
<1>10. Turn(m, i) = [among |-> A, count |-> after]
  BY <1>3, <1>6, <1>8 DEF Turn
<1>11. Round(A, count, counter[m])
  <2>1. CASE turns[m].among = A
    BY <1>5, <1>6, <2>1
  <2>2. CASE turns[m].among # A
    <3>1. \A a \in A : count[a] = 0
      BY <1>4, <1>6, <2>2, NoTurnsType
    <3> QED BY <1>4, <1>5, <3>1, RoundBegins
  <2> QED BY <2>1, <2>2
<1>12. Round(A, after, counter[m] + 1)
  <2>1. Rank(i.id, A) = counter[m] % Cardinality(A)
    BY <1>1, <1>4
  <2> QED BY <1>4, <1>5, <1>9, <1>11, <2>1, RoundGoesOn
<1>13. /\ counter' \in [Models -> Nat]
       /\ counter'[m] = counter[m] + 1 /\ \A k \in Models \ {m} : counter'[k] = counter[k]
  BY <1>2
<1>14. /\ turns' \in [Models -> [among : SUBSET Ids, count : [Ids -> Nat]]]
       /\ turns'[m] = [among |-> A, count |-> after]
       /\ \A k \in Models \ {m} : turns'[k] = turns[k]
  BY <1>1, <1>4, <1>9, <1>10
<1>15. \A k \in Models : turns'[k].among # {} => Round(turns'[k].among, turns'[k].count, counter'[k])
  <2>1. turns'[m].among = A /\ turns'[m].count = after
    BY <1>14
  <2>2. Round(turns'[m].among, turns'[m].count, counter'[m])
    BY <1>12, <1>13, <2>1
  <2> QED BY <1>13, <1>14, <2>2
<1>16. Cardinality(Begun') = Cardinality(Begun) + 1
  <2>1. Sent(i, stream).step # "new"
    BY DEF Sent
  <2>2. Begun' = Begun \cup {c} /\ c \notin Begun
    BY <1>1, <1>2, <2>1 DEF Begun
  <2>3. PICK B : B = Begun
    OBVIOUS
  <2>4. IsFiniteSet(B) /\ B \cup {c} = Begun' /\ c \notin B
    BY <2>2, <2>3, CallsAreCounted
  <2>5. Cardinality(B \cup {c}) = Cardinality(B) + 1
    BY <2>4, FS_AddElement
  <2> QED BY <2>3, <2>4, <2>5
<1>17. \A k \in Models : counter'[k] <= Cardinality(Begun')
  <2>1. Cardinality(Begun) \in Nat /\ \A k \in Models : counter[k] \in Nat
    BY CallsAreCounted
  <2> QED BY <1>13, <1>16, <2>1
<1> QED BY <1>13, <1>14, <1>15, <1>17

LEMMA TurnsAreRoundsStep ==
    ASSUME DeployInv, call \in [Calls -> Call], TurnsAreRounds, [GatewayNext]_gatewayVars
    PROVE  TurnsAreRounds'
<1>1. ASSUME UNCHANGED <<counter, turns>>, Begun \subseteq Begun' PROVE TurnsAreRounds'
  <2>1. PICK B : B = Begun'
    OBVIOUS
  <2>2. IsFiniteSet(B) /\ Cardinality(B) \in Nat
    <3>1. B \subseteq Calls /\ IsFiniteSet(Calls)
      BY <2>1, CallsAssumption DEF Begun
    <3> QED BY <3>1, FS_Subset, FS_CardinalityType
  <2>3. Cardinality(Begun) <= Cardinality(B) /\ Cardinality(Begun) \in Nat
    BY <1>1, <2>1, <2>2, FS_Subset, CallsAreCounted
  <2>4. \A m \in Models : counter[m] \in Nat /\ counter[m] <= Cardinality(Begun)
    BY DEF TurnsAreRounds
  <2>5. \A m \in Models : counter'[m] <= Cardinality(Begun')
    BY <1>1, <2>1, <2>2, <2>3, <2>4
  <2> QED BY <1>1, <2>5 DEF TurnsAreRounds
<1>2. CASE UNCHANGED gatewayVars \/ UNCHANGED gateway
  BY <1>1, <1>2 DEF gatewayVars, gateway, Begun
<1>3. CASE GatewayCrash
  <2>1. counter' = [m \in Models |-> 0] /\ turns' = [m \in Models |-> NoTurns]
    BY <1>3 DEF GatewayCrash
  <2>2. 0 <= Cardinality(Begun')
    <3>1. PICK B : B = Begun'
      OBVIOUS
    <3>2. B \subseteq Calls /\ IsFiniteSet(Calls)
      BY <3>1, CallsAssumption DEF Begun
    <3>3. Cardinality(B) \in Nat
      BY <3>2, FS_Subset, FS_CardinalityType
    <3> QED BY <3>1, <3>3
  <2> QED BY <2>1, <2>2, NoTurnsType DEF TurnsAreRounds
<1>4. ASSUME NEW c \in Calls, NEW m \in Models, Select(c, m) PROVE TurnsAreRounds'
  BY <1>4, SelectTakesTurn
<1>5. ASSUME NEW c \in Calls,
             Connect(c) \/ Answer(c) \/ Break(c) \/ Leave(c) \/ LeaveEarly(c)
      PROVE  TurnsAreRounds'
  BY <1>1, <1>5, BegunStays DEF DeployInv
<1> QED BY <1>2, <1>3, <1>4, <1>5 DEF GatewayNext, CallStep

LEMMA TurnsAreAlwaysRounds == GatewaySpec => [](DeployInv /\ Recorded /\ TurnsAreRounds)
<1>1. GatewayInit => TurnsAreRounds
  <2> SUFFICES ASSUME GatewayInit PROVE TurnsAreRounds
    OBVIOUS
  <2>1. counter = [m \in Models |-> 0] /\ turns = [m \in Models |-> NoTurns]
    BY DEF GatewayInit
  <2>2. Cardinality(Begun) \in Nat
    BY CallsAreCounted
  <2> QED BY <2>1, <2>2, NoTurnsType DEF TurnsAreRounds
<1>2. DeployInv /\ Recorded /\ TurnsAreRounds /\ [GatewayNext]_gatewayVars => TurnsAreRounds'
  BY TurnsAreRoundsStep DEF Recorded
<1>3. DeployInv /\ Recorded /\ [GatewayNext]_gatewayVars => Recorded'
  BY RecordedStep DEF DeployInv
<1> QED BY RecordedInit, GatewayDeployInv, <1>1, <1>2, <1>3, PTL DEF GatewaySpec

\* What the tables, the calls and the counters can hold, with a counter never past the number
\* of calls.
THEOREM GatewayIsTyped == GatewaySpec => []GatewayTypeOK
<1>1. DeployInv /\ Recorded /\ TurnsAreRounds => GatewayTypeOK
  <2> SUFFICES ASSUME DeployInv, Recorded, TurnsAreRounds PROVE GatewayTypeOK
    OBVIOUS
  <2>1. \A m \in Models : counter[m] \in 0 .. Cardinality(Calls)
    <3>1. Cardinality(Calls) \in Nat
      BY CallsAssumption, FS_CardinalityType
    <3> QED BY <3>1, CallsAreCounted DEF TurnsAreRounds
  <2> QED BY <2>1 DEF GatewayTypeOK, DeployInv, Recorded, TurnsAreRounds
<1> QED BY TurnsAreAlwaysRounds, <1>1, PTL

\* Round robin is even: as long as the running instances of a model stay the same, whatever
\* their number and wherever the counter stood when they became so, none gets two calls more
\* than another.
THEOREM TurnsAreEven == GatewaySpec => []EvenTurns
<1>1. TurnsAreRounds => EvenTurns
  BY RoundIsEven DEF TurnsAreRounds, EvenTurns
<1> QED BY TurnsAreAlwaysRounds, <1>1, PTL
=============================================================================
