-------------------------- MODULE RegistrationProofs --------------------------
(***************************************************************************)
(* Theorems about Registration, for every number of hosts, addresses,      *)
(* containers, GPUs and heartbeats at a time.                              *)
(***************************************************************************)
EXTENDS Registration, TLAPS

USE MaxGpusAssumption, FirstAddressAssumption, NoneAssumption

\* What a heartbeat can have read and still be right about.
Reading(s) == At(s, "read") \/ At(s, "deleted")

\* The rows a DELETE has found belong to its node until it ends.
FoundRowsStay ==
    \A s \in Slots : At(s, "deleted") =>
        \A c \in beats[s].gone : ctrRow[c] = beats[s].ip

\* A heartbeat that is alone knows the rows of its node.
LoneKnows ==
    \A s \in Slots : Reading(s) /\ beats[s].alone =>
        /\ beats[s].known = KnownGpus(beats[s].ip)
        /\ At(s, "deleted") => beats[s].gone = FoundBy(beats[s])

\* The inductive invariant.
RegInv == RegTypeOK /\ FoundRowsStay /\ LoneKnows

\* The initial state.
LEMMA InitHolds == RegInit => RegInv
  BY DEF RegInit, RegInv, RegTypeOK, FoundRowsStay, LoneKnows, Reading, At

\* The hosts write no table and change no heartbeat that was read.
LEMMA HostsKeep ==
  ASSUME RegInv, HostStep
  PROVE  RegInv'
<1>1. UNCHANGED tables
  BY DEF HostStep, GpusChange, Move, Send, Start, Remove
<1>2. ASSUME NEW h \in Hosts, Send(h)
      PROVE  RegInv'
  <2>1. PICK s \in Slots :
          /\ beats[s] = None
          /\ beats' = [beats EXCEPT ![s] =
                [host |-> h, ip |-> address[h], boxes |-> Listed(h),
                 gpus |-> 0 .. count[h] - 1, stage |-> "sent", known |-> {}, gone |-> {},
                 adds |-> FALSE, alone |-> TRUE]]
    BY <1>2 DEF Send
  <2>2. RegTypeOK'
    <3>1. 0 .. count[h] - 1 \subseteq Indices
      BY DEF RegInv, RegTypeOK, Indices
    <3>2. beats'[s] \in Beat
      BY <2>1, <3>1 DEF RegInv, RegTypeOK, Beat, Stages, Listed
    <3>3. beats' \in [Slots -> Beat \cup {None}]
      BY <2>1, <3>2 DEF RegInv, RegTypeOK
    <3> QED
      BY <1>1, <1>2, <3>3 DEF Send, hostVars, tables, RegInv, RegTypeOK
  <2>3. ~At(s, "read")' /\ ~At(s, "deleted")'
    BY <2>1 DEF At, RegInv, RegTypeOK
  <2>4. \A o \in Slots \ {s} : beats'[o] = beats[o]
    BY <2>1 DEF RegInv, RegTypeOK
  <2> QED
    BY <1>1, <2>2, <2>3, <2>4
    DEF RegInv, FoundRowsStay, LoneKnows, Reading, At, tables, KnownGpus, FoundBy
<1>3. ASSUME UNCHANGED beats, RegTypeOK'
      PROVE  RegInv'
  BY <1>1, <1>3
  DEF RegInv, FoundRowsStay, LoneKnows, Reading, At, tables, KnownGpus, FoundBy
<1>4. ASSUME NEW h \in Hosts, GpusChange(h) \/ Move(h)
      PROVE  RegInv'
  <2>1. RegTypeOK' /\ UNCHANGED beats
    BY <1>4 DEF GpusChange, Move, tables, RegInv, RegTypeOK
  <2> QED BY <2>1, <1>3
<1>5. ASSUME NEW b \in Boxes, Remove(b) \/ \E h \in Hosts : Start(b, h)
      PROVE  RegInv'
  <2>1. RegTypeOK' /\ UNCHANGED beats
    BY <1>5 DEF Remove, Start, tables, RegInv, RegTypeOK
  <2> QED BY <2>1, <1>3
<1> QED
  BY <1>2, <1>4, <1>5 DEF HostStep

\* A handler that reads, deletes or ends without a commit changes its heartbeat only.
LEMMA ReadersKeep ==
  ASSUME RegInv, NEW s \in Slots, Read(s) \/ Delete(s) \/ Refuse(s) \/ Lose(s)
  PROVE  RegInv'
<1> DEFINE b == beats[s]
<1>1. UNCHANGED tables /\ UNCHANGED hostVars
  BY DEF Read, Delete, Refuse, Lose
<1>2. b \in Beat /\ b # None
  BY DEF Read, Delete, Refuse, Refused, Lose, At, RegInv, RegTypeOK
<1>3. \A o \in Slots \ {s} : beats'[o] = beats[o]
  BY DEF Read, Delete, Refuse, Lose, RegInv, RegTypeOK
<1>4. beats' \in [Slots -> Beat \cup {None}]
  <2>1. CASE Read(s)
    BY <2>1, <1>2 DEF Read, RegInv, RegTypeOK, Beat, Stages, KnownGpus
  <2>2. CASE Delete(s)
    BY <2>2, <1>2 DEF Delete, RegInv, RegTypeOK, Beat, Stages, FoundBy
  <2>3. CASE Refuse(s) \/ Lose(s)
    BY <2>3 DEF Refuse, Lose, RegInv, RegTypeOK
  <2> QED BY <2>1, <2>2, <2>3
<1>5. RegTypeOK'
  BY <1>1, <1>4 DEF RegInv, RegTypeOK, tables, hostVars
<1>6. At(s, "deleted")' => \A c \in beats'[s].gone : ctrRow'[c] = beats'[s].ip
  <2>1. CASE Read(s)
    BY <2>1, <1>2 DEF Read, At, RegInv, RegTypeOK, Beat
  <2>2. CASE Delete(s)
    BY <2>2, <1>1, <1>2 DEF Delete, RegInv, RegTypeOK, Beat, FoundBy, tables
  <2>3. CASE Refuse(s) \/ Lose(s)
    BY <2>3 DEF Refuse, Lose, At, RegInv, RegTypeOK
  <2> QED BY <2>1, <2>2, <2>3
<1>7. Reading(s)' /\ beats'[s].alone =>
        /\ beats'[s].known = KnownGpus(beats[s].ip)'
        /\ At(s, "deleted")' => beats'[s].gone = FoundBy(beats[s])'
  <2>1. CASE Read(s)
    BY <2>1, <1>1, <1>2 DEF Read, At, RegInv, RegTypeOK, Beat, KnownGpus, tables
  <2>2. CASE Delete(s)
    BY <2>2, <1>1, <1>2
    DEF Delete, RegInv, RegTypeOK, LoneKnows, Reading, At, Beat, FoundBy, KnownGpus, tables
  <2>3. CASE Refuse(s) \/ Lose(s)
    BY <2>3 DEF Refuse, Lose, Reading, At, RegInv, RegTypeOK
  <2> QED BY <2>1, <2>2, <2>3
<1> QED
  BY <1>1, <1>3, <1>5, <1>6, <1>7
  DEF RegInv, FoundRowsStay, LoneKnows, Reading, At, tables, KnownGpus, FoundBy

\* A commit moves no container row to or from another node.
LEMMA CommitKeepsOthers ==
  ASSUME RegInv, NEW s \in Slots, Commit(s), NEW ip \in Addresses, ip # beats[s].ip
  PROVE  \A c \in Boxes : (ctrRow'[c] = ip) <=> (ctrRow[c] = ip)
<1> DEFINE b == beats[s]
<1>1. At(s, "deleted") /\ Clash(s) = {}
  BY DEF Commit
<1> SUFFICES ASSUME NEW c \in Boxes
             PROVE  (ctrRow'[c] = ip) <=> (ctrRow[c] = ip)
  OBVIOUS
<1>2. ctrRow'[c] = IF c \in b.boxes THEN b.ip
                   ELSE IF c \in b.gone THEN None ELSE ctrRow[c]
  BY DEF Commit
<1>3. c \in b.gone => ctrRow[c] = b.ip
  BY <1>1 DEF RegInv, FoundRowsStay
<1>4. c \in b.boxes => c \in b.gone \/ ctrRow[c] = None
  BY <1>1 DEF Clash
<1> QED BY <1>2, <1>3, <1>4

\* A commit.
LEMMA CommitKeeps ==
  ASSUME RegInv, NEW s \in Slots, Commit(s)
  PROVE  RegInv'
<1> DEFINE b == beats[s]
<1>1. b \in Beat /\ At(s, "deleted") /\ Clash(s) = {}
  BY DEF Commit, At, RegInv, RegTypeOK
<1>2. beats'[s] = None
  BY DEF Commit
<1>3. \A o \in Slots \ {s} : beats'[o] = Notice(b, beats[o])
  BY DEF Commit
<1>4. ASSUME NEW o \in Slots \ {s}
      PROVE  Notice(b, beats[o]) \in Beat \cup {None}
  <2>1. CASE beats[o] = None
    BY <2>1 DEF Notice
  <2>2. CASE beats[o] \in Beat
    <3>1. [beats[o] EXCEPT !.alone = FALSE, !.gone = beats[o].gone \ b.gone] \in Beat
      BY <2>2 DEF Beat
    <3> QED BY <2>2, <3>1 DEF Notice
  <2> QED BY <2>1, <2>2 DEF RegInv, RegTypeOK
<1>5. RegTypeOK'
  <2>1. beats' \in [Slots -> Beat \cup {None}]
    BY <1>4, <1>1 DEF Commit
  <2>2. nodes' \subseteq Addresses /\ gpuRows' \subseteq nodes' \X Indices
    BY <1>1 DEF Commit, GpuRowsAfter, RegInv, RegTypeOK, Beat
  <2>3. ctrRow' \in [Boxes -> nodes' \cup {None}]
    BY <1>1 DEF Commit, RegInv, RegTypeOK, Beat
  <2> QED
    BY <2>1, <2>2, <2>3 DEF Commit, hostVars, RegInv, RegTypeOK
<1>6. ASSUME NEW o \in Slots \ {s}, beats[o] # None, beats[o].ip # b.ip
      PROVE  /\ At(o, "deleted")' => \A c \in beats'[o].gone : ctrRow'[c] = beats'[o].ip
             /\ Reading(o)' /\ beats'[o].alone =>
                   /\ beats'[o].known = KnownGpus(beats[o].ip)'
                   /\ At(o, "deleted")' => beats'[o].gone = FoundBy(beats[o])'
  <2>1. beats'[o] = beats[o] /\ beats[o] \in Beat /\ beats[o].ip \in Addresses
    BY <1>3, <1>6 DEF Notice, RegInv, RegTypeOK, Beat
  <2>2. /\ KnownGpus(beats[o].ip)' = KnownGpus(beats[o].ip)
        /\ \A c \in Boxes : (ctrRow'[c] = beats[o].ip) <=> (ctrRow[c] = beats[o].ip)
    <3> DEFINE ip == beats[o].ip
    <3>1. /\ KnownGpus(ip)' = {i \in Indices : <<ip, i>> \in gpuRows'}
          /\ KnownGpus(ip) = {i \in Indices : <<ip, i>> \in gpuRows}
      BY <2>1 DEF KnownGpus
    <3>2. /\ \A i \in Indices : (<<ip, i>> \in gpuRows') <=> (<<ip, i>> \in gpuRows)
      BY <1>6 DEF Commit, GpuRowsAfter
    <3>3. \A c \in Boxes : (ctrRow'[c] = ip) <=> (ctrRow[c] = ip)
      BY <1>6, <2>1, CommitKeepsOthers
    <3> QED BY <3>1, <3>2, <3>3
  <2>3. FoundBy(beats[o])' = FoundBy(beats[o])
    BY <2>1, <2>2 DEF FoundBy
  <2>4. beats[o].gone \subseteq Boxes
    BY <2>1 DEF Beat
  <2> QED
    BY <2>1, <2>2, <2>3, <2>4 DEF RegInv, FoundRowsStay, LoneKnows, Reading, At
<1>7. ASSUME NEW o \in Slots \ {s}, beats[o] # None, beats[o].ip = b.ip,
             beats[o].stage # "sent"
      PROVE  /\ ~beats'[o].alone
             /\ At(o, "deleted")' => \A c \in beats'[o].gone : ctrRow'[c] = beats'[o].ip
  <2>1. beats[o] \in Beat
    BY <1>7 DEF RegInv, RegTypeOK
  <2>2. beats'[o] = [beats[o] EXCEPT !.alone = FALSE, !.gone = beats[o].gone \ b.gone]
    BY <1>3, <1>7 DEF Notice
  <2>3. /\ ~beats'[o].alone
        /\ beats'[o].gone = beats[o].gone \ b.gone
        /\ beats'[o].ip = b.ip
        /\ beats'[o].stage = beats[o].stage
    BY <2>1, <2>2, <1>7 DEF Beat
  <2>4. ASSUME At(o, "deleted")', NEW c \in beats'[o].gone
        PROVE  ctrRow'[c] = b.ip
    <3>1. At(o, "deleted")
      BY <2>4, <2>3, <1>7 DEF At
    <3>2. c \in Boxes /\ c \notin b.gone /\ ctrRow[c] = b.ip
      BY <2>1, <2>3, <2>4, <3>1, <1>7 DEF RegInv, FoundRowsStay, Beat
    <3> QED
      BY <3>2 DEF Commit
  <2> QED BY <2>3, <2>4
<1>8. ASSUME NEW o \in Slots \ {s}, beats[o] = None \/ beats[o].stage = "sent"
      PROVE  ~Reading(o)'
  BY <1>3, <1>8 DEF Notice, Reading, At
<1>9. FoundRowsStay'
  BY <1>2, <1>6, <1>7, <1>8 DEF FoundRowsStay, Reading, At
<1>10. LoneKnows'
  <2>1. ASSUME NEW o \in Slots, Reading(o)', beats'[o].alone
        PROVE  /\ beats'[o].known = KnownGpus(beats[o].ip)'
               /\ At(o, "deleted")' => beats'[o].gone = FoundBy(beats[o])'
    BY <2>1, <1>2, <1>6, <1>7, <1>8 DEF Reading, At
  <2> QED BY <2>1 DEF LoneKnows
<1> QED BY <1>5, <1>9, <1>10 DEF RegInv

\* A step of the next-state relation.
LEMMA StepHolds == RegInv /\ [RegNext]_regVars => RegInv'
<1> SUFFICES ASSUME RegInv, [RegNext]_regVars
             PROVE  RegInv'
  OBVIOUS
<1>1. CASE HostStep
  BY <1>1, HostsKeep
<1>2. ASSUME NEW s \in Slots, HandlerStep(s) \/ Lose(s)
      PROVE  RegInv'
  BY <1>2, ReadersKeep, CommitKeeps DEF HandlerStep
<1>3. CASE UNCHANGED regVars
  BY <1>3
  DEF regVars, tables, hostVars, RegInv, RegTypeOK, FoundRowsStay, LoneKnows, Reading, At,
      KnownGpus, FoundBy
<1> QED BY <1>1, <1>2, <1>3 DEF RegNext

\* The tables and the heartbeats under way have their types.
THEOREM RegTypeCorrect == RegSpec => []RegTypeOK
<1>1. RegInv => RegTypeOK
  BY DEF RegInv
<1> QED BY <1>1, InitHolds, StepHolds, PTL DEF RegSpec

\* A heartbeat that no other of its node overtook replaces the rows of its node by
\* exactly what it reports, whatever the other nodes do meanwhile.
THEOREM LoneHeartbeatHolds == RegSpec => LoneHeartbeatIsExact
<1>1. ASSUME RegInv, NEW s \in Slots, Commit(s), beats[s].alone
      PROVE  /\ {i \in Indices : <<beats[s].ip, i>> \in gpuRows'} = beats[s].gpus
             /\ {c \in Boxes : ctrRow'[c] = beats[s].ip} = beats[s].boxes
  <2> DEFINE b == beats[s]
  <2>1. b \in Beat /\ At(s, "deleted")
    BY <1>1 DEF Commit, At, RegInv, RegTypeOK
  <2>2. b.known = KnownGpus(b.ip) /\ b.gone = FoundBy(b)
    BY <1>1, <2>1 DEF RegInv, LoneKnows, Reading
  <2>3. ASSUME NEW i \in Indices
        PROVE  (<<b.ip, i>> \in gpuRows') <=> (i \in b.gpus)
    BY <1>1, <2>2 DEF Commit, GpuRowsAfter, KnownGpus
  <2>4. ASSUME NEW c \in Boxes
        PROVE  (ctrRow'[c] = b.ip) <=> (c \in b.boxes)
    <3>1. ctrRow'[c] = IF c \in b.boxes THEN b.ip
                       ELSE IF c \in b.gone THEN None ELSE ctrRow[c]
      BY <1>1 DEF Commit
    <3>2. c \in b.gone <=> ctrRow[c] = b.ip
      BY <2>2 DEF FoundBy
    <3> QED BY <3>1, <3>2, <2>1 DEF Beat
  <2>5. b.gpus \subseteq Indices /\ b.boxes \subseteq Boxes
    BY <2>1 DEF Beat
  <2> QED BY <2>3, <2>4, <2>5
<1>2. RegInv /\ [RegNext]_regVars =>
        [\A s \in Slots :
            Commit(s) /\ beats[s].alone =>
               LET b == beats[s] IN
               /\ {i \in Indices : <<b.ip, i>> \in gpuRows'} = b.gpus
               /\ {c \in Boxes : ctrRow'[c] = b.ip} = b.boxes]_regVars
  BY <1>1
<1> QED BY <1>2, InitHolds, StepHolds, PTL DEF RegSpec, LoneHeartbeatIsExact
=============================================================================
