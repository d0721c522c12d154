------------------------- MODULE AllocatorLoopProofs -------------------------
(***************************************************************************)
(* Theorems about AllocatorLoop, for any number of nodes, rows and loads.  *)
(*                                                                         *)
(* The argument: what the loop remembers of a node it has read is what the *)
(* table says of the rows it holds there, because nobody writes to a row   *)
(* that is held (ReadRows); and the placement is the least of what it      *)
(* remembers (Chosen).                                                     *)
(***************************************************************************)
EXTENDS AllocatorLoop, FiniteSetTheorems, TLAPS

\* The suitable rows of a node that the loop holds.
Held(n) == Filtered(n, locked, Suits)

\* A node is a candidate exactly if enough of its rows are held, and what is
\* remembered of them is what the table says now.
Remembered(n) ==
    /\ n \in DOMAIN candidates <=> Cardinality(Held(n)) >= Need
    /\ n \in DOMAIN candidates =>
          /\ DOMAIN candidates[n] = Held(n)
          /\ \A g \in Held(n) : candidates[n][g] = load[g]

\* The loop holds idle rows of the nodes it has read and remembers them; a task
\* without GPUs holds no row and has every node it read as a candidate.
ReadRows ==
    /\ locked \subseteq Idle
    /\ Need <= 0 => locked = {} /\ DOMAIN candidates = Nodes \ unread
    /\ Need > 0 => /\ \A g \in locked : NodeOf(g) \notin unread
                   /\ \A n \in Nodes \ unread : Remembered(n)

\* The placement is the first by the sort key, taken when every node was read.
Chosen ==
    result # <<>> =>
        /\ unread = {}
        /\ result.node \in DOMAIN candidates
        /\ result.gpus = FirstRows(result.node)
        /\ \A m \in DOMAIN candidates \ {result.node} : Before(result.node, m)

LoopInv == LoopTypeOK /\ ReadRows /\ Chosen

-----------------------------------------------------------------------------
(* Operators *)

\* The rows of a node are rows, finitely many.
LEMMA FilteredRows ==
  ASSUME NEW n, NEW idle \in SUBSET Gpus, NEW suits \in SUBSET Gpus
  PROVE  /\ Filtered(n, idle, suits) \subseteq {g \in Gpus : NodeOf(g) = n}
         /\ Cardinality(Filtered(n, idle, suits)) \in Nat
<1>1. Filtered(n, idle, suits) \subseteq {g \in Gpus : NodeOf(g) = n}
  BY DEF Filtered
<1>2. IsFiniteSet(Gpus)  BY LoopAssumption
<1>3. IsFiniteSet(Filtered(n, idle, suits))  BY <1>1, <1>2, FS_Subset
<1> QED BY <1>1, <1>3, FS_CardinalityType

\* selected_gpus[:k] of no more than no rows is empty.
LEMMA FirstOfNone ==
  ASSUME NEW gpus \in SUBSET Gpus, NEW k \in Int, k <= 0
  PROVE  FirstByIndex(gpus, k) = {}
<1>1. ASSUME NEW g \in gpus
      PROVE  ~ (Cardinality({h \in gpus : IndexOf(h) < IndexOf(g)}) < k)
  <2> DEFINE S == {h \in gpus : IndexOf(h) < IndexOf(g)}
  <2>1. S \subseteq Gpus  OBVIOUS
  <2>2. IsFiniteSet(S)  BY <2>1, LoopAssumption, FS_Subset
  <2>3. Cardinality(S) \in Nat  BY <2>2, FS_CardinalityType
  <2> HIDE DEF S
  <2>4. ~ (Cardinality(S) < k)  BY <2>3
  <2> QED BY <2>4 DEF S
<1> QED BY <1>1 DEF FirstByIndex

\* What is remembered of a node is a function of its own rows.
LEMMA RowsOfCandidate ==
  ASSUME LoopTypeOK, NEW n \in DOMAIN candidates
  PROVE  /\ n \in Nodes \ unread
         /\ DOMAIN candidates[n] \subseteq {g \in Gpus : NodeOf(g) = n}
         /\ FirstRows(n) \subseteq DOMAIN candidates[n]
BY DEF LoopTypeOK, FirstRows, FirstByIndex

-----------------------------------------------------------------------------
(* The steps *)

\* Before the first node nothing is held.
LEMMA LoopInitially == LoopInit => LoopInv
<1> SUFFICES ASSUME LoopInit PROVE LoopInv  OBVIOUS
<1> USE DEF LoopInit
<1>1. DOMAIN candidates = {}  OBVIOUS
<1>2. LoopTypeOK  BY <1>1 DEF LoopTypeOK, table
<1>3. ReadRows  BY <1>1 DEF ReadRows
<1>4. Chosen  BY DEF Chosen
<1> QED BY <1>2, <1>3, <1>4 DEF LoopInv

\* One turn of the loop reads one node.
Turn(n) ==
    /\ n \in unread
    /\ unread' = unread \ {n}
    /\ locked' = locked \cup LockedBy(n)
    /\ LET found == {x \in {n} : Cardinality(Eligible(x)) >= Need}
       IN  candidates' = [x \in DOMAIN candidates \cup found |->
              IF x = n THEN [g \in Eligible(n) |-> load[g]] ELSE candidates[x]]
    /\ UNCHANGED <<table, result>>

\* The candidates after a turn.
LEMMA TurnCandidates ==
  ASSUME NEW n, Turn(n), n \notin DOMAIN candidates
  PROVE  /\ n \in DOMAIN candidates' <=> Cardinality(Eligible(n)) >= Need
         /\ n \in DOMAIN candidates' => candidates'[n] = [g \in Eligible(n) |-> load[g]]
         /\ \A m : m # n => (m \in DOMAIN candidates' <=> m \in DOMAIN candidates)
         /\ \A m \in DOMAIN candidates : candidates'[m] = candidates[m]
<1> DEFINE found == {x \in {n} : Cardinality(Eligible(x)) >= Need}
           new == [g \in Eligible(n) |-> load[g]]
<1>1. candidates' = [x \in DOMAIN candidates \cup found |->
                        IF x = n THEN new ELSE candidates[x]]
  BY DEF Turn
<1>2. \A x : x \in found <=> x = n /\ Cardinality(Eligible(n)) >= Need
  OBVIOUS
<1> HIDE DEF found, new
<1>3. DOMAIN candidates' = DOMAIN candidates \cup found
  BY <1>1
<1>4. \A x \in DOMAIN candidates' : candidates'[x] = IF x = n THEN new ELSE candidates[x]
  BY <1>1, <1>3
<1> QED BY <1>2, <1>3, <1>4 DEF new

\* The loop takes such a turn.
LEMMA TurnIsTaken == ASSUME ReadNode PROVE \E n \in unread : Turn(n)
BY DEF ReadNode, Turn

\* A turn reads and locks rows of its node.
LEMMA EligibleRows ==
  ASSUME LoopTypeOK, NEW n
  PROVE  /\ Eligible(n) \subseteq {g \in Gpus : NodeOf(g) = n}
         /\ LockedBy(n) \subseteq {g \in Idle : NodeOf(g) = n}
         /\ Cardinality(Eligible(n)) \in Nat
<1>1. Idle \subseteq Gpus /\ Suits \subseteq Gpus  BY LoopAssumption DEF Idle
<1>2. CASE Need > 0
  BY <1>1, <1>2, FilteredRows DEF Eligible, LockedBy, Filtered
<1>3. CASE ~ (Need > 0)
  BY <1>1, <1>3, FilteredRows DEF Eligible, LockedBy, Filtered
<1> QED BY <1>2, <1>3

\* Reading a node locks its idle rows and remembers the suitable ones.
LEMMA TurnKeeps == ASSUME LoopInv, ReadNode PROVE LoopInv'
<1> USE DEF LoopInv
<1>1. PICK n \in unread : Turn(n)  BY TurnIsTaken
<1>2. n \notin DOMAIN candidates  BY DEF LoopTypeOK
<1>3. /\ n \in DOMAIN candidates' <=> Cardinality(Eligible(n)) >= Need
      /\ n \in DOMAIN candidates' => candidates'[n] = [g \in Eligible(n) |-> load[g]]
      /\ \A m : m # n => (m \in DOMAIN candidates' <=> m \in DOMAIN candidates)
      /\ \A m \in DOMAIN candidates : candidates'[m] = candidates[m]
  BY <1>1, <1>2, TurnCandidates
<1>4. /\ unread' = unread \ {n}
      /\ locked' = locked \cup LockedBy(n)
      /\ gpuStatus' = gpuStatus /\ load' = load /\ result' = result
  BY <1>1 DEF Turn, table
<1>5. Idle' = Idle  BY <1>4 DEF Idle
<1>6. LoopTypeOK'
  <2>1. \A m \in DOMAIN candidates' :
           DOMAIN candidates'[m] \subseteq {g \in Gpus : NodeOf(g) = m}
    <3> SUFFICES ASSUME NEW m \in DOMAIN candidates'
                 PROVE  DOMAIN candidates'[m] \subseteq {g \in Gpus : NodeOf(g) = m}
      OBVIOUS
    <3>1. CASE m = n
      <4>1. DOMAIN candidates'[m] = Eligible(n)  BY <1>3, <3>1
      <4> QED BY <4>1, <3>1, EligibleRows
    <3>2. CASE m # n
      BY <1>3, <3>2 DEF LoopTypeOK
    <3> QED BY <3>1, <3>2
  <2>2. locked' \subseteq Gpus
    BY <1>4, EligibleRows DEF LoopTypeOK, Idle
  <2>3. DOMAIN candidates' \subseteq Nodes \ unread'
    BY <1>3, <1>4 DEF LoopTypeOK
  <2> QED BY <2>1, <2>2, <2>3, <1>4 DEF LoopTypeOK, Placement
<1>7. ReadRows'
  <2>1. locked' \subseteq Idle'
    BY <1>4, <1>5, EligibleRows DEF ReadRows
  <2>2. CASE ~ (Need > 0)
    <3>1. Need <= 0  BY <2>2, LoopAssumption
    <3>2. locked' = {}  BY <1>4, <2>2, <3>1 DEF ReadRows, LockedBy
    <3>3. Cardinality(Eligible(n)) >= Need
      BY <3>1, EligibleRows, LoopAssumption
    <3>4. DOMAIN candidates' = Nodes \ unread'
      BY <1>3, <1>4, <3>1, <3>3 DEF ReadRows, LoopTypeOK
    <3> QED BY <2>1, <2>2, <3>2, <3>4 DEF ReadRows
  <2>3. CASE Need > 0
    <3>1. Eligible(n) = Filtered(n, Idle, Suits) /\ LockedBy(n) = Filtered(n, Idle, Gpus)
      BY <2>3 DEF Eligible, LockedBy
    <3>2. \A g \in locked' : NodeOf(g) \notin unread'
      BY <1>4, <2>3, EligibleRows DEF ReadRows
    <3>3. \A m : Held(m)' = {g \in locked' \cap Suits : NodeOf(g) = m}
      BY DEF Held, Filtered
    <3>4. Held(n)' = Eligible(n)
      BY <1>4, <3>1, <3>3, LoopAssumption DEF ReadRows, Filtered
    <3>5. \A m : m # n => Held(m)' = Held(m)
      BY <1>4, <3>3, EligibleRows DEF Held, Filtered
    <3>6. \A m \in Nodes \ unread' : Remembered(m)'
      <4> SUFFICES ASSUME NEW m \in Nodes, m \notin unread'
                   PROVE  Remembered(m)'
        OBVIOUS
      <4>1. CASE m = n
        BY <1>3, <1>4, <3>4, <4>1 DEF Remembered
      <4>2. CASE m # n
        <5>1. Remembered(m)  BY <1>4, <2>3, <4>2 DEF ReadRows
        <5> QED BY <5>1, <1>3, <1>4, <3>5, <4>2 DEF Remembered
      <4> QED BY <4>1, <4>2
    <3>7. ~ (Need <= 0)  BY <2>3, LoopAssumption
    <3> QED BY <2>1, <3>2, <3>6, <3>7 DEF ReadRows
  <2> QED BY <2>2, <2>3
<1>8. Chosen'
  <2>1. result = <<>>  BY DEF Chosen
  <2> QED BY <1>4, <2>1 DEF Chosen
<1> QED BY <1>6, <1>7, <1>8 DEF LoopInv

\* The sort key depends on the candidates alone.
LEMMA SameOrder ==
  ASSUME candidates' = candidates
  PROVE  /\ \A n : FirstRows(n)' = FirstRows(n)
         /\ \A n, m : Before(n, m)' <=> Before(n, m)
<1>1. \A n : FirstRows(n)' = FirstRows(n)  BY DEF FirstRows
<1>2. \A n : Burden(n)' = Burden(n)  BY <1>1 DEF Burden
<1> QED BY <1>1, <1>2 DEF Before

\* The sort takes the first of what is remembered.
LEMMA ChooseKeeps == ASSUME LoopInv, Choose PROVE LoopInv'
<1> USE DEF LoopInv
<1>1. PICK n \in DOMAIN candidates :
         /\ \A m \in DOMAIN candidates \ {n} : Before(n, m)
         /\ result' = [node |-> n, gpus |-> FirstRows(n)]
  BY DEF Choose
<1>2. /\ unread = {}
      /\ unread' = unread /\ candidates' = candidates /\ locked' = locked
      /\ gpuStatus' = gpuStatus /\ load' = load
  BY DEF Choose, table
<1>3. LoopTypeOK'
  <2>1. n \in Nodes /\ FirstRows(n) \subseteq Gpus
    BY RowsOfCandidate
  <2>2. result' \in Placement
    BY <1>1, <2>1 DEF Placement
  <2> QED BY <1>2, <2>2 DEF LoopTypeOK, Placement
<1>4. ReadRows'
  <2>1. Idle' = Idle  BY <1>2 DEF Idle
  <2>2. \A m : Held(m)' = Held(m)  BY <1>2 DEF Held, Filtered
  <2>3. \A m : Remembered(m)' <=> Remembered(m)  BY <1>2, <2>2 DEF Remembered
  <2> QED BY <1>2, <2>1, <2>3 DEF ReadRows
<1>5. Chosen'
  <2>1. result'.node = n /\ result'.gpus = FirstRows(n)  BY <1>1
  <2> QED BY <1>1, <1>2, <2>1, SameOrder DEF Chosen
<1> QED BY <1>3, <1>4, <1>5 DEF LoopInv

\* The next call starts with nothing held.
LEMMA ReturnKeeps == ASSUME LoopInv, Return PROVE LoopInv'
<1>1. /\ unread' = Nodes /\ candidates' = <<>> /\ locked' = {}
      /\ result' = <<>> /\ load' = load
  BY DEF Return
<1>2. DOMAIN candidates' = {}  BY <1>1
<1>3. gpuStatus' \in [Gpus -> {"idle", "allocated", "busy"}]
  BY DEF Return, LoopInv, LoopTypeOK
<1>4. LoopTypeOK'
  BY <1>1, <1>2, <1>3 DEF LoopInv, LoopTypeOK
<1>5. ReadRows'  BY <1>1, <1>2 DEF ReadRows
<1>6. Chosen'  BY <1>1 DEF Chosen
<1> QED BY <1>4, <1>5, <1>6 DEF LoopInv

\* The other writers leave the rows alone that are held.
LEMMA RewriteKeeps ==
  ASSUME LoopInv, NEW g \in Gpus, Rewrite(g) PROVE LoopInv'
<1> USE DEF LoopInv
<1>1. /\ unread' = unread /\ candidates' = candidates /\ locked' = locked
      /\ result' = result
  BY DEF Rewrite
<1>2. /\ gpuStatus' \in [Gpus -> {"idle", "allocated", "busy"}]
      /\ load' \in [Gpus -> Loads]
      /\ \A h \in locked : gpuStatus'[h] = gpuStatus[h] /\ load'[h] = load[h]
  BY DEF Rewrite, LoopTypeOK
<1>3. LoopTypeOK'
  BY <1>1, <1>2 DEF LoopTypeOK, Placement
<1>4. ReadRows'
  <2>1. locked' \subseteq Idle'
    BY <1>1, <1>2 DEF ReadRows, Idle
  <2>2. \A m : Held(m)' = Held(m)  BY <1>1 DEF Held, Filtered
  <2>3. \A m : Held(m) \subseteq locked  BY DEF Held, Filtered
  <2>4. \A m : Remembered(m) => Remembered(m)'
    BY <1>1, <1>2, <2>2, <2>3 DEF Remembered
  <2> QED BY <1>1, <2>1, <2>4 DEF ReadRows
<1>5. Chosen'
  BY <1>1, SameOrder DEF Chosen
<1> QED BY <1>3, <1>4, <1>5 DEF LoopInv

\* A step of nothing.
LEMMA LoopStays == ASSUME LoopInv, UNCHANGED loopVars PROVE LoopInv'
BY DEF LoopInv, LoopTypeOK, Placement, ReadRows, Remembered, Held, Filtered, Idle, Chosen,
       Before, Burden, FirstRows, loopVars, table

\* The loop remembers what the table says of the rows it holds, and takes the first
\* by the sort key.
THEOREM LoopInvariant == LoopSpec => []LoopInv
<1>1. ASSUME LoopInv, [LoopNext]_loopVars PROVE LoopInv'
  BY <1>1, TurnKeeps, ChooseKeeps, ReturnKeeps, RewriteKeeps, LoopStays DEF LoopNext
<1> QED BY <1>1, LoopInitially, PTL DEF LoopSpec

-----------------------------------------------------------------------------
(* What allocate returns *)

\* What the loop remembers of a node are rows of that node (the list of filtered
\* rows next to its node in candidates).
THEOREM LoopIsTyped == LoopSpec => []LoopTypeOK
<1>1. LoopInv => LoopTypeOK  BY DEF LoopInv
<1> QED BY <1>1, LoopInvariant, PTL

\* The rows allocate marks are idle when it marks them: a row that was selected for
\* update is not written to by a heartbeat or a release before the commit.
THEOREM RowsStayIdle == LoopSpec => []ChosenStillIdle
<1>1. ASSUME LoopInv, result # <<>> PROVE result.gpus \subseteq Idle
  <2> USE <1>1 DEF LoopInv
  <2>1. result.node \in DOMAIN candidates /\ result.gpus = FirstRows(result.node)
    BY DEF Chosen
  <2>2. CASE Need > 0
    <3>1. Remembered(result.node)
      BY <2>1, <2>2 DEF ReadRows, LoopTypeOK
    <3>2. result.gpus \subseteq Held(result.node)
      BY <2>1, <3>1, RowsOfCandidate DEF Remembered
    <3> QED BY <3>2 DEF ReadRows, Held, Filtered
  <2>3. CASE ~ (Need > 0)
    <3>1. DOMAIN candidates[result.node] \subseteq Gpus
      BY <2>1, RowsOfCandidate
    <3>2. Need \in Int /\ Need <= 0  BY <2>3, LoopAssumption
    <3>3. result.gpus = {}
      BY <2>1, <3>1, <3>2, FirstOfNone DEF FirstRows
    <3> QED BY <3>3
  <2> QED BY <2>2, <2>3
<1>2. LoopInv => ChosenStillIdle  BY <1>1 DEF ChosenStillIdle
<1> QED BY <1>2, LoopInvariant, PTL

\* When every node was read, the candidates are those of allocate for the rows held.
LEMMA CandidatesOfHeld ==
  ASSUME LoopInv, Need > 0, unread = {}
  PROVE  /\ DOMAIN candidates = Candidates(Nodes, locked, Suits, Need)
         /\ \A n \in DOMAIN candidates :
               /\ DOMAIN candidates[n] = Held(n)
               /\ \A g \in Held(n) : candidates[n][g] = load[g]
<1>1. \A n \in Nodes : Remembered(n)  BY DEF LoopInv, ReadRows
<1>2. DOMAIN candidates \subseteq Nodes  BY DEF LoopInv, LoopTypeOK
<1> QED BY <1>1, <1>2 DEF Remembered, Candidates, Held

\* allocate returns a placement Allocations allows for the rows it holds, the step
\* TaskScheduler takes, and the one with the least load now, then the least id.
THEOREM LoopRefinesAllocations == LoopSpec => []LoopMeetsAllocations
<1> DEFINE F(n) == FirstByIndex(Filtered(n, locked, Suits), Need)
           now(n) == SumFunction(Restrict(load, F(n)))
<1>1. ASSUME LoopInv, Need > 0, result # <<>>
      PROVE  /\ result \in Allocations(Nodes, locked, Suits, Need)
             /\ \A n \in Widest(Nodes, locked, Suits, Need) \ {result.node} :
                   \/ now(result.node) < now(n)
                   \/ now(result.node) = now(n) /\ result.node < n
  <2> USE <1>1
  <2> DEFINE r == result.node
  <2>1. /\ unread = {}
        /\ r \in DOMAIN candidates
        /\ result.gpus = FirstRows(r)
        /\ \A m \in DOMAIN candidates \ {r} : Before(r, m)
    BY DEF LoopInv, Chosen
  <2>2. DOMAIN candidates = Candidates(Nodes, locked, Suits, Need)
    BY <2>1, CandidatesOfHeld
  <2>3. \A n \in DOMAIN candidates :
           /\ DOMAIN candidates[n] = Held(n)
           /\ \A g \in Held(n) : candidates[n][g] = load[g]
    BY <2>1, CandidatesOfHeld
  <2>4. \A n \in DOMAIN candidates : FirstRows(n) = F(n) /\ F(n) \subseteq Held(n)
    BY <2>3 DEF FirstRows, Held, FirstByIndex
  <2>5. \A n \in DOMAIN candidates : Burden(n) = now(n)
    <3> SUFFICES ASSUME NEW n \in DOMAIN candidates PROVE Burden(n) = now(n)
      OBVIOUS
    <3>1. Restrict(candidates[n], F(n)) = Restrict(load, F(n))
      BY <2>3, <2>4 DEF Restrict
    <3> QED BY <2>4, <3>1 DEF Burden
  <2> HIDE DEF now
  <2>6. \A n \in DOMAIN candidates : Cardinality(Held(n)) \in Nat
    BY FilteredRows, LoopAssumption DEF Held, LoopInv, LoopTypeOK
  <2>7. \A m \in DOMAIN candidates \ {r} :
           \/ Cardinality(Held(r)) > Cardinality(Held(m))
           \/ /\ Cardinality(Held(r)) = Cardinality(Held(m))
              /\ now(r) < now(m) \/ (now(r) = now(m) /\ r < m)
    BY <2>1, <2>3, <2>5 DEF Before
  <2>8. r \in Widest(Nodes, locked, Suits, Need)
    BY <2>1, <2>2, <2>6, <2>7 DEF Widest, Held
  <2>9. result = [node |-> r, gpus |-> F(r)]
    BY <2>1, <2>4 DEF LoopInv, LoopTypeOK, Placement
  <2>10. result \in Allocations(Nodes, locked, Suits, Need)
    <3>1. ~ (Need <= 0)  BY LoopAssumption
    <3> QED BY <2>8, <2>9, <3>1 DEF Allocations
  <2>11. \A n \in Widest(Nodes, locked, Suits, Need) \ {r} :
            now(r) < now(n) \/ (now(r) = now(n) /\ r < n)
    <3> SUFFICES ASSUME NEW n \in Widest(Nodes, locked, Suits, Need), n # r
                 PROVE  now(r) < now(n) \/ (now(r) = now(n) /\ r < n)
      OBVIOUS
    <3>1. n \in DOMAIN candidates  BY <2>2 DEF Widest
    <3>2. Cardinality(Held(r)) <= Cardinality(Held(n))
      BY <2>1, <2>2 DEF Widest, Held
    <3> QED BY <2>1, <2>6, <2>7, <3>1, <3>2
  <2> QED BY <2>10, <2>11
<1>2. LoopInv => LoopMeetsAllocations
  BY <1>1 DEF LoopMeetsAllocations
<1> QED BY <1>2, LoopInvariant, PTL

\* allocate returns None only if no node had gpu_count suitable idle rows when it was
\* read.
THEOREM NoneMeansShort == LoopSpec => []NoneOnlyIfShort
<1>1. ASSUME LoopInv, unread = {}, DOMAIN candidates = {}
      PROVE  Allocations(Nodes, locked, Suits, Need) = {} /\ locked \subseteq Idle
  <2>1. locked \subseteq Idle  BY <1>1 DEF LoopInv, ReadRows
  <2>2. CASE Need > 0
    <3>1. Candidates(Nodes, locked, Suits, Need) = {}
      BY <1>1, <2>2, CandidatesOfHeld
    <3>2. ~ (Need <= 0)  BY <2>2, LoopAssumption
    <3> QED BY <2>1, <3>1, <3>2 DEF Allocations, Widest
  <2>3. CASE ~ (Need > 0)
    <3>1. Need <= 0  BY <2>3, LoopAssumption
    <3>2. Nodes = {}  BY <1>1, <3>1 DEF LoopInv, ReadRows
    <3> QED BY <2>1, <3>1, <3>2 DEF Allocations, WidestForCpu
  <2> QED BY <2>2, <2>3
<1>2. LoopInv => NoneOnlyIfShort  BY <1>1 DEF NoneOnlyIfShort
<1> QED BY <1>2, LoopInvariant, PTL
=============================================================================
