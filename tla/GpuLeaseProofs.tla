---------------------------- MODULE GpuLeaseProofs ----------------------------
(***************************************************************************)
(* What the leases guarantee to whoever relies on GpuLease alone.          *)
(***************************************************************************)
EXTENDS GpuLease, TLAPS

LeaseTypeOK == held \in [Tasks -> SUBSET Gpus] /\ free \subseteq Gpus

LEMMA ExclusiveIsKept ==
    ASSUME LeaseTypeOK, Exclusive, [LeaseNext]_leaseVars PROVE LeaseTypeOK' /\ Exclusive'
<1>1. CASE UNCHANGED leaseVars
  BY <1>1 DEF LeaseTypeOK, Exclusive, leaseVars
<1>2. ASSUME NEW t \in Tasks, Forget(t) PROVE LeaseTypeOK' /\ Exclusive'
  BY <1>2 DEF LeaseTypeOK, Exclusive, Forget
<1>3. ASSUME NEW t \in Tasks, GiveBack(t) PROVE LeaseTypeOK' /\ Exclusive'
  BY <1>3 DEF LeaseTypeOK, Exclusive, GiveBack
<1>4. ASSUME NEW t \in Tasks, NEW rows \in SUBSET free, Grant(t, rows)
      PROVE  LeaseTypeOK' /\ Exclusive'
  <2>1. \A u \in Tasks : held'[u] = IF u = t THEN rows ELSE held[u]
    BY <1>4 DEF LeaseTypeOK, Grant
  <2>2. free' = free \ rows /\ held' \in [Tasks -> SUBSET Gpus]
    BY <1>4 DEF LeaseTypeOK, Grant
  <2> QED BY <2>1, <2>2 DEF LeaseTypeOK, Exclusive
<1> QED BY <1>1, <1>2, <1>3, <1>4 DEF LeaseNext

\* A row is leased to one task at a time and is then not on offer, for every number of tasks
\* and rows: what an implementation of GpuLease, as the scheduler, inherits.
THEOREM LeasesAreExclusive == LeaseSpec => []Exclusive
<1>1. LeaseInit => LeaseTypeOK /\ Exclusive
  BY DEF LeaseInit, LeaseTypeOK, Exclusive
<1>2. LeaseTypeOK /\ Exclusive /\ [LeaseNext]_leaseVars => LeaseTypeOK' /\ Exclusive'
  BY ExclusiveIsKept
<1> QED BY <1>1, <1>2, PTL DEF LeaseSpec
=============================================================================
