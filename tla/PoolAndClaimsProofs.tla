------------------------- MODULE PoolAndClaimsProofs -------------------------
(***************************************************************************)
(* The two controllers together: TogetherInvariant is inductive, by the    *)
(* theorems about each of them and by what their steps leave alone.        *)
(***************************************************************************)
EXTENDS PoolAndClaimsInvariant, TLAPS

-----------------------------------------------------------------------------
(* The components' assumptions about their constants.                      *)

\* The prefixes of a spec are known in NetBox, one for each reference.
LEMMA SpecPrefixes ==
    ASSUME NEW s \in Specs
    PROVE  /\ DOMAIN IDsOf[s] = DOMAIN s.prefixes
           /\ \A i \in DOMAIN s.prefixes : Hosts[IDsOf[s][i]] \in SUBSET Addresses
           /\ s.prefixes \in Seq(PrefixReference) /\ s.prefixes # <<>>
<1>1. s \in PoolSpec /\ s.prefixes # <<>>  BY SpecsAssumption
<1>2. IDsOf[s] = ResolvePrefixIDs(Table, s.prefixes)  BY DEF IDsOf
<1>3. DOMAIN IDsOf[s] = DOMAIN s.prefixes  BY <1>2 DEF ResolvePrefixIDs
<1>4. ASSUME NEW i \in DOMAIN s.prefixes PROVE Hosts[IDsOf[s][i]] \in SUBSET Addresses
  <2>1. PICK row \in Table : row.id = IDsOf[s][i]
    BY <1>2, <1>3, InventoryAssumption DEF Table
  <2> QED  BY <2>1 DEF Addresses
<1> QED  BY <1>1, <1>3, <1>4 DEF PoolSpec

\* A pool with prefixes of some spec looks to a claim as the claim controller expects.
LEMMA SeenIsAView ==
    ASSUME NEW p, p.spec \in Specs, FromSomeSpec(p)
    PROVE  /\ Seen(p) \in Views
           /\ Seen(p).state = "absent" <=> p.phase = "gone"
<1>1. PICK s \in Specs : PrefixIDs(p) = IDsOf[s]
  BY DEF PrefixIDs, FromSomeSpec, P!IDs
<1>2. [i \in DOMAIN PrefixIDs(p) |-> Hosts[PrefixIDs(p)[i]]] \in [DOMAIN s.prefixes -> SUBSET Addresses]
  BY <1>1, SpecPrefixes
<1> DEFINE state == CASE p.phase = "gone" -> "absent"
                       [] p.phase # "gone" /\ p.paused  -> "paused"
                       [] p.phase # "gone" /\ ~p.paused -> "present"
           prefixes == [i \in DOMAIN PrefixIDs(p) |-> Hosts[PrefixIDs(p)[i]]]
<1>3. state \in {"absent", "present", "paused"} /\ (state = "absent" <=> p.phase = "gone")
  <2>1. CASE p.phase = "gone"  BY <2>1
  <2>2. CASE p.phase # "gone" /\ p.paused  BY <2>2
  <2>3. CASE p.phase # "gone" /\ ~p.paused  BY <2>3
  <2> QED  BY <2>1, <2>2, <2>3
<1>4. Seen(p) = [state |-> state, prefixes |-> prefixes, tag |-> "owned", field |-> "uid"]
  BY DEF Seen
<1> HIDE DEF state, prefixes
<1>5. [state |-> state, prefixes |-> prefixes, tag |-> "owned", field |-> "uid"] \in Views
  <2>1. prefixes \in UNION {[DOMAIN t.prefixes -> SUBSET Addresses] : t \in Specs}
    BY <1>2 DEF prefixes
  <2> QED  BY <1>3, <2>1 DEF Views
<1> QED  BY <1>3, <1>4, <1>5

LEMMA ViewsOfThePool ==
    /\ Views \subseteq C!PoolView /\ Views # {}
    /\ \A v \in Views : v.prefixes # <<>>
<1>1. ASSUME NEW s \in Specs
      PROVE  /\ [DOMAIN s.prefixes -> SUBSET Addresses] \subseteq Seq(SUBSET Addresses)
             /\ DOMAIN s.prefixes # {}
  <2>1. s.prefixes \in Seq(PrefixReference) /\ s.prefixes # <<>>  BY SpecPrefixes
  <2>2. DOMAIN s.prefixes = 1..Len(s.prefixes) /\ Len(s.prefixes) \in Nat /\ Len(s.prefixes) # 0  BY <2>1
  <2> HIDE <2>1
  <2>3. [1..Len(s.prefixes) -> SUBSET Addresses] \subseteq Seq(SUBSET Addresses)  BY <2>2
  <2> QED  BY <2>2, <2>3
<1>2. Views \subseteq C!PoolView  BY <1>1 DEF Views, C!PoolView
<1>3. ASSUME NEW v \in Views PROVE v.prefixes # <<>>
  <2>1. PICK s \in Specs : v.prefixes \in [DOMAIN s.prefixes -> SUBSET Addresses]  BY DEF Views
  <2> QED  BY <1>1, <2>1
<1>4. Views # {}
  <2> DEFINE none == [i \in DOMAIN FirstSpec.prefixes |-> {}]
  <2>1. none \in [DOMAIN FirstSpec.prefixes -> SUBSET Addresses]  OBVIOUS
  <2>2. [state |-> "absent", prefixes |-> none, tag |-> "owned", field |-> "uid"] \in Views
    BY <2>1, SpecsAssumption DEF Views
  <2> QED  BY <2>2
<1> QED  BY <1>2, <1>3, <1>4

\* The claims' pool is never absent to begin with, and always marks its records in one way.
LEMMA ClaimConstants ==
    /\ NoClaim \notin Claims
    /\ NoAddress \notin Addresses
    /\ NameOf \in [Claims -> Names]
    /\ {} \subseteq C!FaultKinds /\ 0 \in Nat
    /\ MaxLag \in Nat
    /\ Views \subseteq C!PoolView /\ Views # {}
    /\ \A p \in Views : p.state # "absent" => p.prefixes # <<>>
    /\ {"running"} \subseteq {"running", "paused", "missing"}
BY ViewsOfThePool, NamesAssumption, NoAddressAssumption, BoundsAssumption

LEMMA ClaimAssumptions == C!SameMarks /\ C!AddressFaults
BY DEF C!SameMarks, C!AddressFaults, Views

LEMMA PoolConstants ==
    /\ (MaxLag > 0) \in BOOLEAN /\ MaxChanges \in Nat /\ 0 \in Nat /\ StampsConditions \in BOOLEAN
    /\ P!IsFiniteSet(Names)
    /\ {} \subseteq {"patchError", "crash"}
    /\ Specs \subseteq P!PoolSpec /\ FirstSpec \in Specs /\ \A s \in Specs : s.prefixes # <<>>
    /\ {Inventory} \subseteq P!NetBox
<1>1. P!IsFiniteSet(Names)  BY NamesAssumption DEF IsFiniteSet, P!IsFiniteSet
<1>2. PoolSpec = P!PoolSpec
  BY DEF PoolSpec, P!PoolSpec, PrefixReference, P!PrefixReference, CIDR, P!CIDR, Text, P!Text
<1>3. NetBox = P!NetBox
  BY DEF NetBox, P!NetBox, Prefix, P!Prefix, CIDR, P!CIDR, Text, P!Text, Secret, P!Secret, Value, P!Value
<1> QED  BY <1>1, <1>2, <1>3, BoundsAssumption, SpecsAssumption, InventoryAssumption

-----------------------------------------------------------------------------
(* The components' theorems.                                               *)

LEMMA ClaimsInit == C!Init => C!SafetyInvariant /\ C!AddressInvariant /\ C!OwnerInvariant
BY ClaimConstants, C!InitSafety, C!InitAddresses, C!InitOwner

LEMMA ClaimsKeep ==
    /\ C!AddressInvariant /\ [C!Next]_(C!vars) => C!AddressInvariant'
    /\ C!SafetyInvariant /\ [C!Next]_(C!vars) => C!SafetyInvariant'
    /\ C!SafetyInvariant /\ C!AddressInvariant /\ C!OwnerInvariant /\ [C!Next]_(C!vars) =>
           C!OwnerInvariant' /\ [C!Ledger!LedgerNext]_(C!Ledger!ledgerVars)
<1>1. {} \subseteq {"crash"} /\ C!LedgerFaults  BY DEF C!LedgerFaults
<1>2. C!OwnerInvariant => C!OwnersKnown  BY DEF C!OwnersKnown
<1>3. C!SafetyInvariant /\ C!AddressInvariant /\ C!OwnersKnown /\ [C!Next]_(C!vars) =>
          [C!Ledger!LedgerNext]_(C!Ledger!ledgerVars)
  BY <1>1, ClaimConstants, C!NextLedger
<1>4. C!SafetyInvariant /\ C!AddressInvariant /\ C!OwnerInvariant /\ [C!Next]_(C!vars) => C!OwnerInvariant'
  BY <1>1, ClaimConstants, C!NextOwner
<1>5. C!SafetyInvariant /\ [C!Next]_(C!vars) => C!SafetyInvariant'
  BY ClaimConstants, ClaimAssumptions, C!NextSafety
<1>6. C!AddressInvariant /\ [C!Next]_(C!vars) => C!AddressInvariant'
  BY ClaimConstants, ClaimAssumptions, C!NextAddresses
<1> QED  BY <1>2, <1>3, <1>4, <1>5, <1>6

LEMMA PoolInit == P!Init => P!StatusInvariant
BY PoolConstants, P!StatusInit

LEMMA PoolKeeps == P!StatusInvariant /\ [P!Next]_(P!vars) => P!StatusInvariant'
BY PoolConstants, P!StatusStep

\* A claim may look at a pool that has gone at any moment.
LEMMA ClaimsAnyPool ==
    ASSUME C!AddressInvariant, UNCHANGED claimVars, Seen(poolCache)' \in Views
    PROVE  C!AddressInvariant'
BY ClaimConstants, C!AnyPoolAddresses
   DEF claimVars, C!kubernetes, C!claims, C!addresses, C!netbox, C!caches

-----------------------------------------------------------------------------
(* The steps of the two controllers.                                       *)

ClaimStep == ClaimWorkerStep \/ ClaimInformers \/ ClaimResync \/ ClaimUser
PoolStep  == PoolWorkerStep \/ PoolInformer \/ PoolResync \/ PoolUser

LEMMA ClaimStepFacts == ASSUME ClaimStep PROVE C!Next /\ UNCHANGED poolVars
BY DEF ClaimStep, ClaimWorkerStep, ClaimInformers, ClaimResync, ClaimUser, C!Next, C!Environment

LEMMA PoolStepFacts ==
    ASSUME PoolStep
    PROVE  /\ P!Next /\ UNCHANGED claimVars
           /\ UNCHANGED poolCache \/ (poolCache' = pool /\ UNCHANGED pool)
BY DEF PoolStep, PoolWorkerStep, PoolInformer, PoolResync, PoolUser, P!Next, P!WorkerStep, P!Reconcile,
   P!ResolveIDs, P!ResolveDetails, P!Patch, P!SyncPool, P!Resync, P!EditSpec, P!SetPaused, P!DeletePool

\* A step of the claims' side: the pool controller sees other IPAddresses, and nothing else.
LEMMA ClaimStepPool == ASSUME PoolAgrees, ClaimStep PROVE PoolAgrees'
<1>1. UNCHANGED <<pool, poolCache, poolQueued, poolPc, poolJob, changes>>
  BY ClaimStepFacts DEF poolVars
<1>2. P!TypeOK'
  <2>1. P!TypeOK  BY DEF PoolAgrees, P!StatusInvariant
  <2>2. Referencing(ipAddress)' \subseteq Names /\ Referencing(addressCache)' \subseteq Names
    BY DEF Referencing
  <2> QED  BY <1>1, <2>1, <2>2 DEF P!TypeOK
<1>3. P!StatusInvariant'  BY <1>1, <1>2, PoolConstants, P!StatusSame DEF PoolAgrees
<1> QED  BY <1>3 DEF PoolAgrees

\* A step of the pool's side keeps what the pool controller promises by itself.
LEMMA PoolStepPool == ASSUME PoolAgrees, PoolStep PROVE PoolAgrees'
BY PoolStepFacts, PoolKeeps DEF PoolAgrees

-----------------------------------------------------------------------------
(* The prefixes that a claim gets to see.                                  *)

\* The lookups and the resolution, as the pool controller makes them.
LEMMA PoolResolves ==
    /\ P!NewPool.resolved = <<>> /\ P!NoJob.snap = P!NewPool /\ P!NoJob.want = P!NewPool
    /\ \A s \in Specs : P!ResolvePrefixIDs(Inventory.table, s.prefixes) = IDsOf[s]
    /\ \A s, spec \in Specs : P!IDs(P!buildResolvedPrefixes(spec, IDsOf[s], Inventory.table)) = IDsOf[s]
<1>1. ASSUME NEW s \in Specs PROVE P!ResolvePrefixIDs(Inventory.table, s.prefixes) = IDsOf[s]
  BY DEF IDsOf, Table, ResolvePrefixIDs, P!ResolvePrefixIDs, Matching, P!Matching
<1>2. ASSUME NEW s \in Specs, NEW spec \in Specs
      PROVE  P!IDs(P!buildResolvedPrefixes(spec, IDsOf[s], Inventory.table)) = IDsOf[s]
  <2> DEFINE built == P!buildResolvedPrefixes(spec, IDsOf[s], Inventory.table)
  <2>1. IDsOf[s] = [i \in DOMAIN s.prefixes |-> IDsOf[s][i]]  BY DEF IDsOf, ResolvePrefixIDs
  <2>2. DOMAIN built = DOMAIN IDsOf[s] /\ \A i \in DOMAIN IDsOf[s] : built[i].id = IDsOf[s][i]
    BY DEF P!buildResolvedPrefixes
  <2> HIDE DEF built
  <2>3. P!IDs(built) = [i \in DOMAIN IDsOf[s] |-> IDsOf[s][i]]  BY <2>2 DEF P!IDs
  <2> QED  BY <2>1, <2>3 DEF built
<1> QED  BY <1>1, <1>2 DEF P!NewPool, P!NoJob

\* The prefixes of each copy stay, are taken from another copy, or belong to a spec.
LEMMA PrefixesKept ==
    ASSUME PrefixesFromSpecs,
           \A p \in {pool', poolCache', poolJob'.snap, poolJob'.want} :
              \/ p.resolved \in {pool.resolved, poolCache.resolved, poolJob.snap.resolved,
                                 poolJob.want.resolved, <<>>}
              \/ \E s \in Specs : P!IDs(p.resolved) = IDsOf[s],
           poolPc' = "GetPrefixDetails" => poolJob'.ids = IDsOf[poolJob'.want.spec]
    PROVE  PrefixesFromSpecs'
<1>1. ASSUME NEW p \in {pool', poolCache', poolJob'.snap, poolJob'.want} PROVE FromSomeSpec(p)
  BY DEF PrefixesFromSpecs, FromSomeSpec
<1>2. \A p \in {pool', poolCache', poolJob'.snap, poolJob'.want} :
          p.resolved # <<>> => \E s \in Specs : P!IDs(p.resolved) = IDsOf[s]
  BY <1>1 DEF FromSomeSpec
<1> QED  BY <1>2 DEF PrefixesFromSpecs, FromSomeSpec, P!IDs

LEMMA WorkerPrefixes ==
    ASSUME P!StatusInvariant, PrefixesFromSpecs, P!WorkerStep
    PROVE  PrefixesFromSpecs' /\ pool'.phase \in {pool.phase, "gone"}
                              /\ (pool.phase = "gone" => pool'.phase = "gone")
<1>1. /\ P!TypeOK /\ pool \in P!Pool /\ poolCache \in P!Pool /\ poolJob \in P!Job
      /\ poolJob.want \in P!Pool /\ poolJob.want.spec \in Specs /\ poolJob.want.allocated \in Nat
      /\ P!Cardinality(Referencing(addressCache)) \in Nat
  <2>1. P!TypeOK /\ pool \in P!Pool /\ poolCache \in P!Pool /\ poolJob \in P!Job
    BY DEF P!StatusInvariant, P!TypeOK
  <2>2. P!AddressesInUse \in Nat
    <3>1. Referencing(addressCache) \in SUBSET Names  BY DEF Referencing
    <3>2. P!Cardinality(Names) \in Nat /\ P!Cardinality(Referencing(addressCache)) \in 0..P!Cardinality(Names)
      BY <3>1, PoolConstants, P!CountIsBounded, P!FS_CardinalityType
    <3> QED  BY <3>2 DEF P!AddressesInUse
  <2>3. poolJob.want \in P!Pool  BY <2>1 DEF P!Job
  <2>4. poolJob.want.spec \in Specs /\ poolJob.want.allocated \in Nat  BY <2>3 DEF P!Pool
  <2> QED  BY <2>1, <2>2, <2>3, <2>4 DEF P!AddressesInUse
<1>2. CASE P!Reconcile
  <2> DEFINE p    == poolCache
             seen == [p EXCEPT !.observedGeneration = p.generation, !.allocated = P!AddressesInUse]
             done == P!Conclude(seen, FALSE, P!AddressesInUse)
  <2>1. UNCHANGED <<pool, poolCache>>  BY <1>2 DEF P!Reconcile
  <2>2. seen.resolved = poolCache.resolved /\ done.want.resolved = poolCache.resolved
    BY <1>1 DEF P!Conclude, P!Pool
  <2>3. \/ poolJob' = poolJob /\ poolPc' = poolPc
        \/ poolJob'.snap = p /\ poolJob'.want \in {seen, done.want} /\ poolPc' # "GetPrefixDetails"
    <3>1. \/ poolJob' = poolJob /\ poolPc' = poolPc
          \/ poolJob' = [P!NoJob EXCEPT !.snap = p, !.want = seen] /\ poolPc' = "ResolvePrefixIDs"
          \/ poolJob' = [P!NoJob EXCEPT !.snap = p, !.want = done.want, !.failed = done.failed]
                /\ poolPc' = "Patch"
      BY <1>2 DEF P!Reconcile
    <3> HIDE DEF p, seen, done
    <3> QED  BY <3>1 DEF P!NoJob
  <2> HIDE DEF p, seen, done
  <2>4. /\ poolJob'.snap.resolved \in {poolJob.snap.resolved, poolCache.resolved}
        /\ poolJob'.want.resolved \in {poolJob.want.resolved, poolCache.resolved}
    BY <2>2, <2>3 DEF p
  <2>5. poolPc' = "GetPrefixDetails" => poolJob'.ids = IDsOf[poolJob'.want.spec]
    BY <2>3 DEF PrefixesFromSpecs
  <2> QED  BY <2>1, <2>4, <2>5, PrefixesKept
<1>3. CASE P!ResolveIDs
  <2>1. UNCHANGED <<pool, poolCache>>  BY <1>3 DEF P!ResolveIDs
  <2>2. \/ poolJob' = [poolJob EXCEPT !.ids = P!ResolvePrefixIDs(Inventory.table, poolJob.want.spec.prefixes)]
        \/ P!Resolution(poolJob.want, TRUE)
    BY <1>3 DEF P!ResolveIDs
  <2>3. CASE poolJob' = [poolJob EXCEPT !.ids =
                            P!ResolvePrefixIDs(Inventory.table, poolJob.want.spec.prefixes)]
    <3>1. poolJob'.snap = poolJob.snap /\ poolJob'.want = poolJob.want
          /\ poolJob'.ids = IDsOf[poolJob.want.spec]
      BY <1>1, <2>3, PoolResolves DEF P!Job
    <3> QED  BY <2>1, <3>1, PrefixesKept
  <2>4. CASE P!Resolution(poolJob.want, TRUE)
    <3>1. poolPc' = "Patch" /\ poolJob'.snap = poolJob.snap
          /\ poolJob'.want = P!Conclude(poolJob.want, TRUE, poolJob.want.allocated).want
      BY <1>1, <2>4 DEF P!Resolution, P!Job
    <3>2. poolJob'.want.resolved = poolJob.want.resolved
      BY <1>1, <3>1 DEF P!Conclude, P!Pool
    <3> QED  BY <2>1, <3>1, <3>2, PrefixesKept
  <2> QED  BY <2>2, <2>3, <2>4
<1>4. CASE P!ResolveDetails
  <2> DEFINE details == P!buildResolvedPrefixes(poolJob.want.spec, poolJob.ids, Inventory.table)
             built   == [poolJob.want EXCEPT !.resolved = details]
  <2>1. UNCHANGED <<pool, poolCache>> /\ poolPc = "GetPrefixDetails"  BY <1>4 DEF P!ResolveDetails
  <2>2. P!Resolution(built, FALSE) \/ P!Resolution(poolJob.want, TRUE)
    BY <1>4 DEF P!ResolveDetails
  <2>3. CASE P!Resolution(built, FALSE)
    <3>1. built.resolved = details  BY <1>1 DEF P!Pool
    <3>2. P!IDs(details) = IDsOf[poolJob.want.spec]
      BY <1>1, <2>1, PoolResolves DEF PrefixesFromSpecs
    <3> HIDE DEF details
    <3>3. poolPc' = "Patch" /\ poolJob'.snap = poolJob.snap
          /\ poolJob'.want = P!Conclude(built, FALSE, poolJob.want.allocated).want
      BY <1>1, <2>3 DEF P!Resolution, P!Job
    <3>4. poolJob'.want.resolved = details
      BY <1>1, <3>1, <3>3 DEF P!Conclude, P!Pool
    <3> HIDE DEF built
    <3>5. \E s \in Specs : P!IDs(poolJob'.want.resolved) = IDsOf[s]  BY <1>1, <3>2, <3>4
    <3> QED  BY <2>1, <3>3, <3>5, PrefixesKept
  <2>4. CASE P!Resolution(poolJob.want, TRUE)
    <3>1. poolPc' = "Patch" /\ poolJob'.snap = poolJob.snap
          /\ poolJob'.want = P!Conclude(poolJob.want, TRUE, poolJob.want.allocated).want
      BY <1>1, <2>4 DEF P!Resolution, P!Job
    <3>2. poolJob'.want.resolved = poolJob.want.resolved
      BY <1>1, <3>1 DEF P!Conclude, P!Pool
    <3> QED  BY <2>1, <3>1, <3>2, PrefixesKept
  <2> QED  BY <2>2, <2>3, <2>4
<1>5. CASE P!Patch
  <2>1. /\ P!PatchWrites /\ poolJob' = P!NoJob /\ poolPc' = "idle" /\ poolCache' = poolCache
    BY <1>1, <1>5, PoolConstants, P!PatchIsAWrite
  <2>2. ASSUME NEW obj \in P!Pool, obj.phase = pool.phase, pool' = P!Collected(obj),
               obj.resolved \in {pool.resolved, poolJob.want.resolved}
        PROVE  /\ pool'.resolved \in {pool.resolved, poolJob.want.resolved}
               /\ pool'.phase \in {pool.phase, "gone"}
               /\ (pool.phase = "gone" => pool'.phase = "gone")
    BY <2>2 DEF P!Collected, P!Pool
  <2>3. /\ pool'.resolved \in {pool.resolved, poolJob.want.resolved}
        /\ pool'.phase \in {pool.phase, "gone"}
        /\ (pool.phase = "gone" => pool'.phase = "gone")
    <3>1. CASE pool' = pool  BY <3>1
    <3>2. ASSUME NEW done \in SUBSET {"metadata", "status"}, pool' = P!Patched(pool, done)
          PROVE  /\ pool'.resolved \in {pool.resolved, poolJob.want.resolved}
                 /\ pool'.phase \in {pool.phase, "gone"}
                 /\ (pool.phase = "gone" => pool'.phase = "gone")
      <4>1. PICK obj \in P!Pool :
                /\ P!Patched(pool, done) = P!Collected(obj) /\ obj.phase = pool.phase
                /\ obj.resolved \in {pool.resolved, P!Changed(poolJob.snap.resolved,
                                                   poolJob.want.resolved, pool.resolved)}
        BY <1>1, <3>2, PoolConstants, P!PatchedPool
      <4>2. obj.resolved \in {pool.resolved, poolJob.want.resolved}  BY <4>1 DEF P!Changed
      <4> QED  BY <2>2, <3>2, <4>1, <4>2
    <3> QED  BY <2>1, <3>1, <3>2 DEF P!PatchWrites
  <2>4. poolJob'.snap.resolved = <<>> /\ poolJob'.want.resolved = <<>>
    BY <2>1, PoolResolves
  <2>5. PrefixesFromSpecs'  BY <2>1, <2>3, <2>4, PrefixesKept
  <2> QED  BY <2>3, <2>5
<1> QED  BY <1>2, <1>3, <1>4, <1>5 DEF P!WorkerStep

\* A step of the pool's side: the prefixes stay those of some spec, and a pool that has gone
\* does not come back.
LEMMA PoolStepPrefixes ==
    ASSUME PoolAgrees, PrefixesFromSpecs, PoolStep
    PROVE  PrefixesFromSpecs' /\ (pool.phase = "gone" => pool'.phase = "gone")
<1>1. P!StatusInvariant /\ pool \in P!Pool  BY DEF PoolAgrees, P!StatusInvariant, P!TypeOK
<1>2. CASE PoolWorkerStep  BY <1>1, <1>2, WorkerPrefixes DEF PoolWorkerStep
<1>3. CASE PoolInformer \/ PoolResync
  <2>1. /\ UNCHANGED <<pool, poolPc, poolJob>> /\ poolCache' \in {poolCache, pool}
    BY <1>3 DEF PoolInformer, PoolResync, P!SyncPool, P!Resync
  <2> QED  BY <2>1 DEF PrefixesFromSpecs, FromSomeSpec, P!IDs
<1>4. CASE PoolUser
  <2>1. /\ UNCHANGED <<poolCache, poolPc, poolJob>>
        /\ pool'.resolved = pool.resolved
        /\ pool.phase # "gone"
    BY <1>1, <1>4 DEF PoolUser, P!EditSpec, P!SetPaused, P!DeletePool, P!Collected, P!Pool, P!worker
  <2> QED  BY <2>1 DEF PrefixesFromSpecs, FromSomeSpec, P!IDs
<1> QED  BY <1>2, <1>3, <1>4 DEF PoolStep

-----------------------------------------------------------------------------
(* The invariant.                                                          *)

\* A claim looks at a pool of the kind it expects, and misses it only when it is gone.
LEMMA SeenPool ==
    ASSUME TogetherInvariant
    PROVE  /\ Seen(pool) \in Views /\ Seen(poolCache) \in Views
           /\ Seen(pool).state = "absent" <=> pool.phase = "gone"
           /\ Seen(poolCache).state = "absent" <=> poolCache.phase = "gone"
<1>1. FromSomeSpec(pool) /\ FromSomeSpec(poolCache)  BY DEF TogetherInvariant, PrefixesFromSpecs
<1>2. pool.spec \in Specs /\ poolCache.spec \in Specs
  BY DEF TogetherInvariant, PoolAgrees, P!StatusInvariant, P!TypeOK, P!Pool
<1> QED  BY <1>1, <1>2, SeenIsAView

\* The claims do not move when the pool does, but they may see another pool.
LEMMA PoolStepClaims ==
    ASSUME TogetherInvariant, PoolStep, pool.phase = "gone" => pool'.phase = "gone"
    PROVE  ClaimsAgree'
<1>1. UNCHANGED claimVars  BY PoolStepFacts
<1>2. C!AddressInvariant /\ (pool.phase # "gone" => C!SafetyInvariant /\ C!OwnerInvariant)
  BY DEF TogetherInvariant, ClaimsAgree
<1>3. CASE UNCHANGED Seen(poolCache)
  <2>1. UNCHANGED C!vars
    BY <1>1, <1>3 DEF claimVars, C!vars, C!kubernetes, C!claims, C!addresses, C!netbox, C!external, C!caches
  <2> QED  BY <1>2, <2>1, ClaimsKeep DEF ClaimsAgree
<1>4. CASE poolCache' = pool /\ UNCHANGED pool /\ Seen(pool) # Seen(poolCache)
  <2>1. Seen(poolCache)' = Seen(pool)  BY <1>4 DEF Seen, PrefixIDs
  <2>2. CASE pool.phase = "gone"
    <3>1. Seen(poolCache)' \in Views  BY <2>1, SeenPool
    <3>2. C!AddressInvariant'  BY <1>1, <1>2, <3>1, ClaimsAnyPool
    <3> QED  BY <1>4, <2>2, <3>2 DEF ClaimsAgree
  <2>3. CASE pool.phase # "gone"
    <3>1. C!ChangePool
      BY <1>1, <1>4, <2>1, <2>3, SeenPool
         DEF C!ChangePool, claimVars, C!kubernetes, C!claims, C!addresses, C!netbox, C!caches
    <3>2. C!Next  BY <3>1 DEF C!Next, C!Environment
    <3> QED  BY <1>2, <2>3, <3>2, ClaimsKeep DEF ClaimsAgree
  <2> QED  BY <2>2, <2>3
<1>5. UNCHANGED Seen(poolCache) \/ (poolCache' = pool /\ UNCHANGED pool /\ Seen(pool) # Seen(poolCache))
  <2>1. CASE UNCHANGED poolCache  BY <2>1 DEF Seen, PrefixIDs
  <2>2. CASE poolCache' = pool /\ UNCHANGED pool
    <3>1. Seen(poolCache)' = Seen(pool)  BY <2>2 DEF Seen, PrefixIDs
    <3> QED  BY <2>2, <3>1
  <2> QED  BY <2>1, <2>2, PoolStepFacts
<1> QED  BY <1>3, <1>4, <1>5

LEMMA TogetherInit == Init => TogetherInvariant
<1> SUFFICES ASSUME Init PROVE TogetherInvariant  OBVIOUS
<1>1. /\ P!Init /\ C!Init
      /\ pool = P!NewPool /\ poolCache = P!NewPool /\ poolJob = P!NoJob /\ poolPc = "idle"
  BY DEF Init, P!Init
<1>2. /\ \A p \in {pool, poolCache, poolJob.snap, poolJob.want} : p.resolved = <<>>
      /\ pool.phase = "live" /\ pool.observedGeneration # pool.generation
  BY <1>1 DEF P!NewPool, P!NoJob
<1>3. PrefixesFromSpecs  BY <1>1, <1>2 DEF PrefixesFromSpecs, FromSomeSpec
<1>4. GoneWhenUnseen  BY <1>1, <1>2 DEF GoneWhenUnseen
<1>5. PoolAgrees  BY <1>1, PoolInit DEF PoolAgrees
<1>6. ClaimsAgree  BY <1>1, ClaimsInit DEF ClaimsAgree
<1> QED  BY <1>3, <1>4, <1>5, <1>6 DEF TogetherInvariant

LEMMA TogetherStep == TogetherInvariant /\ [Next]_vars => TogetherInvariant'
<1> SUFFICES ASSUME TogetherInvariant, [Next]_vars PROVE TogetherInvariant'  OBVIOUS
<1>1. CASE ClaimStep
  <2>1. C!Next /\ UNCHANGED <<pool, poolCache, poolPc, poolJob>>
    BY <1>1, ClaimStepFacts DEF poolVars
  <2>2. PrefixesFromSpecs' /\ GoneWhenUnseen'
    BY <2>1 DEF TogetherInvariant, PrefixesFromSpecs, FromSomeSpec, P!IDs, GoneWhenUnseen
  <2>3. PoolAgrees'  BY <1>1, ClaimStepPool DEF TogetherInvariant
  <2>4. ClaimsAgree'  BY <2>1, ClaimsKeep DEF TogetherInvariant, ClaimsAgree
  <2> QED  BY <2>2, <2>3, <2>4 DEF TogetherInvariant
<1>2. CASE PoolStep
  <2>1. PrefixesFromSpecs' /\ (pool.phase = "gone" => pool'.phase = "gone")
    BY <1>2, PoolStepPrefixes DEF TogetherInvariant
  <2>2. PoolAgrees'  BY <1>2, PoolStepPool DEF TogetherInvariant
  <2>3. GoneWhenUnseen'  BY <1>2, <2>1, PoolStepFacts DEF TogetherInvariant, GoneWhenUnseen
  <2>4. ClaimsAgree'  BY <1>2, <2>1, PoolStepClaims
  <2> QED  BY <2>1, <2>2, <2>3, <2>4 DEF TogetherInvariant
<1>3. CASE UNCHANGED vars
  <2>1. UNCHANGED <<pool, poolCache, poolPc, poolJob>> /\ UNCHANGED C!vars /\ UNCHANGED P!vars
    BY <1>3 DEF vars, claimVars, poolVars, C!vars, C!kubernetes, C!claims, C!addresses, C!netbox,
       C!external, C!caches, P!vars, P!uses, P!worker, Referencing, Seen, PrefixIDs
  <2>2. PrefixesFromSpecs' /\ GoneWhenUnseen'
    BY <2>1 DEF TogetherInvariant, PrefixesFromSpecs, FromSomeSpec, P!IDs, GoneWhenUnseen
  <2>3. PoolAgrees'  BY <2>1, PoolKeeps DEF TogetherInvariant, PoolAgrees
  <2>4. ClaimsAgree'  BY <2>1, ClaimsKeep DEF TogetherInvariant, ClaimsAgree
  <2> QED  BY <2>2, <2>3, <2>4 DEF TogetherInvariant
<1> QED  BY <1>1, <1>2, <1>3 DEF Next, ClaimStep, PoolStep

\* Neither controller breaks what the other one promises, whatever users do with the pool and
\* the claims, however far the caches lag and in whatever order the two workers run.
THEOREM TogetherInvariantHolds == Spec => []TogetherInvariant
BY TogetherInit, TogetherStep, PTL DEF Spec

-----------------------------------------------------------------------------
(* What follows for the two together.                                      *)

\* NoLeakWhilePoolExists: while the pool exists, the claim that a record belongs to is held back
\* by its finalizer, however old the pool is that the claim's release looks at.
THEOREM NoLeak == Spec => []NoLeakWhilePoolExists
<1>1. TogetherInvariant => NoLeakWhilePoolExists
  BY DEF TogetherInvariant, ClaimsAgree, C!SafetyInvariant, C!RecordsInvariant, NoLeakWhilePoolExists
<1> QED  BY <1>1, TogetherInvariantHolds, PTL

\* PublishedStaysTrue: no pool that is edited, paused or deleted under a claim makes its published
\* address or its status untrue.
THEOREM PublishedIsTrue == Spec => []PublishedStaysTrue
<1>1. TogetherInvariant => PublishedStaysTrue
  BY DEF TogetherInvariant, ClaimsAgree, C!AddressInvariant, PublishedStaysTrue
<1> QED  BY <1>1, TogetherInvariantHolds, PTL

\* LedgerIsKept: as long as the pool exists, whatever users make of it, every claim is served and
\* released as the address ledger promises.
THEOREM LedgerOfTheTwo == Spec => LedgerIsKept
<1>1. ASSUME TogetherInvariant, [Next]_vars, pool.phase # "gone"
      PROVE  [C!Ledger!LedgerNext]_(C!Ledger!ledgerVars)
  <2>1. CASE ClaimStep
    BY <1>1, <2>1, ClaimStepFacts, ClaimsKeep DEF TogetherInvariant, ClaimsAgree
  <2>2. CASE PoolStep \/ UNCHANGED vars
    <3>1. UNCHANGED claimVars  BY <2>2, PoolStepFacts DEF vars
    <3> QED
      BY <3>1 DEF claimVars, C!Ledger!ledgerVars, C!Reservations, C!PublishedFor, C!LifeOf
  <2> QED  BY <1>1, <2>1, <2>2 DEF Next, ClaimStep, PoolStep
<1>2. TogetherInvariant /\ [Next]_vars =>
          [pool.phase # "gone" => [C!Ledger!LedgerNext]_(C!Ledger!ledgerVars)]_vars
  BY <1>1
<1> QED  BY <1>2, TogetherInvariantHolds, PTL DEF Spec, LedgerIsKept
=============================================================================
