------------------------ MODULE PoolControllerProofs ------------------------
(***************************************************************************)
(* Theorems about the pool controller: what it reports and caches is sound *)
(* whatever NetBox, the Secret and users do, and nothing of it is stored   *)
(* as long as conditions lack their lastTransitionTime.                    *)
(***************************************************************************)
EXTENDS PoolInvariant, FiniteSetTheorems, SequenceTheorems, TLAPS

-----------------------------------------------------------------------------
(* What a resolution returns.                                              *)

\* Every reference has an ID, in the order of the references.
LEMMA IDsOfReferences ==
    ASSUME NEW table \in SUBSET Prefix, NEW refs \in Seq(PrefixReference), Resolvable(table, refs)
    PROVE  /\ ResolvePrefixIDs(table, refs) \in Seq(Nat)
           /\ DOMAIN ResolvePrefixIDs(table, refs) = DOMAIN refs
<1> DEFINE ids == ResolvePrefixIDs(table, refs)
<1>1. ASSUME NEW i \in DOMAIN refs
      PROVE  ids[i] \in Nat
  <2>1. refs[i] \in PrefixReference  OBVIOUS
  <2>2. CASE refs[i].id # 0
    BY <2>1, <2>2 DEF ResolvePrefixIDs, PrefixReference
  <2>3. CASE refs[i].id = 0
    <3>1. Cardinality(Matching(table, refs[i])) = 1  BY <2>3 DEF Resolvable
    <3>2. Matching(table, refs[i]) # {}
      <4>1. Cardinality({}) = 0  BY FS_EmptySet
      <4>2. 0 # 1  OBVIOUS
      <4> QED  BY <3>1, <4>1, <4>2, Zenon
    <3>3. (CHOOSE row \in Matching(table, refs[i]) : TRUE) \in Prefix
      BY <3>2 DEF Matching
    <3> QED  BY <3>3, <2>3 DEF ResolvePrefixIDs, Prefix
  <2> QED  BY <2>2, <2>3
<1>2. DOMAIN ids = 1..Len(refs)  BY DEF ResolvePrefixIDs
<1>3. ids \in [1..Len(refs) -> Nat]  BY <1>1, <1>2 DEF ResolvePrefixIDs
<1> QED  BY <1>2, <1>3 DEF Seq

LEMMA DetailIsPrefix ==
    ASSUME NEW table \in SUBSET Prefix, NEW id \in Nat
    PROVE  PrefixDetail(table, id) \in Prefix
BY DEF PrefixDetail, Missing, Prefix, NoCIDR, CIDR, Blank, Text

\* The gateway is one of the three that it may come from.
LEMMA GatewayIsText ==
    ASSUME NEW spec \in PoolSpec, NEW i \in DOMAIN spec.prefixes, NEW row \in Prefix
    PROVE  GatewayOf(spec, i, row) \in Text
<1> DEFINE values == <<CustomFieldString(row, spec), spec.prefixes[i].gateway, spec.gateway>>
           set    == {j \in DOMAIN values : values[j] # Blank}
<1>1. Blank \in Text  BY DEF Blank, Text
<1>2. /\ values[1] \in Text /\ values[2] \in Text /\ values[3] \in Text
      /\ DOMAIN values = 1..3
  <2>1. spec.prefixes[i] \in PrefixReference  BY DEF PoolSpec
  <2> QED  BY <2>1, <1>1 DEF CustomFieldString, PoolSpec, PrefixReference, Prefix
<1>3. CASE set = {}
  BY <1>1, <1>3 DEF GatewayOf, firstNonEmpty
<1>4. CASE set # {}
  <2>1. \E j \in set : \A k \in set : j <= k
    <3> HIDE DEF values
    <3>1. set \subseteq 1..3  BY <1>2
    <3>2. CASE 1 \in set  BY <3>1, <3>2
    <3>3. CASE 1 \notin set /\ 2 \in set  BY <3>1, <3>3
    <3>4. CASE 1 \notin set /\ 2 \notin set  BY <3>1, <3>4, <1>4
    <3> QED  BY <3>2, <3>3, <3>4
  <2>2. First(set) \in set  BY <2>1 DEF First
  <2>3. GatewayOf(spec, i, row) = values[First(set)]  BY <1>4 DEF GatewayOf, firstNonEmpty
  <2> HIDE DEF values
  <2>4. First(set) \in 1..3  BY <2>2, <1>2
  <2> QED  BY <2>3, <2>4, <1>2
<1> QED  BY <1>3, <1>4

\* A resolution that succeeds caches a valid gateway for every ID, in order.
LEMMA BuiltPrefixes ==
    ASSUME NEW table \in SUBSET Prefix, NEW spec \in PoolSpec, NEW ids \in Seq(Nat),
           DOMAIN ids = DOMAIN spec.prefixes, GatewaysValid(spec, ids, table)
    PROVE  /\ buildResolvedPrefixes(spec, ids, table) \in Seq(ResolvedPrefix)
           /\ IDs(buildResolvedPrefixes(spec, ids, table)) = ids
           /\ ValidGateways(buildResolvedPrefixes(spec, ids, table))
           /\ DOMAIN buildResolvedPrefixes(spec, ids, table) = DOMAIN ids
<1> DEFINE built == buildResolvedPrefixes(spec, ids, table)
<1>1. DOMAIN built = DOMAIN ids /\ DOMAIN ids = 1..Len(ids) /\ Len(ids) \in Nat
  BY DEF buildResolvedPrefixes
<1>2. ASSUME NEW i \in DOMAIN ids
      PROVE  /\ built[i] \in ResolvedPrefix
             /\ built[i].id = ids[i]
             /\ GatewayValid(built[i].cidr, built[i].gateway)
  <2>1. ids[i] \in Nat  BY <1>1
  <2>2. PrefixDetail(table, ids[i]) \in Prefix  BY <2>1, DetailIsPrefix
  <2>3. GatewayOf(spec, i, PrefixDetail(table, ids[i])) \in Text  BY <2>2, GatewayIsText
  <2>4. built[i] = [id |-> ids[i], cidr |-> PrefixDetail(table, ids[i]).cidr,
                    gateway |-> GatewayOf(spec, i, PrefixDetail(table, ids[i]))]
    BY DEF buildResolvedPrefixes
  <2> QED  BY <2>1, <2>2, <2>3, <2>4 DEF ResolvedPrefix, Prefix, GatewaysValid
<1>3. built \in [1..Len(ids) -> ResolvedPrefix]
  BY <1>1, <1>2 DEF buildResolvedPrefixes
<1>4. built \in Seq(ResolvedPrefix)  BY <1>1, <1>3 DEF Seq
<1>5. ValidGateways(built)  BY <1>1, <1>2 DEF ValidGateways
<1>6. IDs(built) = ids
  BY <1>1, <1>2 DEF IDs
<1> QED  BY <1>1, <1>4, <1>5, <1>6

-----------------------------------------------------------------------------
(* The operators of the worker.                                            *)

LEMMA CountIsBounded ==
    ASSUME NEW S \in SUBSET Users
    PROVE  Cardinality(S) \in 0..Cardinality(Users)
<1>1. IsFiniteSet(Users)  BY UsersAreFinite
<1>2. IsFiniteSet(S) /\ Cardinality(S) <= Cardinality(Users)  BY <1>1, FS_Subset
<1>3. Cardinality(S) \in Nat /\ Cardinality(Users) \in Nat  BY <1>1, <1>2, FS_CardinalityType
<1> QED  BY <1>2, <1>3

\* Conclude decides about the condition and the finalizer and nothing else.
LEMMA ConcludeDecides ==
    ASSUME NEW p \in Pool, NEW failed \in BOOLEAN, NEW n \in Nat
    PROVE  LET done == Conclude(p, failed, n)
           IN  /\ done.want \in Pool /\ done.failed \in BOOLEAN
               /\ done.want.phase = p.phase /\ done.want.generation = p.generation
               /\ done.want.spec = p.spec
               /\ done.want.observedGeneration = p.observedGeneration
               /\ done.want.resolved = p.resolved
               /\ done.want.ready # "unset"
               /\ done.want.ready = "PoolReady" => ~failed
<1>1. CASE p.phase = "live"
  BY <1>1 DEF Conclude, ReadyReason, Pool, ReadyReasons
<1>2. CASE p.phase # "live" /\ p.phase = "deleting" /\ n > 0
  BY <1>2 DEF Conclude, ReadyReason, Pool, ReadyReasons
<1>3. CASE p.phase # "live" /\ ~(p.phase = "deleting" /\ n > 0)
  BY <1>3 DEF Conclude, ReadyReason, Pool, ReadyReasons
<1> QED  BY <1>1, <1>2, <1>3

\* The metadata request writes the finalizer, and the status request the status fields that the
\* reconcile has changed.
LEMMA MetadataMergeKeepsStatus ==
    ASSUME NEW obj \in Pool, job \in Job
    PROVE  /\ MetadataMerged(obj) \in Pool
           /\ \E b \in BOOLEAN : MetadataMerged(obj) = [obj EXCEPT !.finalizer = b]
BY DEF MetadataMerged, Changed, Pool, Job

LEMMA StatusMergeWritesChanges ==
    ASSUME NEW obj \in Pool, job \in Job
    PROVE  /\ StatusMerged(obj) \in Pool
           /\ StatusMerged(obj).phase = obj.phase /\ StatusMerged(obj).generation = obj.generation
           /\ StatusMerged(obj).spec = obj.spec
           /\ StatusMerged(obj).observedGeneration =
                 Changed(job.snap.observedGeneration, job.want.observedGeneration, obj.observedGeneration)
           /\ StatusMerged(obj).resolved = Changed(job.snap.resolved, job.want.resolved, obj.resolved)
           /\ StatusMerged(obj).ready = Changed(job.snap.ready, job.want.ready, obj.ready)
BY DEF StatusMerged, Changed, Pool, Job

\* The API server only lets a pool go.
LEMMA CollectedKeepsStatus ==
    ASSUME NEW obj \in Pool
    PROVE  \/ Collected(obj) = obj
           \/ obj.phase = "deleting" /\ Collected(obj) = [obj EXCEPT !.phase = "gone"]
BY DEF Collected

LEMMA NewPoolIsPool == NewPool \in Pool /\ NoJob \in Job
<1>1. <<>> \in Seq(ResolvedPrefix) /\ <<>> \in Seq(Nat)  OBVIOUS
<1>2. 0 \in 0..Cardinality(Users)
  <2>1. {} \in SUBSET Users  OBVIOUS
  <2>2. Cardinality({}) \in 0..Cardinality(Users)  BY <2>1, CountIsBounded
  <2> QED  BY <2>2, FS_EmptySet
<1>3. /\ 1 \in 1..(MaxChanges + 2) /\ 0 \in 0..(MaxChanges + 2) /\ FirstSpec \in Specs
  BY PoolBounds, SpecsAssumption
<1>4. NewPool \in Pool  BY <1>1, <1>2, <1>3 DEF NewPool, Pool, ReadyReasons
<1> QED  BY <1>1, <1>4 DEF NoJob, Job

\* A new pool has no gateway to check and nothing in its status.
LEMMA NewPoolIsEmpty == ValidGateways(NewPool.resolved) /\ Admissible(NewPool) /\ Unset(NewPool)
BY DEF ValidGateways, Admissible, Distinct, Unset, NewPool

-----------------------------------------------------------------------------
(* The soundness of the cached prefixes, action by action.                 *)

LEMMA StatusInit == Init => StatusInvariant
<1> SUFFICES ASSUME Init PROVE StatusInvariant  OBVIOUS
<1> USE NewPoolIsPool DEF Init
<1>1. TypeOK  BY PoolBounds DEF TypeOK
<1>2. GenerationIsCounted
  BY DEF GenerationIsCounted, Copies, NoJob, NewPool
<1>3. GatewaysAreValid /\ Admissible(pool) /\ NothingIsStored
  BY NewPoolIsEmpty DEF GatewaysAreValid, NothingIsStored, ReadyMeansResolved, Copies, NoJob
<1>4. ReadyHasPrefixes  BY DEF ReadyHasPrefixes, NewPool
<1>5. PrefixesStay /\ WorkerHasPrefixes
  BY DEF PrefixesStay, WorkerHasPrefixes, Copies, NoJob, NewPool
<1> QED  BY <1>1, <1>2, <1>3, <1>4, <1>5 DEF StatusInvariant

\* The state after a reconcile has returned.
LEMMA IdleIsSound ==
    ASSUME job' = NoJob, pc' = "idle", pool' \in Pool
    PROVE  /\ job' \in Job /\ pc' \in {"idle", "ResolvePrefixIDs", "GetPrefixDetails", "Patch"}
           /\ job'.snap.generation <= pool'.generation
           /\ job'.snap.observedGeneration <= job'.snap.generation
           /\ job'.want.observedGeneration <= pool'.generation
           /\ ValidGateways(job'.snap.resolved) /\ ValidGateways(job'.want.resolved)
           /\ job'.snap.resolved = <<>> /\ Unset(job'.snap)
           /\ WorkerHasPrefixes'
<1>1. job' \in Job /\ job'.snap = NewPool /\ job'.want = NewPool  BY NewPoolIsPool DEF NoJob
<1>2. pool'.generation \in Nat /\ pool'.generation >= 1  BY PoolBounds DEF Pool
<1>3. NewPool.resolved = <<>> /\ NewPool.generation = 1 /\ NewPool.observedGeneration = 0
  BY DEF NewPool
<1>4. WorkerHasPrefixes'  BY <1>1 DEF WorkerHasPrefixes
<1> QED  BY <1>1, <1>2, <1>3, <1>4, NewPoolIsEmpty

\* A reconcile starts with a copy of the cached pool, whose status it has not changed but for
\* the generation and the count.
LEMMA StatusReconcile == ASSUME StatusInvariant, Reconcile PROVE StatusInvariant'
<1> DEFINE p    == poolCache
           seen == [p EXCEPT !.observedGeneration = p.generation, !.allocated = AddressesInUse]
           done == Conclude(seen, FALSE, AddressesInUse)
<1> USE DEF StatusInvariant
<1>0. /\ pool' = pool /\ poolCache' = poolCache /\ netbox' = netbox /\ inUse' = inUse
      /\ inUseCache' = inUseCache /\ faults' = faults /\ changes' = changes /\ queued' = FALSE
  BY DEF Reconcile, uses
<1>1. p \in Pool /\ seen \in Pool /\ AddressesInUse \in Nat
  <2>1. p \in Pool /\ inUseCache \in SUBSET Users  BY DEF TypeOK
  <2>2. AddressesInUse \in 0..Cardinality(Users)  BY <2>1, CountIsBounded DEF AddressesInUse
  <2>3. p.generation \in 0..(MaxChanges + 2)  BY <2>1, PoolBounds DEF Pool
  <2>4. AddressesInUse \in Nat
    BY <2>2, UsersAreFinite, FS_CardinalityType
  <2> HIDE DEF p
  <2>5. seen \in Pool  BY <2>1, <2>2, <2>3 DEF Pool
  <2> QED  BY <2>1, <2>4, <2>5
<1>2. /\ seen.resolved = p.resolved /\ seen.spec = p.spec
      /\ seen.generation = p.generation /\ seen.observedGeneration = p.generation
  BY <1>1 DEF Pool
<1>3. CASE UNCHANGED <<pc, job>>
  BY <1>0, <1>3 DEF TypeOK, GenerationIsCounted, GatewaysAreValid, Admissible, ReadyHasPrefixes,
                    PrefixesStay, WorkerHasPrefixes, NothingIsStored, Unset, ReadyMeansResolved,
                    Copies
<1>4. ASSUME NEW want \in Pool, job' \in Job, job'.snap = p, job'.want = want,
             want.resolved = p.resolved, want.spec = p.spec,
             want.observedGeneration = p.generation,
             pc' \in {"ResolvePrefixIDs", "Patch"},
             pc' = "Patch" => p.resolved # <<>> /\ want.ready # "unset"
      PROVE  StatusInvariant'
  <2>1. job' \in Job /\ job'.snap = p /\ job'.want = want  BY <1>4
  <2>2. TypeOK'  BY <1>0, <2>1, <1>4 DEF TypeOK
  <2>3. GenerationIsCounted'  BY <1>0, <2>1, <1>4 DEF GenerationIsCounted, Copies
  <2>4. GatewaysAreValid' /\ Admissible(pool)'
    BY <1>0, <1>4, <2>1 DEF GatewaysAreValid, Copies, Admissible
  <2>5. ReadyHasPrefixes' /\ PrefixesStay'  BY <1>0, <2>1 DEF ReadyHasPrefixes, PrefixesStay, Copies
  <2>6. WorkerHasPrefixes'  BY <1>4, <2>1 DEF WorkerHasPrefixes
  <2>7. NothingIsStored'
    <3> SUFFICES ASSUME ~StampsConditions
                 PROVE  (\A q \in {pool} \cup Copies : Unset(q))' /\ ReadyMeansResolved'
      BY DEF NothingIsStored
    <3>1. \A q \in {pool} \cup Copies : Unset(q)  BY DEF NothingIsStored
    <3>2. pc' # "Patch"  BY <1>4, <3>1 DEF Unset, Copies
    <3> QED  BY <1>0, <2>1, <3>1, <3>2 DEF ReadyMeansResolved, Copies
  <2> QED  BY <2>2, <2>3, <2>4, <2>5, <2>6, <2>7
<1>5. CASE /\ MustResolve(p) /\ pc' = "ResolvePrefixIDs"
           /\ job' = [NoJob EXCEPT !.snap = p, !.want = seen]
  <2> HIDE DEF seen, p
  <2>1. job' \in Job /\ job'.snap = p /\ job'.want = seen
    BY <1>1, <1>5, NewPoolIsPool DEF Job
  <2> QED  BY <2>1, <1>1, <1>2, <1>4, <1>5
<1>6. CASE /\ ~MustResolve(p) /\ pc' = "Patch"
           /\ job' = [NoJob EXCEPT !.snap = p, !.want = done.want, !.failed = done.failed]
  <2>1. p.resolved # <<>>  BY <1>6 DEF MustResolve
  <2>2. /\ done.want \in Pool /\ done.failed \in BOOLEAN
        /\ done.want.spec = p.spec /\ done.want.resolved = p.resolved
        /\ done.want.observedGeneration = p.generation /\ done.want.ready # "unset"
    <3> HIDE DEF seen
    <3> QED  BY <1>1, <1>2, ConcludeDecides
  <2> HIDE DEF done, p
  <2>3. job' \in Job /\ job'.snap = p /\ job'.want = done.want
    BY <1>1, <2>2, <1>6, NewPoolIsPool DEF Job
  <2> QED  BY <2>1, <2>2, <2>3, <1>4, <1>6
<1> QED
  <2> HIDE DEF done, seen
  <2>1. \/ UNCHANGED <<pc, job>>
        \/ /\ MustResolve(p) /\ pc' = "ResolvePrefixIDs"
           /\ job' = [NoJob EXCEPT !.snap = p, !.want = seen]
        \/ /\ ~MustResolve(p) /\ pc' = "Patch"
           /\ job' = [NoJob EXCEPT !.snap = p, !.want = done.want, !.failed = done.failed]
    BY DEF Reconcile, done, seen
  <2> QED  BY <2>1, <1>3, <1>5, <1>6

\* A resolution ends with the prefixes it has read, or with some.
LEMMA StatusResolution ==
    ASSUME StatusInvariant, NEW p \in Pool, NEW failed \in BOOLEAN, Resolution(p, failed),
           p.spec = job.want.spec, ValidGateways(p.resolved),
           p.observedGeneration = job.want.observedGeneration,
           failed => p.resolved = job.snap.resolved,
           ~failed => p.resolved # <<>> /\ ResolvesTo(p.spec, IDs(p.resolved)),
           UNCHANGED <<pool, poolCache, netbox, uses, queued, faults, changes>>
    PROVE  StatusInvariant'
<1> DEFINE done == Conclude(p, failed, job.want.allocated)
<1> USE DEF StatusInvariant
<1>1. job \in Job /\ job.want.allocated \in Nat
  BY DEF TypeOK, Job, Pool
<1>2. /\ done.want \in Pool /\ done.failed \in BOOLEAN /\ done.want.spec = p.spec
      /\ done.want.observedGeneration = p.observedGeneration
      /\ done.want.resolved = p.resolved /\ (done.want.ready = "PoolReady" => ~failed)
      /\ done.want.ready # "unset"
  BY <1>1, ConcludeDecides
<1>3. pc' = "Patch" /\ job' = [job EXCEPT !.want = done.want, !.failed = done.failed]
  BY DEF Resolution
<1> HIDE DEF done
<1>4. job' \in Job /\ job'.snap = job.snap /\ job'.want = done.want
  BY <1>1, <1>2, <1>3 DEF Job
<1>5. TypeOK'  BY <1>3, <1>4 DEF TypeOK, uses
<1>6. GenerationIsCounted'  BY <1>2, <1>4 DEF GenerationIsCounted, Copies
<1>7. GatewaysAreValid' /\ Admissible(pool)'
  BY <1>2, <1>4 DEF GatewaysAreValid, Copies, Admissible
<1>8. ReadyHasPrefixes' /\ PrefixesStay'  BY <1>4 DEF ReadyHasPrefixes, PrefixesStay, Copies
<1>9. WorkerHasPrefixes'  BY <1>2, <1>3, <1>4 DEF WorkerHasPrefixes
<1>10. NothingIsStored'
  <2>1. job'.want.ready = "PoolReady" => ResolvesTo(job'.want.spec, IDs(job'.want.resolved))
    BY <1>2, <1>4
  <2> QED  BY <1>4, <2>1 DEF NothingIsStored, ReadyMeansResolved, ResolvesTo, Unset, Copies
<1> QED  BY <1>5, <1>6, <1>7, <1>8, <1>9, <1>10

LEMMA StatusResolveIDs == ASSUME StatusInvariant, ResolveIDs PROVE StatusInvariant'
<1> DEFINE refs == job.want.spec.prefixes
           ids  == ResolvePrefixIDs(netbox.table, refs)
<1> USE DEF StatusInvariant
<1>1. /\ job \in Job /\ job.want \in Pool /\ refs \in Seq(PrefixReference)
      /\ netbox.table \in SUBSET Prefix
  <2>1. job.want.spec \in PoolSpec  BY SpecsAssumption DEF TypeOK, Job, Pool
  <2> QED  BY <2>1, NetBoxesAssumption DEF TypeOK, Job, PoolSpec, NetBox
<1>2. CASE /\ Resolvable(netbox.table, refs) /\ pc' = "GetPrefixDetails"
           /\ job' = [job EXCEPT !.ids = ids]
  <2>1. ids \in Seq(Nat) /\ DOMAIN ids = DOMAIN refs  BY <1>1, <1>2, IDsOfReferences
  <2>6. ResolvesTo(job.want.spec, ids)  BY <1>2 DEF ResolvesTo, TypeOK
  <2> HIDE DEF ids
  <2>2. job' \in Job /\ job'.snap = job.snap /\ job'.want = job.want /\ job'.ids = ids
    BY <1>1, <1>2, <2>1 DEF Job
  <2>3. UNCHANGED <<pool, poolCache, netbox, uses, queued, faults, changes>>  BY DEF ResolveIDs
  <2>4. TypeOK'  BY <1>2, <2>2, <2>3 DEF TypeOK, uses
  <2>5. WorkerHasPrefixes'
    BY <1>2, <2>1, <2>2, <2>6 DEF WorkerHasPrefixes, ResolveIDs, ResolvesTo
  <2>7. NothingIsStored'
    BY <1>2, <2>2, <2>3 DEF NothingIsStored, ReadyMeansResolved, Unset, Copies
  <2> QED  BY <2>2, <2>3, <2>4, <2>5, <2>7 DEF GenerationIsCounted, GatewaysAreValid, Admissible,
                ReadyHasPrefixes, PrefixesStay, Copies
<1>3. CASE Resolution(job.want, TRUE)
  <2>1. job.want.resolved = job.snap.resolved /\ ValidGateways(job.want.resolved)
    BY DEF WorkerHasPrefixes, ResolveIDs, GatewaysAreValid
  <2> QED  BY <1>1, <1>3, <2>1, StatusResolution DEF ResolveIDs
<1> QED  BY <1>2, <1>3 DEF ResolveIDs

LEMMA StatusResolveDetails == ASSUME StatusInvariant, ResolveDetails PROVE StatusInvariant'
<1> DEFINE spec    == job.want.spec
           details == buildResolvedPrefixes(spec, job.ids, netbox.table)
           p       == [job.want EXCEPT !.resolved = details]
<1> USE DEF StatusInvariant
<1>1. /\ job.want \in Pool /\ spec \in PoolSpec /\ spec.prefixes # <<>>
      /\ job.ids \in Seq(Nat) /\ netbox.table \in SUBSET Prefix
  BY SpecsAssumption, NetBoxesAssumption DEF TypeOK, Job, Pool, NetBox
<1>2. DOMAIN job.ids = DOMAIN spec.prefixes /\ ResolvesTo(spec, job.ids)
  BY DEF WorkerHasPrefixes, ResolveDetails
<1>3. UNCHANGED <<pool, poolCache, netbox, uses, queued, faults, changes>>  BY DEF ResolveDetails
<1>4. CASE GatewaysValid(spec, job.ids, netbox.table) /\ Resolution(p, FALSE)
  <2>1. /\ details \in Seq(ResolvedPrefix) /\ ValidGateways(details)
        /\ DOMAIN details = DOMAIN spec.prefixes /\ IDs(details) = job.ids
    BY <1>1, <1>2, <1>4, BuiltPrefixes
  <2>2. details # <<>>
    <3>1. spec.prefixes \in Seq(PrefixReference)  BY <1>1 DEF PoolSpec
    <3> HIDE DEF spec
    <3>2. DOMAIN spec.prefixes # {}
      <4>1. Len(spec.prefixes) # 0  BY <1>1, <3>1, EmptySeq
      <4>2. 1 \in DOMAIN spec.prefixes  BY <3>1, <4>1
      <4> QED  BY <4>2
    <3>3. DOMAIN <<>> = {}  OBVIOUS
    <3> QED  BY <2>1, <3>2, <3>3
  <2> HIDE DEF details
  <2>3. /\ p \in Pool /\ p.spec = job.want.spec /\ p.resolved = details
        /\ p.observedGeneration = job.want.observedGeneration
    BY <1>1, <2>1 DEF Pool
  <2> HIDE DEF p
  <2>4. ResolvesTo(p.spec, IDs(p.resolved))  BY <1>2, <2>1, <2>3
  <2> QED  BY <1>3, <1>4, <2>1, <2>2, <2>3, <2>4, StatusResolution
<1>5. CASE Resolution(job.want, TRUE)
  <2>1. job.want.resolved = job.snap.resolved /\ ValidGateways(job.want.resolved)
    BY DEF WorkerHasPrefixes, ResolveDetails, GatewaysAreValid
  <2> QED  BY <1>1, <1>3, <1>5, <2>1, StatusResolution
<1> QED  BY <1>4, <1>5 DEF ResolveDetails

\* What a write of the pool must leave as it was, and what it may change.
LEMMA StatusWritten ==
    ASSUME StatusInvariant, job' = NoJob, pc' = "idle", queued' \in BOOLEAN,
           pool' \in Pool, pool'.generation = pool.generation,
           pool'.phase = "live" <=> pool.phase = "live",
           pool'.observedGeneration <= pool.generation,
           ValidGateways(pool'.resolved), Admissible(pool'),
           ~StampsConditions => Unset(pool'),
           pool'.ready = "PoolReady" => pool'.resolved # <<>>,
           pool.resolved # <<>> => pool'.resolved # <<>>,
           poolCache' = poolCache \/ (poolCache' = pool' /\ pool' = pool),
           inUseCache' \in SUBSET Users, faults' \in 0..MaxFaults,
           UNCHANGED <<netbox, inUse, changes>>
    PROVE  StatusInvariant'
<1> USE DEF StatusInvariant
<1>1. TypeOK'  BY IdleIsSound DEF TypeOK
<1>2. GenerationIsCounted'
  <2>1. /\ pool'.generation <= changes' + (IF pool'.phase = "live" THEN 1 ELSE 2)
        /\ pool'.observedGeneration <= pool'.generation
    BY DEF GenerationIsCounted
  <2>2. /\ poolCache'.generation <= pool'.generation
        /\ poolCache'.observedGeneration <= poolCache'.generation
    <3>1. CASE poolCache' = poolCache  BY <3>1 DEF GenerationIsCounted, Copies
    <3>2. CASE poolCache' = pool' /\ pool' = pool
      <4>1. pool'.generation \in Nat  BY DEF Pool
      <4> QED  BY <2>1, <3>2, <4>1
    <3> QED  BY <3>1, <3>2
  <2> QED  BY <2>1, <2>2, IdleIsSound DEF GenerationIsCounted, Copies
<1>3. GatewaysAreValid'  BY IdleIsSound DEF GatewaysAreValid, Copies
<1>4. Admissible(pool)' /\ ReadyHasPrefixes'  BY DEF ReadyHasPrefixes, Admissible
<1>5. PrefixesStay'  BY IdleIsSound DEF PrefixesStay, Copies
<1>6. WorkerHasPrefixes'  BY IdleIsSound
<1>7. NothingIsStored'
  <2> SUFFICES ASSUME ~StampsConditions
               PROVE  (\A q \in {pool} \cup Copies : Unset(q))' /\ ReadyMeansResolved'
    BY DEF NothingIsStored
  <2>1. Unset(pool') /\ Unset(job'.snap)  BY IdleIsSound
  <2>2. Unset(poolCache')  BY <2>1 DEF NothingIsStored, Copies
  <2> QED  BY <2>1, <2>2 DEF ReadyMeansResolved, Copies, Unset
<1> QED  BY <1>1, <1>2, <1>3, <1>4, <1>5, <1>6, <1>7

\* The deferred patch leaves the pool alone or applies some of its requests.
PatchWrites ==
    \/ pool' = pool
    \/ \E done \in SUBSET {"metadata", "status"} : pool' = Patched(pool, done)

LEMMA PatchIsAWrite ==
    ASSUME TypeOK, Patch
    PROVE  /\ PatchWrites
           /\ job' = NoJob /\ pc' = "idle" /\ queued' \in BOOLEAN /\ faults' \in 0..MaxFaults
           /\ UNCHANGED <<poolCache, netbox, uses, changes>>
<1>1. job' = NoJob /\ pc' = "idle" /\ queued' \in BOOLEAN
  BY DEF Patch, Finish, TypeOK, Job
<1>2. faults' \in 0..MaxFaults
  <2>1. faults' = faults \/ Fault("patchError")  BY DEF Patch
  <2> QED  BY <2>1, PoolBounds DEF Fault, TypeOK
<1>3. PatchWrites
  <2>1. \/ pool' = pool \/ pool' = Patched(pool, {"metadata", "status"})
        \/ \E done \in SUBSET {"metadata", "status"} : pool' = Patched(pool, done)
    BY DEF Patch
  <2> QED  BY <2>1 DEF PatchWrites
<1> QED  BY <1>1, <1>2, <1>3 DEF Patch

\* What reaches the pool: a finalizer and, if the API server accepts it, the merged status.
LEMMA PatchedPool ==
    ASSUME pool \in Pool, job \in Job, NEW done \in SUBSET {"metadata", "status"}
    PROVE  \E obj \in Pool :
              /\ Patched(pool, done) = Collected(obj)
              /\ obj.phase = pool.phase /\ obj.generation = pool.generation
              /\ obj.spec = pool.spec
              /\ \/ /\ obj.observedGeneration = pool.observedGeneration
                    /\ obj.resolved = pool.resolved /\ obj.ready = pool.ready
                    /\ obj.allocated = pool.allocated
                 \/ /\ obj.observedGeneration = Changed(job.snap.observedGeneration,
                              job.want.observedGeneration, pool.observedGeneration)
                    /\ obj.resolved = Changed(job.snap.resolved, job.want.resolved, pool.resolved)
                    /\ obj.ready = Changed(job.snap.ready, job.want.ready, pool.ready)
                    /\ Admissible(obj)
<1> DEFINE named == IF "metadata" \in done THEN MetadataMerged(pool) ELSE pool
<1>1. /\ named \in Pool /\ named.phase = pool.phase /\ named.generation = pool.generation
      /\ named.spec = pool.spec /\ named.observedGeneration = pool.observedGeneration
      /\ named.resolved = pool.resolved /\ named.ready = pool.ready
      /\ named.allocated = pool.allocated
  <2>1. CASE named = pool  BY <2>1
  <2>2. CASE named = MetadataMerged(pool)
    <3>1. PICK b \in BOOLEAN : named = [pool EXCEPT !.finalizer = b]
      BY <2>2, MetadataMergeKeepsStatus
    <3> HIDE DEF named
    <3> QED  BY <3>1 DEF Pool
  <2> QED  BY <2>1, <2>2
<1>2. Patched(pool, done) = Collected(IF "status" \in done /\ Admissible(StatusMerged(named))
                                      THEN StatusMerged(named) ELSE named)
  BY DEF Patched
<1> HIDE DEF named
<1>3. CASE "status" \in done /\ Admissible(StatusMerged(named))
  BY <1>1, <1>2, <1>3, StatusMergeWritesChanges
<1>4. CASE ~("status" \in done /\ Admissible(StatusMerged(named)))
  BY <1>1, <1>2, <1>4
<1> QED  BY <1>3, <1>4

LEMMA StatusPatch == ASSUME StatusInvariant, Patch PROVE StatusInvariant'
<1> USE DEF StatusInvariant
<1>1. /\ PatchWrites /\ job' = NoJob /\ pc' = "idle" /\ queued' \in BOOLEAN
      /\ faults' \in 0..MaxFaults /\ UNCHANGED <<poolCache, netbox, uses, changes>>
  BY PatchIsAWrite
<1>2. pool \in Pool /\ job \in Job /\ inUseCache' \in SUBSET Users  BY <1>1 DEF TypeOK, uses
<1>3. /\ pool.observedGeneration <= pool.generation
      /\ ValidGateways(pool.resolved) /\ Admissible(pool)
      /\ pool.ready = "PoolReady" => pool.resolved # <<>>
      /\ ~StampsConditions => Unset(pool)
  BY DEF GenerationIsCounted, GatewaysAreValid, ReadyHasPrefixes, NothingIsStored
<1>4. CASE pool' = pool
  BY <1>1, <1>2, <1>3, <1>4, StatusWritten DEF uses
<1>5. ASSUME NEW obj \in Pool, pool' = Collected(obj),
             obj.phase = pool.phase, obj.generation = pool.generation,
             obj.observedGeneration <= pool.generation,
             ValidGateways(obj.resolved), Admissible(obj), ~StampsConditions => Unset(obj),
             obj.ready = "PoolReady" => obj.resolved # <<>>,
             pool.resolved # <<>> => obj.resolved # <<>>
      PROVE  StatusInvariant'
  <2>1. /\ pool' \in Pool /\ (pool'.phase = "live" <=> obj.phase = "live")
        /\ pool'.generation = obj.generation /\ pool'.resolved = obj.resolved
        /\ pool'.observedGeneration = obj.observedGeneration /\ pool'.ready = obj.ready
        /\ pool'.allocated = obj.allocated
    <3>1. CASE Collected(obj) = obj  BY <1>5, <3>1
    <3>2. CASE obj.phase = "deleting" /\ Collected(obj) = [obj EXCEPT !.phase = "gone"]
      BY <1>5, <3>2 DEF Pool
    <3> QED  BY <3>1, <3>2, CollectedKeepsStatus
  <2>2. /\ pool'.phase = "live" <=> pool.phase = "live"
        /\ pool'.generation = pool.generation
        /\ pool'.observedGeneration <= pool.generation
        /\ ValidGateways(pool'.resolved)
        /\ pool'.ready = "PoolReady" => pool'.resolved # <<>>
        /\ pool.resolved # <<>> => pool'.resolved # <<>>
    BY <1>5, <2>1
  <2>3. Admissible(pool') /\ (~StampsConditions => Unset(pool'))
    BY <1>5, <2>1 DEF Admissible, Unset
  <2>4. poolCache' = poolCache /\ UNCHANGED <<netbox, inUse, changes>>  BY <1>1 DEF uses
  <2> QED  BY <1>1, <1>2, <2>1, <2>2, <2>3, <2>4, StatusWritten
<1>6. ASSUME NEW done \in SUBSET {"metadata", "status"}, pool' = Patched(pool, done)
      PROVE  StatusInvariant'
  <2>1. PICK obj \in Pool :
              /\ Patched(pool, done) = Collected(obj)
              /\ obj.phase = pool.phase /\ obj.generation = pool.generation
              /\ \/ /\ obj.observedGeneration = pool.observedGeneration
                    /\ obj.resolved = pool.resolved /\ obj.ready = pool.ready
                    /\ obj.allocated = pool.allocated
                 \/ /\ obj.observedGeneration = Changed(job.snap.observedGeneration,
                              job.want.observedGeneration, pool.observedGeneration)
                    /\ obj.resolved = Changed(job.snap.resolved, job.want.resolved, pool.resolved)
                    /\ obj.ready = Changed(job.snap.ready, job.want.ready, pool.ready)
                    /\ Admissible(obj)
    BY <1>2, PatchedPool
  <2>2. CASE /\ obj.observedGeneration = pool.observedGeneration
             /\ obj.resolved = pool.resolved /\ obj.ready = pool.ready
             /\ obj.allocated = pool.allocated
    <3>1. Admissible(obj) /\ (~StampsConditions => Unset(obj))
      BY <1>3, <2>2 DEF Admissible, Unset
    <3> QED  BY <1>3, <1>5, <1>6, <2>1, <2>2, <3>1
  <2>3. CASE /\ obj.observedGeneration = Changed(job.snap.observedGeneration,
                       job.want.observedGeneration, pool.observedGeneration)
             /\ obj.resolved = Changed(job.snap.resolved, job.want.resolved, pool.resolved)
             /\ obj.ready = Changed(job.snap.ready, job.want.ready, pool.ready)
             /\ Admissible(obj)
    <3>1. pc = "Patch"  BY DEF Patch
    <3>2. obj.observedGeneration <= pool.generation
      BY <1>3, <2>3 DEF Changed, GenerationIsCounted
    <3>3. /\ ValidGateways(obj.resolved)
          /\ pool.resolved # <<>> => obj.resolved # <<>>
      BY <1>3, <2>3, <3>1 DEF Changed, WorkerHasPrefixes, GatewaysAreValid
    <3>4. ASSUME obj.ready = "PoolReady" PROVE obj.resolved # <<>>
      <4>1. CASE job.snap.ready = job.want.ready
        BY <1>3, <2>3, <3>3, <3>4, <4>1 DEF Changed
      <4>2. CASE job.snap.ready # job.want.ready
        <5>1. job.want.resolved # <<>>  BY <2>3, <3>1, <3>4, <4>2 DEF Changed, WorkerHasPrefixes
        <5>2. job.snap.resolved = job.want.resolved => pool.resolved # <<>>
          BY <5>1 DEF PrefixesStay, Copies
        <5> QED  BY <2>3, <5>1, <5>2 DEF Changed
      <4> QED  BY <4>1, <4>2
    <3>5. StampsConditions
      <4> SUFFICES ASSUME ~StampsConditions PROVE FALSE  OBVIOUS
      <4>1. job.snap.ready = "unset" /\ job.want.ready # "unset"
        BY <3>1 DEF NothingIsStored, Unset, Copies, WorkerHasPrefixes
      <4>2. obj.ready = job.want.ready  BY <2>3, <4>1 DEF Changed
      <4> QED  BY <2>3, <4>1, <4>2 DEF Admissible
    <3> QED  BY <1>5, <1>6, <2>1, <2>3, <3>2, <3>3, <3>4, <3>5
  <2> QED  BY <2>1, <2>2, <2>3
<1> QED  BY <1>1, <1>4, <1>6 DEF PatchWrites

\* A restart lists the pool again.
LEMMA StatusCrash == ASSUME StatusInvariant, Crash PROVE StatusInvariant'
<1> USE DEF StatusInvariant
<1>1. /\ job' = NoJob /\ pc' = "idle" /\ queued' \in BOOLEAN
      /\ pool' = pool /\ poolCache' = pool /\ inUseCache' = inUse
      /\ UNCHANGED <<netbox, inUse, changes>>
  BY DEF Crash, Restart
<1>2. faults' \in 0..MaxFaults  BY PoolBounds DEF Crash, Fault, TypeOK
<1>3. pool \in Pool /\ inUse \in SUBSET Users  BY DEF TypeOK
<1> QED  BY <1>1, <1>2, <1>3, StatusWritten DEF GenerationIsCounted, GatewaysAreValid,
              ReadyHasPrefixes, NothingIsStored

\* Nothing that the invariant is about has moved, but NetBox, the queue and the addresses.
LEMMA StatusSame ==
    ASSUME StatusInvariant, TypeOK',
           poolCache' \in {poolCache, pool}, UNCHANGED <<pool, pc, job, changes>>
    PROVE  StatusInvariant'
<1> USE DEF StatusInvariant
<1>1. poolCache' = poolCache \/ poolCache' = pool  OBVIOUS
<1>2. /\ pool'.generation = pool.generation /\ pool'.resolved = pool.resolved
      /\ pool.generation <= pool.generation
  BY DEF TypeOK, Pool
<1>3. GenerationIsCounted'
  BY <1>1, <1>2 DEF GenerationIsCounted, Copies
<1>4. GatewaysAreValid' /\ PrefixesStay'
  BY <1>1, <1>2 DEF GatewaysAreValid, PrefixesStay, Copies
<1>5. Admissible(pool)' /\ ReadyHasPrefixes' /\ WorkerHasPrefixes'
  BY DEF Admissible, ReadyHasPrefixes, WorkerHasPrefixes, ResolvesTo
<1>6. NothingIsStored'
  BY <1>1 DEF NothingIsStored, ReadyMeansResolved, ResolvesTo, Unset, Copies
<1> QED  BY <1>3, <1>4, <1>5, <1>6

\* Users change the pool, but not its status.
LEMMA StatusEdited ==
    ASSUME StatusInvariant, pool' \in Pool, changes' \in 0..MaxChanges,
           pool'.generation >= pool.generation,
           pool'.generation <= changes' + (IF pool'.phase = "live" THEN 1 ELSE 2),
           pool'.resolved = pool.resolved, pool'.ready = pool.ready,
           pool'.observedGeneration = pool.observedGeneration, pool'.allocated = pool.allocated,
           UNCHANGED <<poolCache, netbox, uses, worker, faults>>
    PROVE  StatusInvariant'
<1> USE DEF StatusInvariant
<1>1. TypeOK'  BY DEF TypeOK, uses, worker
<1>2. /\ poolCache' = poolCache /\ job' = job /\ pc' = pc
      /\ pool.generation \in Nat /\ pool'.generation \in Nat
      /\ pool.observedGeneration \in Nat /\ job.want.observedGeneration \in Nat
      /\ \A p \in Copies : p.generation \in Nat /\ p.observedGeneration \in Nat
  <2>1. \A p \in Pool : p.generation \in Nat /\ p.observedGeneration \in Nat
    BY PoolBounds DEF Pool
  <2>2. pool \in Pool /\ job.want \in Pool /\ \A p \in Copies : p \in Pool
    BY DEF TypeOK, Copies, Job
  <2> QED  BY <2>1, <2>2 DEF uses, worker
<1>3. GenerationIsCounted'
  BY <1>2 DEF GenerationIsCounted, Copies
<1>4. GatewaysAreValid' /\ PrefixesStay' /\ WorkerHasPrefixes'
  BY <1>2 DEF GatewaysAreValid, PrefixesStay, WorkerHasPrefixes, ResolvesTo, Copies
<1>5. Admissible(pool)' /\ ReadyHasPrefixes'
  BY DEF Admissible, ReadyHasPrefixes
<1>6. NothingIsStored'
  BY <1>2 DEF NothingIsStored, ReadyMeansResolved, ResolvesTo, Unset, Copies
<1> QED  BY <1>1, <1>3, <1>4, <1>5, <1>6

LEMMA StatusEditSpec == ASSUME StatusInvariant, EditSpec PROVE StatusInvariant'
<1>1. PICK s \in Specs : pool' = [pool EXCEPT !.spec = s, !.generation = @ + 1]
  BY DEF EditSpec
<1>2. /\ changes < MaxChanges /\ changes' = changes + 1
      /\ UNCHANGED <<poolCache, netbox, uses, worker, faults>>
  BY DEF EditSpec, Change
<1>3. /\ pool \in Pool /\ changes \in 0..MaxChanges
      /\ pool.generation <= changes + (IF pool.phase = "live" THEN 1 ELSE 2)
  BY DEF StatusInvariant, TypeOK, GenerationIsCounted
<1>4. pool.generation + 1 \in 1..(MaxChanges + 2)  BY <1>2, <1>3, PoolBounds DEF Pool
<1>5. pool' \in Pool  BY <1>1, <1>3, <1>4 DEF Pool
<1>6. /\ pool'.generation = pool.generation + 1 /\ pool'.phase = pool.phase
      /\ pool'.resolved = pool.resolved /\ pool'.ready = pool.ready
      /\ pool'.observedGeneration = pool.observedGeneration /\ pool'.allocated = pool.allocated
  BY <1>1, <1>3 DEF Pool
<1>7. /\ pool'.generation >= pool.generation
      /\ pool'.generation <= changes' + (IF pool'.phase = "live" THEN 1 ELSE 2)
      /\ changes' \in 0..MaxChanges
  BY <1>2, <1>3, <1>4, <1>6, PoolBounds DEF Pool
<1> QED  BY <1>2, <1>5, <1>6, <1>7, StatusEdited

LEMMA StatusSetPaused == ASSUME StatusInvariant, SetPaused PROVE StatusInvariant'
<1>1. /\ pool' = [pool EXCEPT !.paused = ~@]
      /\ changes < MaxChanges /\ changes' = changes + 1
      /\ UNCHANGED <<poolCache, netbox, uses, worker, faults>>
  BY DEF SetPaused, Change
<1>2. /\ pool \in Pool /\ changes \in 0..MaxChanges
      /\ pool.generation <= changes + (IF pool.phase = "live" THEN 1 ELSE 2)
  BY DEF StatusInvariant, TypeOK, GenerationIsCounted
<1>3. pool' \in Pool  BY <1>1, <1>2 DEF Pool
<1>4. /\ pool'.generation = pool.generation /\ pool'.phase = pool.phase
      /\ pool'.resolved = pool.resolved /\ pool'.ready = pool.ready
      /\ pool'.observedGeneration = pool.observedGeneration /\ pool'.allocated = pool.allocated
  BY <1>1, <1>2 DEF Pool
<1>5. /\ pool'.generation >= pool.generation
      /\ pool'.generation <= changes' + (IF pool'.phase = "live" THEN 1 ELSE 2)
      /\ changes' \in 0..MaxChanges
  BY <1>1, <1>2, <1>4, PoolBounds DEF Pool
<1> QED  BY <1>1, <1>3, <1>4, <1>5, StatusEdited

LEMMA StatusDeletePool == ASSUME StatusInvariant, DeletePool PROVE StatusInvariant'
<1> DEFINE marked == [pool EXCEPT !.phase = "deleting", !.generation = @ + 1]
<1>1. /\ pool.phase = "live" /\ pool' = Collected(marked) /\ changes' = changes
      /\ UNCHANGED <<poolCache, netbox, uses, worker, faults>>
  BY DEF DeletePool
<1>2. /\ pool \in Pool /\ changes \in 0..MaxChanges /\ pool.generation <= changes + 1
  BY <1>1 DEF StatusInvariant, TypeOK, GenerationIsCounted
<1>3. pool.generation + 1 \in 1..(MaxChanges + 2)  BY <1>2, PoolBounds DEF Pool
<1>4. /\ marked \in Pool /\ marked.generation = pool.generation + 1 /\ marked.phase = "deleting"
      /\ marked.resolved = pool.resolved /\ marked.ready = pool.ready
      /\ marked.observedGeneration = pool.observedGeneration /\ marked.allocated = pool.allocated
  BY <1>2, <1>3 DEF Pool
<1> HIDE DEF marked
<1>5. /\ pool' \in Pool /\ pool'.phase # "live"
      /\ pool'.generation = pool.generation + 1
      /\ pool'.resolved = pool.resolved /\ pool'.ready = pool.ready
      /\ pool'.observedGeneration = pool.observedGeneration /\ pool'.allocated = pool.allocated
  <2>1. CASE Collected(marked) = marked  BY <1>1, <1>4, <2>1
  <2>2. CASE Collected(marked) = [marked EXCEPT !.phase = "gone"]  BY <1>1, <1>4, <2>2 DEF Pool
  <2> QED  BY <1>4, <2>1, <2>2, CollectedKeepsStatus
<1>6. /\ pool'.generation >= pool.generation
      /\ pool'.generation <= changes' + (IF pool'.phase = "live" THEN 1 ELSE 2)
      /\ changes' \in 0..MaxChanges
  BY <1>1, <1>2, <1>3, <1>5, PoolBounds DEF Pool
<1> QED  BY <1>1, <1>5, <1>6, StatusEdited

\* The informers and NetBox.
LEMMA StatusInformer ==
    ASSUME StatusInvariant, SyncPool \/ SyncAddresses \/ Resync \/ ChangeNetBox
    PROVE  StatusInvariant'
<1>1. TypeOK  BY DEF StatusInvariant
<1>2. TypeOK' /\ poolCache' \in {poolCache, pool} /\ UNCHANGED <<pool, pc, job, changes>>
  <2>1. CASE SyncPool  BY <1>1, <2>1 DEF SyncPool, TypeOK, uses
  <2>2. CASE SyncAddresses  BY <1>1, <2>2 DEF SyncAddresses, TypeOK, worker
  <2>3. CASE Resync  BY <1>1, <2>3 DEF Resync, TypeOK, uses
  <2>4. CASE ChangeNetBox  BY <1>1, <2>4 DEF ChangeNetBox, TypeOK, uses, worker
  <2> QED  BY <2>1, <2>2, <2>3, <2>4
<1> QED  BY <1>2, StatusSame

\* The claim controller creates and deletes IPAddresses.
LEMMA StatusUsers ==
    ASSUME StatusInvariant, NEW u \in Users, UseAddress(u) \/ FreeAddress(u)
    PROVE  StatusInvariant'
<1>1. /\ UNCHANGED <<pool, poolCache, netbox, inUseCache, worker, faults>>
      /\ inUse' \in SUBSET Users
  BY DEF UseAddress, FreeAddress, StatusInvariant, TypeOK
<1>2. changes' \in 0..MaxChanges /\ changes' >= changes
  <2>1. changes \in 0..MaxChanges  BY DEF StatusInvariant, TypeOK
  <2> QED  BY <2>1, PoolBounds DEF UseAddress, FreeAddress, Change
<1> USE DEF StatusInvariant
<1>3. TypeOK'  BY <1>1, <1>2 DEF TypeOK, worker
<1>4. pool.generation \in Nat /\ changes \in Nat /\ changes' \in Nat
  BY <1>2, PoolBounds DEF TypeOK, Pool
<1>5. GenerationIsCounted'
  BY <1>1, <1>2, <1>4 DEF GenerationIsCounted, Copies, worker
<1>6. WorkerHasPrefixes' /\ NothingIsStored'
  BY <1>1 DEF WorkerHasPrefixes, NothingIsStored, ReadyMeansResolved, ResolvesTo, Unset, Copies,
              worker
<1> QED  BY <1>1, <1>3, <1>5, <1>6 DEF GatewaysAreValid, PrefixesStay, Admissible,
              ReadyHasPrefixes, Copies, worker

LEMMA StatusStep == StatusInvariant /\ [Next]_vars => StatusInvariant'
<1> SUFFICES ASSUME StatusInvariant, [Next]_vars PROVE StatusInvariant'  OBVIOUS
<1>1. CASE UNCHANGED vars
  <2>1. TypeOK'  BY <1>1 DEF StatusInvariant, TypeOK, vars, uses, worker
  <2> QED  BY <1>1, <2>1, StatusSame DEF vars, worker
<1>2. CASE Next
  BY <1>2, StatusReconcile, StatusResolveIDs, StatusResolveDetails, StatusPatch, StatusCrash,
     StatusInformer, StatusEditSpec, StatusSetPaused, StatusDeletePool, StatusUsers DEF Next
<1> QED  BY <1>1, <1>2

\* The prefixes, gateways, generations and the worker's copies fit together, whatever users,
\* NetBox and the Secret do, however far the caches lag and wherever a reconcile is cut off,
\* with conditions as the program builds them and with complete ones.
THEOREM StatusInvariantHolds == Spec => []StatusInvariant
<1>1. Init => StatusInvariant  BY StatusInit
<1>2. StatusInvariant /\ [Next]_vars => StatusInvariant'  BY StatusStep
<1> QED  BY <1>1, <1>2, PTL DEF Spec

\* The state of the pool controller stays well formed: in particular generations and the
\* allocated count stay within their bounds.
THEOREM TypeCorrect == Spec => []TypeOK
<1>1. StatusInvariant => TypeOK  BY DEF StatusInvariant
<1> QED  BY <1>1, StatusInvariantHolds, PTL

\* The program as it is: setPoolReadyCondition and setConditionFalse leave out the
\* lastTransitionTime, and so no prefix, count, generation or condition ever reaches the status
\* of a pool, whatever order its reconciles, edits, failures and restarts come in.
THEOREM StatusIsNeverStored ==
    ASSUME ~StampsConditions
    PROVE  Spec => []Unset(pool)
<1>1. StatusInvariant => Unset(pool)  BY DEF StatusInvariant, NothingIsStored
<1> QED  BY <1>1, StatusInvariantHolds, PTL

\* The program as it is: a reconcile that concludes that the pool is ready has resolved the spec
\* that it has read, also when the spec is edited, NetBox changes between the requests, and
\* earlier resolutions have failed.
THEOREM ReadyFollowsTheSpec ==
    ASSUME ~StampsConditions
    PROVE  Spec => []ReadyMeansResolved
<1>1. StatusInvariant => ReadyMeansResolved  BY DEF StatusInvariant, NothingIsStored
<1> QED  BY <1>1, StatusInvariantHolds, PTL

\* For complete conditions: a stored Ready comes with some prefixes, also after failed
\* resolutions, half-applied patches and patches computed from an old copy of the pool.
THEOREM ReadyPoolsHavePrefixes ==
    ASSUME StampsConditions
    PROVE  Spec => []ReadyHasPrefixes
<1>1. StatusInvariant => ReadyHasPrefixes  BY DEF StatusInvariant
<1> QED  BY <1>1, StatusInvariantHolds, PTL

-----------------------------------------------------------------------------
(* Both ways to a gateway agree.                                           *)

\* In prefixes with disjoint ranges, of which those with one ID have one range, an address of
\* the i-th has its gateway, by ID as well as by address.
LEMMA GatewaysAgree ==
    ASSUME NEW details \in Seq(ResolvedPrefix), Disjoint(details), ValidGateways(details),
           \A j, k \in DOMAIN details :
               details[j].id = details[k].id => details[j].cidr = details[k].cidr,
           NEW i \in DOMAIN details, NEW ip \in Hosts(details[i].cidr)
    PROVE  /\ gatewayForPrefixID(details, details[i].id) = details[i].gateway
           /\ gatewayForAddress(details, ip) = details[i].gateway
           /\ details[i].gateway.family \in {"none", ip.family}
<1> DEFINE byID      == {j \in DOMAIN details : details[j].id = details[i].id}
           byAddress == {j \in DOMAIN details :
                            details[j].gateway # Blank /\ Contains(details[j].cidr, ip)}
<1>1. DOMAIN details \subseteq Nat  OBVIOUS
<1>2. First({i}) = i  BY <1>1 DEF First
<1>3. byID = {i}
  <2>1. ASSUME NEW j \in DOMAIN details, details[j].id = details[i].id PROVE j = i
    <3>1. ip \in Hosts(details[j].cidr) /\ ip \in Hosts(details[i].cidr)  BY <2>1
    <3> QED  BY <3>1 DEF Disjoint
  <2> QED  BY <2>1
<1>4. gatewayForPrefixID(details, details[i].id) = details[i].gateway
  BY <1>2, <1>3 DEF gatewayForPrefixID
<1>5. ip.family = details[i].cidr.family /\ ip.host \in details[i].cidr.first..details[i].cidr.last
  BY DEF Hosts
<1>6. ASSUME NEW j \in DOMAIN details, Contains(details[j].cidr, ip) PROVE j = i
  <2>1. ip \in Hosts(details[j].cidr)
    <3>1. PICK h \in details[i].cidr.first..details[i].cidr.last :
             ip = [family |-> details[i].cidr.family, host |-> h]
      BY DEF Hosts
    <3>2. ip = [family |-> details[j].cidr.family, host |-> h]
          /\ h \in details[j].cidr.first..details[j].cidr.last
      BY <1>6, <3>1 DEF Contains
    <3> QED  BY <3>2 DEF Hosts
  <2> QED  BY <2>1 DEF Disjoint
<1>7. Contains(details[i].cidr, ip)  BY <1>5 DEF Contains
<1>8. gatewayForAddress(details, ip) = details[i].gateway
  <2>1. CASE details[i].gateway = Blank
    <3>1. byAddress = {}  BY <1>6, <2>1
    <3> QED  BY <2>1, <3>1 DEF gatewayForAddress
  <2>2. CASE details[i].gateway # Blank
    <3>1. byAddress = {i}  BY <1>6, <1>7, <2>2
    <3> QED  BY <1>2, <3>1 DEF gatewayForAddress
  <2> QED  BY <2>1, <2>2
<1>9. details[i].gateway.family \in {"none", ip.family}
  <2>1. GatewayValid(details[i].cidr, details[i].gateway)  BY DEF ValidGateways
  <2> QED  BY <2>1, <1>5 DEF GatewayValid, Blank
<1> QED  BY <1>4, <1>8, <1>9

\* gatewayDetails gives valid prefixes, whether they are cached or looked up.
LEMMA DetailsAreSound ==
    ASSUME NEW cached \in Seq(ResolvedPrefix), ValidGateways(cached), Distinct(cached),
           NEW ids \in Seq(Nat), NEW spec \in PoolSpec, NEW n \in NetBox,
           ids # <<>> => DOMAIN ids = DOMAIN spec.prefixes
    PROVE  LET details == gatewayDetails(cached, ids, spec, n)
           IN  /\ details \in Seq(ResolvedPrefix) /\ ValidGateways(details)
               /\ \A j, k \in DOMAIN details :
                     details[j].id = details[k].id => details[j].cidr = details[k].cidr
<1> DEFINE live  == IF ids # <<>> THEN ids ELSE ResolvePrefixIDs(n.table, spec.prefixes)
           found == /\ n.up
                    /\ ids = <<>> => Resolvable(n.table, spec.prefixes)
                    /\ GatewaysValid(spec, live, n.table)
           built == buildResolvedPrefixes(spec, live, n.table)
           details == gatewayDetails(cached, ids, spec, n)
<1>1. CASE cached # <<>>
  <2>1. details = cached  BY <1>1 DEF gatewayDetails
  <2> QED  BY <2>1 DEF Distinct
<1>2. CASE cached = <<>> /\ found
  <2>1. details = built  BY <1>2 DEF gatewayDetails
  <2>2. n.table \in SUBSET Prefix /\ spec.prefixes \in Seq(PrefixReference)
    BY DEF NetBox, PoolSpec
  <2>3. live \in Seq(Nat) /\ DOMAIN live = DOMAIN spec.prefixes
    <3>1. CASE ids # <<>>  BY <3>1
    <3>2. CASE ids = <<>>  BY <1>2, <2>2, <3>2, IDsOfReferences
    <3> QED  BY <3>1, <3>2
  <2>4. GatewaysValid(spec, live, n.table)  BY <1>2
  <2> HIDE DEF live, found
  <2>5. built \in Seq(ResolvedPrefix) /\ ValidGateways(built)  BY <2>2, <2>3, <2>4, BuiltPrefixes
  <2>6. \A j, k \in DOMAIN built : built[j].id = built[k].id => built[j].cidr = built[k].cidr
    BY DEF buildResolvedPrefixes
  <2> HIDE DEF built, details
  <2> QED  BY <2>1, <2>5, <2>6 DEF details
<1>3. CASE cached = <<>> /\ ~found
  <2>1. details = <<>>  BY <1>3 DEF gatewayDetails
  <2> QED  BY <2>1 DEF ValidGateways
<1> QED  BY <1>1, <1>2, <1>3

\* As long as the prefixes do not overlap, gatewayForPrefixID and gatewayForAddress give an
\* address the same gateway, one of the address's own family: a claim whose reply was lost gets
\* the gateway that it would have got at once.
THEOREM GatewaysAreRecovered == Spec => []GatewayIsRecovered
<1>1. StatusInvariant => GatewayIsRecovered
  <2> DEFINE refs == pool.spec.prefixes
             from == {<<>>} \cup {ResolvePrefixIDs(n.table, refs) :
                         n \in {m \in NetBoxes : Resolvable(m.table, refs)}}
  <2> SUFFICES ASSUME StatusInvariant, NEW ids \in from,
                      Disjoint(gatewayDetails(pool.resolved, ids, pool.spec, netbox))
               PROVE  LET details == gatewayDetails(pool.resolved, ids, pool.spec, netbox)
                      IN  \A i \in DOMAIN details : \A ip \in Hosts(details[i].cidr) :
                             LET gateway == gatewayForAddress(details, ip)
                             IN  /\ gateway = gatewayForPrefixID(details, details[i].id)
                                 /\ gateway.family \in {"none", ip.family}
    BY DEF GatewayIsRecovered
  <2>1. /\ pool.resolved \in Seq(ResolvedPrefix) /\ Distinct(pool.resolved)
        /\ ValidGateways(pool.resolved)
        /\ pool.spec \in PoolSpec /\ netbox \in NetBox /\ refs \in Seq(PrefixReference)
    BY SpecsAssumption, NetBoxesAssumption
       DEF StatusInvariant, TypeOK, Pool, GatewaysAreValid, Admissible, PoolSpec
  <2>2. ids \in Seq(Nat) /\ (ids # <<>> => DOMAIN ids = DOMAIN refs)
    <3>1. CASE ids = <<>>  BY <3>1
    <3>2. CASE ids # <<>>
      <4>1. PICK m \in NetBoxes : Resolvable(m.table, refs) /\ ids = ResolvePrefixIDs(m.table, refs)
        BY <3>2
      <4>2. m.table \in SUBSET Prefix  BY NetBoxesAssumption DEF NetBox
      <4> QED  BY <2>1, <4>1, <4>2, IDsOfReferences
    <3> QED  BY <3>1, <3>2
  <2> DEFINE details == gatewayDetails(pool.resolved, ids, pool.spec, netbox)
  <2>3. /\ details \in Seq(ResolvedPrefix) /\ ValidGateways(details)
        /\ \A j, k \in DOMAIN details :
              details[j].id = details[k].id => details[j].cidr = details[k].cidr
    BY <2>1, <2>2, DetailsAreSound
  <2>4. Disjoint(details)  OBVIOUS
  <2> HIDE DEF details
  <2>5. ASSUME NEW i \in DOMAIN details, NEW ip \in Hosts(details[i].cidr)
        PROVE  /\ gatewayForAddress(details, ip) = gatewayForPrefixID(details, details[i].id)
               /\ gatewayForAddress(details, ip).family \in {"none", ip.family}
    BY <2>3, <2>4, <2>5, GatewaysAgree
  <2> QED  BY <2>5 DEF details
<1> QED  BY <1>1, StatusInvariantHolds, PTL
=============================================================================
