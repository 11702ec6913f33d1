--------------------------- MODULE PoolController ---------------------------
(***************************************************************************)
(* The pool controllers: NetBoxIPPoolReconciler and                        *)
(* GlobalNetBoxIPPoolReconciler are one reconcilePoolStatus                *)
(* (internal/controller/pool_controller.go) over two kinds of object, so   *)
(* one pool object stands for either.  A reconcile reads the pool and the  *)
(* IPAddresses that reference it from the informer caches, resolves the    *)
(* configured prefixes in NetBox when it believes the spec has changed,    *)
(* and patches what it changed in its copy of the pool.                    *)
(***************************************************************************)
EXTENDS PrefixResolution

CONSTANTS
    Users,          \* the IPAddresses that may reference the pool
    Specs,          \* the specs users may write
    FirstSpec,      \* the one the pool is created with
    MayLag,         \* bound: a reconcile may start on a cache that lags behind the pool
    NetBoxes,       \* the states in which NetBox and the connection Secret may be
    StampsConditions, \* conditions carry a lastTransitionTime: the program's do not
    MaxChanges,     \* bound: edits of the pool, pauses and IPAddresses created
    MaxFaults,      \* bound: failing patches and restarts
    Faults          \* the kinds of fault a behaviour may contain

ASSUME PoolBounds == MayLag \in BOOLEAN /\ MaxChanges \in Nat /\ MaxFaults \in Nat
ASSUME ConditionsAssumption == StampsConditions \in BOOLEAN
ASSUME UsersAreFinite == IsFiniteSet(Users)
ASSUME PoolFaults == Faults \subseteq {"patchError", "crash"}
ASSUME SpecsAssumption == /\ Specs \subseteq PoolSpec /\ FirstSpec \in Specs
                          /\ \A s \in Specs : s.prefixes # <<>>
ASSUME NetBoxesAssumption == NetBoxes \subseteq NetBox

VARIABLES
    pool,       \* the pool object in the Kubernetes API
    poolCache,  \* the pool in the informer cache
    netbox,     \* NetBox's prefixes and whether it answers, and the connection Secret
    inUse,      \* the IPAddresses that reference the pool, in the API
    inUseCache, \* the same in the informer cache
    queued,     \* the pool is in the work queue
    pc,         \* the next call of the worker
    job,        \* the worker's local variables
    faults,     \* faults so far
    changes     \* changes by users and the claim controller so far

uses   == <<inUse, inUseCache>>
worker == <<queued, pc, job>>
vars == <<pool, poolCache, netbox, uses, worker, faults, changes>>

\* Reason of the pool's Ready condition; only "PoolReady" has status True.
ReadyReasons == {"unset", "PoolReady", "PrefixResolutionFailed", "DeletionBlocked"}

Pool == [phase      : {"live", "deleting", "gone"},
         paused     : BOOLEAN,
         generation : 1..(MaxChanges + 2),
         spec       : Specs,
         finalizer  : BOOLEAN,
         observedGeneration : 0..(MaxChanges + 2),
         resolved   : Seq(ResolvedPrefix),
         ready      : ReadyReasons,
         allocated  : 0..Cardinality(Users)]

Job == [snap : Pool, want : Pool, ids : Seq(Nat), failed : BOOLEAN]

NewPool == [phase |-> "live", paused |-> FALSE, generation |-> 1, spec |-> FirstSpec,
            finalizer |-> FALSE, observedGeneration |-> 0, resolved |-> <<>>,
            ready |-> "unset", allocated |-> 0]
NoJob == [snap |-> NewPool, want |-> NewPool, ids |-> <<>>, failed |-> FALSE]

TypeOK ==
    /\ pool \in Pool
    /\ poolCache \in Pool
    /\ netbox \in NetBoxes
    /\ inUse \subseteq Users
    /\ inUseCache \subseteq Users
    /\ queued \in BOOLEAN
    /\ pc \in {"idle", "ResolvePrefixIDs", "GetPrefixDetails", "Patch"}
    /\ job \in Job
    /\ faults \in 0..MaxFaults
    /\ changes \in 0..MaxChanges

Init ==
    /\ pool = NewPool
    /\ poolCache = NewPool
    /\ netbox \in NetBoxes
    /\ inUse = {}
    /\ inUseCache = {}
    /\ queued = TRUE
    /\ pc = "idle"
    /\ job = NoJob
    /\ faults = 0
    /\ changes = 0

Fault(kind) ==
    /\ kind \in Faults
    /\ faults < MaxFaults
    /\ faults' = faults + 1

-----------------------------------------------------------------------------
(* reconcilePoolStatus.                                                    *)

(* Faulty variants of the operators below: a failed resolution leaves the  *)
(* pool Ready; a deleted pool waits for NetBox; the condition is written   *)
(* only once; the allocated count is never refreshed, or off by one.        *)

ReadyReasonIgnoresFailure(resolveFailed) == "PoolReady"

ConcludeAwaitsNetBox(p, resolveFailed, addressesInUse) ==
    [want   |-> [p EXCEPT !.ready = IF resolveFailed THEN "PrefixResolutionFailed" ELSE "PoolReady",
                          !.finalizer = p.phase = "live" \/ resolveFailed \/ addressesInUse > 0],
     failed |-> resolveFailed \/ (p.phase = "deleting" /\ addressesInUse > 0)]

ConcludeKeepsFailure(p, resolveFailed, addressesInUse) ==
    [want   |-> [p EXCEPT !.ready = IF p.ready # "unset" THEN @
                                    ELSE IF resolveFailed THEN "PrefixResolutionFailed" ELSE "PoolReady",
                          !.finalizer = p.phase = "live" \/ addressesInUse > 0],
     failed |-> resolveFailed \/ (p.phase = "deleting" /\ addressesInUse > 0)]

AllocatedIsStale == poolCache.allocated

AllocatedOffByOne == Cardinality(inUseCache) + 1

-----------------------------------------------------------------------------

\* setPoolReadyCondition.
ReadyReason(resolveFailed) == IF resolveFailed THEN "PrefixResolutionFailed" ELSE "PoolReady"

\* What follows the resolution: the condition, then finalizer and deletion.  A failed
\* resolution is returned as an error only while the pool is not being deleted.
Conclude(p, resolveFailed, addressesInUse) ==
    LET checked == [p EXCEPT !.ready = ReadyReason(resolveFailed)]
    IN  CASE p.phase = "live" ->
                [want |-> [checked EXCEPT !.finalizer = TRUE], failed |-> resolveFailed]
          [] p.phase = "deleting" /\ addressesInUse > 0 ->
                [want |-> [checked EXCEPT !.ready = "DeletionBlocked"], failed |-> TRUE]
          [] OTHER ->
                [want |-> [checked EXCEPT !.finalizer = FALSE], failed |-> FALSE]

\* Prefixes are resolved again only if none are cached or the generation has moved.
MustResolve(p) == p.resolved = <<>> \/ p.observedGeneration # p.generation

\* listAddressesInUse, counted.
AddressesInUse == Cardinality(inUseCache)

\* Reconcile up to the resolution: the pool and its addresses are read from the caches, and
\* observedGeneration and the allocated count are set before anything can fail.
Reconcile ==
    /\ pc = "idle"
    /\ queued
    /\ MayLag \/ poolCache = pool
    /\ queued' = FALSE
    /\ LET p    == poolCache
           seen == [p EXCEPT !.observedGeneration = p.generation, !.allocated = AddressesInUse]
           done == Conclude(seen, FALSE, AddressesInUse)
       IN  \/ p.phase = "gone" /\ UNCHANGED <<pc, job>>
           \/ /\ p.phase # "gone" /\ MustResolve(p)
              /\ pc' = "ResolvePrefixIDs"
              /\ job' = [NoJob EXCEPT !.snap = p, !.want = seen]
           \/ /\ p.phase # "gone" /\ ~MustResolve(p)
              /\ pc' = "Patch"
              /\ job' = [NoJob EXCEPT !.snap = p, !.want = done.want, !.failed = done.failed]
    /\ UNCHANGED <<pool, poolCache, netbox, uses, faults, changes>>

\* The end of resolvePoolPrefixes, with or without an error.
Resolution(p, failed) ==
    LET done == Conclude(p, failed, job.want.allocated)
    IN  /\ pc' = "Patch"
        /\ job' = [job EXCEPT !.want = done.want, !.failed = done.failed]

\* resolvePoolPrefixes up to the IDs: the Secret is read, then the prefixes.
ResolveIDs ==
    /\ pc = "ResolvePrefixIDs"
    /\ LET refs == job.want.spec.prefixes
           ok   == Answers(netbox) /\ Resolvable(netbox.table, refs)
       IN  \/ /\ ok
              /\ pc' = "GetPrefixDetails"
              /\ job' = [job EXCEPT !.ids = ResolvePrefixIDs(netbox.table, refs)]
           \/ ~ok /\ Resolution(job.want, TRUE)
    /\ UNCHANGED <<pool, poolCache, netbox, uses, queued, faults, changes>>

\* resolvePrefixDetails, by a request of its own.  Only a resolution that succeeds to the end
\* changes the status.
ResolveDetails ==
    /\ pc = "GetPrefixDetails"
    /\ LET spec == job.want.spec
           ok   == netbox.up /\ GatewaysValid(spec, job.ids, netbox.table)
       IN  \/ /\ ok
              /\ LET details == buildResolvedPrefixes(spec, job.ids, netbox.table)
                 IN  Resolution([job.want EXCEPT !.resolved = details], FALSE)
           \/ ~ok /\ Resolution(job.want, TRUE)
    /\ UNCHANGED <<pool, poolCache, netbox, uses, queued, faults, changes>>

\* The deferred merge patch: the fields the reconcile changed, in two requests.
Changed(old, new, current) == IF old = new THEN current ELSE new

MetadataMerged(obj) ==
    [obj EXCEPT !.finalizer = Changed(job.snap.finalizer, job.want.finalizer, @)]

StatusMerged(obj) ==
    [obj EXCEPT
        !.observedGeneration = Changed(job.snap.observedGeneration, job.want.observedGeneration, @),
        !.resolved  = Changed(job.snap.resolved, job.want.resolved, @),
        !.ready     = Changed(job.snap.ready, job.want.ready, @),
        !.allocated = Changed(job.snap.allocated, job.want.allocated, @)]

Collected(obj) == IF obj.phase = "deleting" /\ ~obj.finalizer THEN [obj EXCEPT !.phase = "gone"] ELSE obj

\* The CRD requires a condition to have a lastTransitionTime, and the IDs in
\* resolvedPrefixDetails to differ: the API server rejects any other status as a whole.
Admissible(p) ==
    /\ p.ready = "unset" \/ StampsConditions
    /\ Distinct(p.resolved)

\* The pool after the requests in done have been applied, in this order.
Patched(obj, done) ==
    LET named == IF "metadata" \in done THEN MetadataMerged(obj) ELSE obj
    IN  Collected(IF "status" \in done /\ Admissible(StatusMerged(named))
                  THEN StatusMerged(named) ELSE named)

\* A reconcile that returns an error is queued again.
Finish(failed) ==
    /\ pc' = "idle"
    /\ job' = NoJob
    /\ queued' = (queued \/ failed)

\* The helper sends both requests whatever becomes of the first, and returns an error if one has
\* failed, except for the status of a pool that the first one has let go.
Patch ==
    /\ pc = "Patch"
    /\ \/ job.want = job.snap /\ Finish(job.failed) /\ UNCHANGED <<pool, faults>>
       \/ job.want # job.snap /\ pool.phase = "gone" /\ Finish(TRUE) /\ UNCHANGED <<pool, faults>>
       \/ /\ job.want # job.snap /\ pool.phase # "gone"
          /\ LET refused == ~Admissible(StatusMerged(pool))
             IN  /\ pool' = Patched(pool, {"metadata", "status"})
                 /\ Finish(job.failed \/ (refused /\ pool'.phase # "gone"))
          /\ UNCHANGED faults
       \/ /\ job.want # job.snap /\ pool.phase # "gone"
          /\ \E done \in SUBSET {"metadata", "status"} : pool' = Patched(pool, done)
          /\ Finish(TRUE) /\ Fault("patchError")
    /\ UNCHANGED <<poolCache, netbox, uses, changes>>

\* The manager restarts: the informers list the API again and queue the pool.
Restart ==
    /\ pc' = "idle"
    /\ job' = NoJob
    /\ poolCache' = pool
    /\ inUseCache' = inUse
    /\ queued' = (pool.phase # "gone" /\ ~pool.paused)
    /\ UNCHANGED <<pool, netbox, inUse>>

Crash == Restart /\ Fault("crash") /\ UNCHANGED changes

-----------------------------------------------------------------------------
(* Informers.  The For predicate drops the events of a paused pool.  The   *)
(* pool is not the controlling owner of its IPAddresses, so Owns maps none *)
(* of their events to it.                                                  *)

SyncPool ==
    /\ poolCache # pool
    /\ poolCache' = pool
    /\ queued' = (queued \/ ~pool.paused)
    /\ UNCHANGED <<pool, netbox, uses, pc, job, faults, changes>>

SyncAddresses ==
    /\ inUseCache # inUse
    /\ inUseCache' = inUse
    /\ UNCHANGED <<pool, poolCache, netbox, inUse, worker, faults, changes>>

Resync ==
    /\ ~queued /\ poolCache.phase # "gone" /\ ~poolCache.paused
    /\ queued' = TRUE
    /\ UNCHANGED <<pool, poolCache, netbox, uses, pc, job, faults, changes>>

-----------------------------------------------------------------------------
(* Users, NetBox and the claim controller.                                 *)

Change == changes < MaxChanges /\ changes' = changes + 1

EditSpec ==
    /\ pool.phase # "gone"
    /\ Change
    /\ \E s \in Specs \ {pool.spec} : pool' = [pool EXCEPT !.spec = s, !.generation = @ + 1]
    /\ UNCHANGED <<poolCache, netbox, uses, worker, faults>>

\* The paused annotation is metadata: the generation stays.
SetPaused ==
    /\ pool.phase # "gone"
    /\ Change
    /\ pool' = [pool EXCEPT !.paused = ~@]
    /\ UNCHANGED <<poolCache, netbox, uses, worker, faults>>

\* The deletion timestamp moves the generation.
DeletePool ==
    /\ pool.phase = "live"
    /\ pool' = Collected([pool EXCEPT !.phase = "deleting", !.generation = @ + 1])
    /\ UNCHANGED <<poolCache, netbox, uses, worker, faults, changes>>

\* NetBox goes down or comes back, its prefixes or the Secret are edited.
ChangeNetBox ==
    /\ \E n \in NetBoxes \ {netbox} : netbox' = n
    /\ UNCHANGED <<pool, poolCache, uses, worker, faults, changes>>

UseAddress(u) ==
    /\ pool.phase # "gone"
    /\ u \notin inUse
    /\ Change
    /\ inUse' = inUse \cup {u}
    /\ UNCHANGED <<pool, poolCache, netbox, inUseCache, worker, faults>>

FreeAddress(u) ==
    /\ u \in inUse
    /\ inUse' = inUse \ {u}
    /\ UNCHANGED <<pool, poolCache, netbox, inUseCache, worker, faults, changes>>

-----------------------------------------------------------------------------

Next ==
    \/ Reconcile \/ ResolveIDs \/ ResolveDetails \/ Patch \/ Crash
    \/ SyncPool \/ SyncAddresses \/ Resync
    \/ EditSpec \/ SetPaused \/ DeletePool \/ ChangeNetBox
    \/ \E u \in Users : UseAddress(u) \/ FreeAddress(u)

Spec == Init /\ [][Next]_vars

(* The worker and the informers run and the informers resync.  Users, the  *)
(* claim controller and NetBox owe nothing.                                *)
WorkerStep == Reconcile \/ ResolveIDs \/ ResolveDetails \/ Patch

Fairness ==
    /\ WF_vars(WorkerStep)
    /\ WF_vars(SyncPool) /\ WF_vars(SyncAddresses) /\ WF_vars(Resync)

FairSpec == Spec /\ Fairness

-----------------------------------------------------------------------------
(* Properties.                                                             *)

\* NetBox may resolve a spec to these prefixes.
ResolvesTo(spec, ids) ==
    \E n \in NetBoxes : /\ Resolvable(n.table, spec.prefixes)
                        /\ ids = ResolvePrefixIDs(n.table, spec.prefixes)

\* A reconcile that concludes that the pool is ready has prefixes of the spec it has read, as
\* NetBox knows or has known them, and not those of an earlier spec.
ReadyMeansResolved ==
    pc = "Patch" /\ job.want.ready = "PoolReady"
        => ResolvesTo(job.want.spec, IDs(job.want.resolved))

\* A pool that reports Ready has resolved some prefixes, also when NetBox fails.
ReadyHasPrefixes == pool.ready = "PoolReady" => pool.resolved # <<>>

Hosts(cidr) == {[family |-> cidr.family, host |-> h] : h \in cidr.first..cidr.last}
Disjoint(details) ==
    \A i, j \in DOMAIN details :
        i # j => Hosts(details[i].cidr) \cap Hosts(details[j].cidr) = {}

\* As long as its prefixes do not overlap, a pool gives an address the same gateway whether a
\* claim has just allocated it, from prefixes NetBox has named earlier, or finds it again, and
\* one of the address's own family.
GatewayIsRecovered ==
    \A ids \in {<<>>} \cup {ResolvePrefixIDs(n.table, pool.spec.prefixes) :
                   n \in {m \in NetBoxes : Resolvable(m.table, pool.spec.prefixes)}} :
        LET details == gatewayDetails(pool.resolved, ids, pool.spec, netbox)
        IN  Disjoint(details) =>
                \A i \in DOMAIN details : \A ip \in Hosts(details[i].cidr) :
                    LET gateway == gatewayForAddress(details, ip)
                    IN  /\ gateway = gatewayForPrefixID(details, details[i].id)
                        /\ gateway.family \in {"none", ip.family}

\* No state of NetBox makes two references of a spec one prefix.
OnePrefixEach(spec) ==
    \A n \in NetBoxes :
        Resolvable(n.table, spec.prefixes) =>
            Distinct(buildResolvedPrefixes(spec, ResolvePrefixIDs(n.table, spec.prefixes), n.table))

\* Once users leave the pool alone, its status settles on the number of IPAddresses that
\* reference it, whether or not NetBox answers.
AllocatedCatchesUp ==
    <>[](~pool.paused /\ OnePrefixEach(pool.spec))
        => <>[](pool.phase = "gone" \/ pool.allocated = Cardinality(inUse))

\* Once a deleted pool is not paused and its last IPAddress is gone, the pool goes, whether
\* or not NetBox answers.
DeletedPoolGoes ==
    <>[](~pool.paused /\ inUse = {}) => ((pool.phase = "deleting") ~> (pool.phase = "gone"))

\* What NetBox holds makes a spec usable: every reference resolves, with a valid gateway.
Usable(n, spec) ==
    /\ Answers(n)
    /\ Resolvable(n.table, spec.prefixes)
    /\ GatewaysValid(spec, ResolvePrefixIDs(n.table, spec.prefixes), n.table)

\* Once NetBox stays in a state that makes the pool's spec usable, the pool becomes Ready for
\* good, however many resolutions have failed before.
PoolBecomesReady ==
    \A n \in NetBoxes :
        <>[](netbox = n /\ Usable(n, pool.spec) /\ OnePrefixEach(pool.spec) /\ ~pool.paused)
            => <>[](pool.ready = "PoolReady" \/ pool.phase # "live")
=============================================================================
