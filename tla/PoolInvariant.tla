---------------------------- MODULE PoolInvariant ----------------------------
(***************************************************************************)
(* The inductive invariant behind the safety properties of the pool        *)
(* controller.                                                             *)
(***************************************************************************)
EXTENDS PoolController

\* The pool, and the copies of it that the cache and the worker have.
Copies == {poolCache, job.snap}

\* Every edit of the spec is counted, and deletion moves the generation once more.
GenerationIsCounted ==
    /\ pool.generation <= changes + (IF pool.phase = "live" THEN 1 ELSE 2)
    /\ pool.observedGeneration <= pool.generation
    /\ job.want.observedGeneration <= pool.generation
    /\ \A p \in Copies : p.generation <= pool.generation /\ p.observedGeneration <= p.generation

ValidGateways(details) == \A i \in DOMAIN details : GatewayValid(details[i].cidr, details[i].gateway)

\* Every gateway that is, was or is about to be cached has been checked against its prefix.
GatewaysAreValid ==
    /\ ValidGateways(pool.resolved)
    /\ ValidGateways(job.want.resolved)
    /\ \A p \in Copies : ValidGateways(p.resolved)

\* Cached prefixes are replaced but never dropped.
PrefixesStay == \A p \in Copies : p.resolved # <<>> => pool.resolved # <<>>

\* Before the patch the worker's copy has the status it has read, except for what Reconcile
\* sets; the patch brings prefixes if it changes them, or if it reports Ready, and a condition.
WorkerHasPrefixes ==
    /\ job.want.spec = job.snap.spec
    /\ pc \in {"ResolvePrefixIDs", "GetPrefixDetails"} => job.want.resolved = job.snap.resolved
    /\ pc = "GetPrefixDetails" =>
          /\ DOMAIN job.ids = DOMAIN job.want.spec.prefixes
          /\ ResolvesTo(job.want.spec, job.ids)
    /\ pc = "Patch" =>
          /\ job.want.ready # "unset"
          /\ job.want.ready = "PoolReady" => job.want.resolved # <<>>
          /\ job.want.resolved # job.snap.resolved => job.want.resolved # <<>>

Unset(p) == /\ p.observedGeneration = 0 /\ p.resolved = <<>>
            /\ p.ready = "unset" /\ p.allocated = 0

\* As long as conditions lack their lastTransitionTime, the status of the pool stays as it was
\* created, and whatever a reconcile reports has been resolved by the reconcile itself.
NothingIsStored ==
    ~StampsConditions =>
        /\ \A p \in {pool} \cup Copies : Unset(p)
        /\ ReadyMeansResolved

StatusInvariant ==
    /\ TypeOK
    /\ GenerationIsCounted
    /\ GatewaysAreValid
    /\ Admissible(pool)
    /\ ReadyHasPrefixes
    /\ PrefixesStay
    /\ WorkerHasPrefixes
    /\ NothingIsStored
=============================================================================
