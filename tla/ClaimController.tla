--------------------------- MODULE ClaimController ---------------------------
(***************************************************************************)
(* The IPAddressClaim controller (pkg/ipamutil/reconciler.go with the      *)
(* NetBox handler of internal/controller/ipaddressclaim_controller.go).    *)
(*                                                                         *)
(* One worker (MaxConcurrentReconciles: 1) takes claims from a work queue  *)
(* and makes one call after the other: reads from the informer caches,     *)
(* requests to NetBox, writes to the Kubernetes API.  Every call is a step *)
(* of its own, so users, informers, restarts and delayed NetBox requests   *)
(* interleave with a reconcile at every point where the program can be     *)
(* interrupted.  Faults names what may go wrong and MaxFaults how often.   *)
(*                                                                         *)
(* A claim stands for its UID.  Its IPAddress and its requests in the      *)
(* queue go by its name, which a later claim may have again.               *)
(***************************************************************************)
EXTENDS Naturals, Sequences

CONSTANTS
    Claims,         \* the IPAddressClaims that may be created, each with its own UID
    Names,          \* namespaced names of claims and of their IPAddresses
    NameOf,         \* the name of each claim
    Addresses,      \* the IP addresses NetBox can hand out
    Tags,           \* ownership tags a pool may name
    Fields,         \* claim UID custom fields a pool may name
    Pools,          \* what the referenced pool may look like to a claim, see PoolView
    NoClaim,        \* "no claim": the worker is idle
    NoAddress,      \* "no address": Spec.Address is empty
    Faults,         \* the kinds of fault a behaviour may contain
    MaxFaults,      \* bound: how many of them
    MaxLag,         \* bound: undelivered watch events of a kind when a reconcile starts
    ClusterStates   \* the states the linked Cluster takes: "running", "paused", "missing"

FaultKinds == {"crash", "callError", "replyLost", "lateApply", "pollTimeout",
               "releaseInterrupted"}

ASSUME NoClaimAssumption   == NoClaim \notin Claims
ASSUME NoAddressAssumption == NoAddress \notin Addresses
ASSUME NamesAssumption     == NameOf \in [Claims -> Names]
ASSUME FaultsAssumption    == Faults \subseteq FaultKinds /\ MaxFaults \in Nat
ASSUME MaxLagAssumption    == MaxLag \in Nat

\* Of a pool a claim sees whether it exists and is paused, the prefixes to allocate from, in
\* order, each the set of its addresses, and the marks its NetBox records carry.
PoolView == [state    : {"absent", "present", "paused"},
             prefixes : Seq(SUBSET Addresses),  \* that they cannot be resolved is a failing call
             tag      : Tags,       \* OwnershipTag
             field    : Fields]     \* ClaimUIDCustomField

ASSUME PoolsAssumption     ==
    /\ Pools \subseteq PoolView /\ Pools # {}
    /\ \A p \in Pools : p.state # "absent" => p.prefixes # <<>>
ASSUME ClusterAssumption   == ClusterStates \subseteq {"running", "paused", "missing"}

VARIABLES
    claim,          \* IPAddressClaim objects in the Kubernetes API
    ipAddress,      \* IPAddress objects in the Kubernetes API, named after their claim
    records,        \* NetBox IP address records allocated by this provider
    posts,          \* allocation requests NetBox has received and not yet applied
    pool,           \* the referenced pool, as the informer cache shows it
    cluster,        \* the linked Cluster, as getLinkedCluster sees it
    claimCache,     \* the manager's informer cache of IPAddressClaims
    addressCache,   \* the manager's informer cache of IPAddresses
    claimWatch,     \* watch events of IPAddressClaims the informer has not processed, in order
    addressWatch,   \* the same for IPAddresses
    queue,          \* the names in the controller's work queue (a set: it deduplicates)
    pc,             \* the next call of the worker
    job,            \* the worker's local variables
    faults          \* faults so far

claims     == <<claim, claimWatch>>
addresses  == <<ipAddress, addressWatch>>
kubernetes == <<claims, addresses>>
netbox     == <<records, posts>>
external   == <<pool, cluster>>
caches     == <<claimCache, addressCache>>
vars == <<kubernetes, netbox, external, caches, queue, pc, job, faults>>

-----------------------------------------------------------------------------
(* Objects.                                                                *)

\* Reason of the claim's Ready condition; only "allocated" has status True.
ReadyReasons == {"unset", "allocated", "poolNotReady", "poolExhausted", "allocationFailed"}

ClaimObject == [phase      : {"absent", "live", "deleting", "gone"},
                finalizer  : BOOLEAN,    \* ReleaseAddressFinalizer
                ready      : ReadyReasons,
                addressRef : BOOLEAN]    \* status.addressRef is set

Fresh(phase) == [phase |-> phase, finalizer |-> FALSE, ready |-> "unset", addressRef |-> FALSE]
Exists(obj)  == obj.phase \in {"live", "deleting"}

AddressObject == [owner     : Claims \cup {NoClaim},    \* UID of the controlling owner
                  address   : Addresses \cup {NoAddress},
                  protected : BOOLEAN]   \* ProtectAddressFinalizer
NotFound == [owner |-> NoClaim, address |-> NoAddress, protected |-> FALSE]
Found(obj) == obj.address # NoAddress

Record == [owner : Claims, address : Addresses, tag : Tags, field : Fields]
NoRecord == [owner |-> NoClaim, address |-> NoAddress]
RecordsOf(c) == {r \in records : r.owner = c}

\* FindIPAddressByClaimUID and FindIPAddressByAddress, with the marks of a pool.
FoundByUID(p, c)     == {r \in RecordsOf(c) : r.tag = p.tag /\ r.field = p.field}
FoundByAddress(p, a) == {r \in records : r.address = a /\ r.tag = p.tag}

\* The addresses POST /prefixes/<id>/available-ips/ may pick from.
Available(prefix) == {a \in prefix : \A r \in records : r.address # a}

Job == [claim   : Claims \cup {NoClaim},
        snap    : ClaimObject,               \* the claim as read, kept by the patch helper
        want    : ClaimObject,               \* the claim as the reconcile leaves it
        pool    : Pools,                     \* the pool as FetchPool read it
        address : AddressObject,             \* the IPAddress in hand
        prefix  : Nat,                       \* position in the loop over prefixes
        record  : Record \cup {NoRecord},    \* the NetBox record to delete
        failed  : BOOLEAN]                   \* the reconcile returns an error
NoJob == [claim |-> NoClaim, snap |-> Fresh("absent"), want |-> Fresh("absent"),
          pool |-> CHOOSE p \in Pools : TRUE,
          address |-> NotFound, prefix |-> 0, record |-> NoRecord, failed |-> FALSE]
Name == NameOf[job.claim]
Prefixes == job.pool.prefixes

Calls == {"idle", "FetchPool",
          "EnsureGet", "FindByUID", "Allocate", "CreateAddress", "PatchAddress", "PollCache",
          "ReleaseGet", "ReleaseFind", "ReleaseFindByAddress", "ReleaseDelete",
          "DeleteGet", "Unprotect", "DeleteAddress", "PatchClaim"}

TypeOK ==
    /\ claim \in [Claims -> ClaimObject]
    /\ ipAddress \in [Names -> AddressObject]
    /\ records \subseteq Record
    /\ posts \subseteq [owner : Claims, prefix : SUBSET Addresses, pool : Pools]
    /\ pool \in Pools
    /\ cluster \in ClusterStates
    /\ claimCache \in [Claims -> ClaimObject]
    /\ addressCache \in [Names -> AddressObject]
    /\ claimWatch \in Seq([claim : Claims, object : ClaimObject])
    /\ addressWatch \in Seq([name : Names, object : AddressObject])
    /\ queue \subseteq Names
    /\ pc \in Calls
    /\ job \in Job
    /\ pc # "idle" => job.claim \in Claims
    /\ faults \in 0..MaxFaults

Init ==
    /\ claim = [c \in Claims |-> Fresh("absent")]
    /\ ipAddress = [n \in Names |-> NotFound]
    /\ records = {}
    /\ posts = {}
    /\ pool \in Pools
    /\ cluster \in ClusterStates
    /\ claimCache = claim
    /\ addressCache = ipAddress
    /\ claimWatch = <<>>
    /\ addressWatch = <<>>
    /\ queue = {}
    /\ pc = "idle"
    /\ job = NoJob
    /\ faults = 0

-----------------------------------------------------------------------------
(* Faults.  releaseInterrupted adds the faults that strike between the     *)
(* deletion of the NetBox record and that of the IPAddress object.         *)

ReleaseWindow == {"DeleteGet", "Unprotect", "DeleteAddress"}

Fault(kind) ==
    /\ kind \in Faults
    /\ pc \in ReleaseWindow => "releaseInterrupted" \in Faults
    /\ faults < MaxFaults
    /\ faults' = faults + 1

-----------------------------------------------------------------------------
(* Writes to the Kubernetes API: a write that changes an object is also a  *)
(* watch event.  The watch of one kind of object delivers in order.        *)

WriteClaim(c, obj) ==
    /\ claim' = [claim EXCEPT ![c] = obj]
    /\ claimWatch' = IF obj = claim[c] THEN claimWatch
                     ELSE Append(claimWatch, [claim |-> c, object |-> obj])

WriteAddress(n, obj) ==
    /\ ipAddress' = [ipAddress EXCEPT ![n] = obj]
    /\ addressWatch' = IF obj = ipAddress[n] THEN addressWatch
                       ELSE Append(addressWatch, [name |-> n, object |-> obj])

-----------------------------------------------------------------------------
(* Ways a call ends.  Every return runs the deferred patch of the claim.   *)

Continue(call)  == pc' = call /\ UNCHANGED job
Proceed(call, j) == pc' = call /\ job' = j
Return(want)    == Proceed("PatchClaim", [job EXCEPT !.want = want])
ReturnError(want) == Proceed("PatchClaim", [job EXCEPT !.want = want, !.failed = TRUE])

setClaimReady(reason) == [job.want EXCEPT !.ready = reason]

\* The handler keeps the pool as it was read.
WithPool(call) == Proceed(call, [job EXCEPT !.pool = pool])

(* Faulty variants of operations below: with any one of them in the place  *)
(* of the operation it misremembers, a property of this module fails.      *)

\* The finalizer is only patched at the end of a reconcile that allocates already.
AddFinalizerAndGoOn(read) == Proceed("FetchPool", [read EXCEPT !.want.finalizer = TRUE])

\* An error of ensureAddress is taken for success, one of reconcileDelete as well.
AllocationErrorIgnored == Return([setClaimReady("allocated") EXCEPT !.addressRef = TRUE])
ReleaseErrorIgnored    == Return([job.want EXCEPT !.finalizer = FALSE])

\* The failed request is looked up in the worker's variables after they are cleared.
FinishForgets(failed) ==
    /\ pc' = "idle"
    /\ job' = NoJob
    /\ queue' = IF failed THEN queue \cup {job'.claim} ELSE queue

\* A missing Cluster keeps claims from being deleted too.
GatedWhileMissing(c) == cluster # "running"

\* A paused pool is taken for one that is gone.
FetchPoolPausedIsGone ==
    /\ pc = "FetchPool"
    /\ LET deleting == job.snap.phase = "deleting"
           usable   == pool.state = "present"
       IN  \/ deleting /\ ~usable  /\ Continue("DeleteGet")
           \/ deleting /\ usable   /\ WithPool("ReleaseGet")
           \/ ~deleting /\ usable  /\ WithPool("EnsureGet")
           \/ ~deleting /\ ~usable /\ Return(setClaimReady("poolNotReady"))
    /\ UNCHANGED <<kubernetes, netbox, external, caches, queue, faults>>

\* EnsureAddress allocates although the object has its address; an object of another claim
\* of the same name is taken for the claim's own; EnsureAddress does not look for the claim's
\* record; the loop gives up at the first prefix that is full; the cache is not awaited.
EnsureGetForgetsAddress ==
    /\ pc = "EnsureGet"
    /\ Continue("FindByUID")
    /\ UNCHANGED <<kubernetes, netbox, external, caches, queue, faults>>

EnsureGetOwnerIgnored ==
    /\ pc = "EnsureGet"
    /\ LET cached == addressCache[Name]
       IN  Proceed(IF Found(cached) THEN "PollCache" ELSE "FindByUID", [job EXCEPT !.address = cached])
    /\ UNCHANGED <<kubernetes, netbox, external, caches, queue, faults>>

FindByUIDSkipped ==
    /\ pc = "FindByUID"
    /\ Proceed("Allocate", [job EXCEPT !.prefix = 1])
    /\ UNCHANGED <<kubernetes, netbox, external, caches, queue, faults>>

NoAvailableIPGivesUp ==
    /\ pc = "Allocate"
    /\ job.prefix \in DOMAIN Prefixes
    /\ Available(Prefixes[job.prefix]) = {}
    /\ ReturnError(setClaimReady("poolExhausted"))
    /\ UNCHANGED <<kubernetes, netbox, external, caches, queue, faults>>

PollCacheSkipped ==
    /\ pc = "PollCache"
    /\ Return([setClaimReady("allocated") EXCEPT !.addressRef = TRUE])
    /\ UNCHANGED <<kubernetes, netbox, external, caches, queue, faults>>

\* The lookup by claim UID loses its filter.
ReleaseFindAny ==
    /\ pc = "ReleaseFind"
    /\ \/ \E r \in records : Proceed("ReleaseDelete", [job EXCEPT !.record = r])
       \/ records = {} /\ Continue("DeleteGet")
    /\ UNCHANGED <<kubernetes, netbox, external, caches, queue, faults>>

\* The ProtectAddress finalizer is left on; an IPAddress that is gone is an error.
DeleteGetStaysProtected ==
    /\ pc = "DeleteGet"
    /\ \/ ~Found(addressCache[Name]) /\ Return([job.want EXCEPT !.finalizer = FALSE])
       \/ Found(addressCache[Name]) /\ Continue("DeleteAddress")
    /\ UNCHANGED <<kubernetes, netbox, external, caches, queue, faults>>

DeleteGetNotFoundFails ==
    /\ pc = "DeleteGet"
    /\ LET cached == addressCache[Name]
       IN  \/ ~Found(cached) /\ ReturnError(job.want)
           \/ /\ Found(cached)
              /\ Proceed("Unprotect", [job EXCEPT !.address = cached])
    /\ UNCHANGED <<kubernetes, netbox, external, caches, queue, faults>>

-----------------------------------------------------------------------------

AllocationFailed == ReturnError(setClaimReady("allocationFailed"))
ReleaseFailed    == ReturnError(job.want)

\* The worker takes the next request; a request that failed is queued again.
Finish(failed) ==
    /\ pc' = "idle"
    /\ job' = NoJob
    /\ queue' = IF failed THEN queue \cup {Name} ELSE queue

-----------------------------------------------------------------------------
(* Reconcile: the claim is read from the cache, the linked Cluster gates   *)
(* it, and a claim without the finalizer only gets the finalizer.          *)

\* The claim the cache has under a name, if any.
Cached(n) == {c \in Claims : NameOf[c] = n /\ Exists(claimCache[c])}

Gated(c) ==
    \/ cluster = "missing" /\ claimCache[c].phase = "live"
    \/ cluster = "paused"

\* How far the caches may lag behind the API when a reconcile starts.
LagIsBounded == Len(claimWatch) <= MaxLag /\ Len(addressWatch) <= MaxLag

AddFinalizer(read) == Proceed("PatchClaim", [read EXCEPT !.want.finalizer = TRUE])

Read(c) == [NoJob EXCEPT !.claim = c, !.snap = claimCache[c], !.want = claimCache[c]]

ReconcileClaim(c) ==
    \/ Gated(c) /\ UNCHANGED <<pc, job>>
    \/ ~Gated(c) /\ ~claimCache[c].finalizer /\ AddFinalizer(Read(c))
    \/ ~Gated(c) /\ claimCache[c].finalizer /\ Proceed("FetchPool", Read(c))

Reconcile(n) ==
    /\ pc = "idle"
    /\ n \in queue
    /\ LagIsBounded
    /\ queue' = queue \ {n}
    /\ \/ Cached(n) = {} /\ UNCHANGED <<pc, job>>
       \/ \E c \in Cached(n) : ReconcileClaim(c)
    /\ UNCHANGED <<kubernetes, netbox, external, caches, faults>>

\* reconcileClaimAddress up to its calls of reconcileDelete and ensureAddress.  Without a
\* pool ReleaseAddress has nothing to do and reconcileDelete goes on to the IPAddress.
FetchPool ==
    /\ pc = "FetchPool"
    /\ LET deleting == job.snap.phase = "deleting"
       IN  \/ pool.state = "absent" /\ deleting  /\ Continue("DeleteGet")
           \/ pool.state = "absent" /\ ~deleting /\ Return(setClaimReady("poolNotReady"))
           \/ pool.state = "paused" /\ Return(setClaimReady("poolNotReady"))
           \/ pool.state = "present" /\ deleting  /\ WithPool("ReleaseGet")
           \/ pool.state = "present" /\ ~deleting /\ WithPool("EnsureGet")
    /\ UNCHANGED <<kubernetes, netbox, external, caches, queue, faults>>

-----------------------------------------------------------------------------
(* ensureAddress: CreateOrPatch around the handler's EnsureAddress, then   *)
(* the wait until the cache shows the object.                              *)

\* An IPAddress in the cache has its address, so EnsureAddress returns at once.  As a rule it
\* has its owner and its finalizer too and CreateOrPatch finds nothing to patch.
EnsureGet ==
    /\ pc = "EnsureGet"
    /\ LET cached == addressCache[Name]
           asIs   == cached.owner = job.claim /\ cached.protected
           call   == CASE ~Found(cached)         -> "FindByUID"
                       [] Found(cached) /\ asIs   -> "PollCache"
                       [] Found(cached) /\ ~asIs  -> "PatchAddress"
       IN  Proceed(call, [job EXCEPT !.address = cached])
    /\ UNCHANGED <<kubernetes, netbox, external, caches, queue, faults>>

InHand(a) ==
    [job EXCEPT !.address = [owner |-> job.claim, address |-> a, protected |-> TRUE]]

\* A NetBox record that carries the claim's UID is reused.
FindByUID ==
    /\ pc = "FindByUID"
    /\ LET found == FoundByUID(job.pool, job.claim)
       IN  \/ \E r \in found : Proceed("CreateAddress", InHand(r.address))
           \/ found = {} /\ Proceed("Allocate", [job EXCEPT !.prefix = 1])
    /\ UNCHANGED <<kubernetes, netbox, external, caches, queue, faults>>

\* The record NetBox creates for a request.
Marked(c, a, p) == [owner |-> c, address |-> a, tag |-> p.tag, field |-> p.field]

\* One POST of the loop over the prefixes.  Its reply may be lost after NetBox has
\* created the record.
Allocate ==
    /\ pc = "Allocate"
    /\ job.prefix \in DOMAIN Prefixes
    /\ \E a \in Available(Prefixes[job.prefix]) :
          /\ records' = records \cup {Marked(job.claim, a, job.pool)}
          /\ \/ Proceed("CreateAddress", InHand(a)) /\ UNCHANGED faults
             \/ AllocationFailed /\ Fault("replyLost")
    /\ UNCHANGED <<kubernetes, posts, external, caches, queue>>

\* ErrNoAvailableIP: the loop goes on with the next prefix.
NoAvailableIP ==
    /\ pc = "Allocate"
    /\ job.prefix \in DOMAIN Prefixes
    /\ Available(Prefixes[job.prefix]) = {}
    /\ Proceed("Allocate", [job EXCEPT !.prefix = @ + 1])
    /\ UNCHANGED <<kubernetes, netbox, external, caches, queue, faults>>

PoolExhausted ==
    /\ pc = "Allocate"
    /\ job.prefix \notin DOMAIN Prefixes
    /\ ReturnError(setClaimReady("poolExhausted"))
    /\ UNCHANGED <<kubernetes, netbox, external, caches, queue, faults>>

\* The client gives up on the POST; NetBox will still apply it.
AllocateTimesOut ==
    /\ pc = "Allocate"
    /\ job.prefix \in DOMAIN Prefixes
    /\ Fault("lateApply")
    /\ posts' = posts \cup {[owner |-> job.claim, prefix |-> Prefixes[job.prefix], pool |-> job.pool]}
    /\ AllocationFailed
    /\ UNCHANGED <<kubernetes, records, external, caches, queue>>

\* CreateOrPatch creates the object, with the ProtectAddress finalizer.
CreateAddress ==
    /\ pc = "CreateAddress"
    /\ \/ /\ ~Found(ipAddress[Name])
          /\ WriteAddress(Name, job.address)
          /\ \/ Continue("PollCache") /\ UNCHANGED faults
             \/ AllocationFailed /\ Fault("replyLost")
       \/ /\ Found(ipAddress[Name])    \* AlreadyExists
          /\ AllocationFailed
          /\ UNCHANGED <<addresses, faults>>
    /\ UNCHANGED <<claims, netbox, external, caches, queue>>

\* CreateOrPatch patches an IPAddress that another claim of this name has left: it changes
\* hands, with its address.
PatchAddress ==
    /\ pc = "PatchAddress"
    /\ LET obj == ipAddress[Name]
       IN  \/ /\ Found(obj)
              /\ WriteAddress(Name, [obj EXCEPT !.owner = job.claim,
                                               !.protected = @ \/ ~job.address.protected])
              /\ \/ Continue("PollCache") /\ UNCHANGED faults
                 \/ AllocationFailed /\ Fault("replyLost")
           \/ /\ ~Found(obj)    \* NotFound
              /\ AllocationFailed
              /\ UNCHANGED <<addresses, faults>>
    /\ UNCHANGED <<claims, netbox, external, caches, queue>>

PollCache ==
    /\ pc = "PollCache"
    /\ \/ /\ Found(addressCache[Name])
          /\ Return([setClaimReady("allocated") EXCEPT !.addressRef = TRUE])
          /\ UNCHANGED faults
       \/ /\ ~Found(addressCache[Name])
          /\ Fault("pollTimeout")
          /\ AllocationFailed
    /\ UNCHANGED <<kubernetes, netbox, external, caches, queue>>

-----------------------------------------------------------------------------
(* reconcileDelete: the handler's ReleaseAddress, then the IPAddress.      *)

ReleaseGet ==
    /\ pc = "ReleaseGet"
    /\ Proceed("ReleaseFind", [job EXCEPT !.address = addressCache[Name]])
    /\ UNCHANGED <<kubernetes, netbox, external, caches, queue, faults>>

\* findExistingNetBoxIP, the lookup by claim UID.
ReleaseFind ==
    /\ pc = "ReleaseFind"
    /\ LET found == FoundByUID(job.pool, job.claim)
       IN  \/ \E r \in found : Proceed("ReleaseDelete", [job EXCEPT !.record = r])
           \/ /\ found = {}
              /\ Continue(IF Found(job.address) THEN "ReleaseFindByAddress" ELSE "DeleteGet")
    /\ UNCHANGED <<kubernetes, netbox, external, caches, queue, faults>>

\* findExistingNetBoxIP, the fallback: whatever tagged record has the recorded address.
\* Finding none is an error as long as the IPAddress object exists.
ReleaseFindByAddress ==
    /\ pc = "ReleaseFindByAddress"
    /\ LET found == FoundByAddress(job.pool, job.address.address)
       IN  \/ \E r \in found : Proceed("ReleaseDelete", [job EXCEPT !.record = r])
           \/ found = {} /\ ReleaseFailed
    /\ UNCHANGED <<kubernetes, netbox, external, caches, queue, faults>>

\* DELETE by record ID; a record that is gone already (404) counts as deleted.
ReleaseDelete ==
    /\ pc = "ReleaseDelete"
    /\ records' = records \ {job.record}
    /\ \/ Continue("DeleteGet") /\ UNCHANGED faults
       \/ ReleaseFailed /\ Fault("replyLost") /\ "releaseInterrupted" \in Faults
    /\ UNCHANGED <<kubernetes, posts, external, caches, queue>>

removeFinalizer == [job.want EXCEPT !.finalizer = FALSE]

DeleteGet ==
    /\ pc = "DeleteGet"
    /\ LET cached == addressCache[Name]
       IN  \/ ~Found(cached) /\ Return(removeFinalizer)
           \/ /\ Found(cached)
              /\ Proceed(IF cached.protected THEN "Unprotect" ELSE "DeleteAddress",
                         [job EXCEPT !.address = cached])
    /\ UNCHANGED <<kubernetes, netbox, external, caches, queue, faults>>

Unprotect ==
    /\ pc = "Unprotect"
    /\ WriteAddress(Name, [ipAddress[Name] EXCEPT !.protected = FALSE])
    /\ \/ Continue("DeleteAddress") /\ UNCHANGED faults
       \/ ReleaseFailed /\ Fault("replyLost")
    /\ UNCHANGED <<claims, netbox, external, caches, queue>>

\* An object that still has its finalizer stays; one that is gone already is fine.
DeleteAddress ==
    /\ pc = "DeleteAddress"
    /\ LET obj == ipAddress[Name]
       IN  WriteAddress(Name, IF obj.protected THEN obj ELSE NotFound)
    /\ \/ Return(removeFinalizer) /\ UNCHANGED faults
       \/ ReleaseFailed /\ Fault("replyLost")
    /\ UNCHANGED <<claims, netbox, external, caches, queue>>

-----------------------------------------------------------------------------
(* The deferred patch: merge patches of what the reconcile changed in its  *)
(* copy of the claim, in requests for the conditions, the metadata and the *)
(* rest of the status, each sent whatever becomes of the others.  They go  *)
(* to whichever claim has the name by now.  Removing the finalizer lets a  *)
(* deleted claim go.                                                       *)

Requests == {"conditions", "metadata", "status"}

\* The claim after the requests in done have been applied.
Merged(obj, done) ==
    LET Changed(request, old, new, current) ==
            IF request \in done /\ old # new THEN new ELSE current
    IN  [phase      |-> obj.phase,
         finalizer  |-> Changed("metadata", job.snap.finalizer, job.want.finalizer, obj.finalizer),
         ready      |-> Changed("conditions", job.snap.ready, job.want.ready, obj.ready),
         addressRef |-> Changed("status", job.snap.addressRef, job.want.addressRef, obj.addressRef)]

Collected(obj) == IF obj.phase = "deleting" /\ ~obj.finalizer THEN Fresh("gone") ELSE obj

\* The claim the API has under the name of the one in hand, if any.
Namesakes == {c \in Claims : NameOf[c] = Name /\ Exists(claim[c])}

PatchClaim ==
    /\ pc = "PatchClaim"
    /\ \/ /\ job.want = job.snap
          /\ Finish(job.failed)
          /\ UNCHANGED <<claims, faults>>
       \/ /\ job.want # job.snap
          /\ Namesakes = {}     \* NotFound
          /\ Finish(TRUE)
          /\ UNCHANGED <<claims, faults>>
       \/ /\ job.want # job.snap
          /\ \E c \in Namesakes : WriteClaim(c, Collected(Merged(claim[c], Requests)))
          /\ \/ Finish(job.failed) /\ UNCHANGED faults
             \/ Finish(TRUE) /\ Fault("replyLost")
       \/ /\ job.want # job.snap
          /\ \E c \in Namesakes, done \in SUBSET Requests :
                WriteClaim(c, Collected(Merged(claim[c], done)))
          /\ Finish(TRUE) /\ Fault("callError")
    /\ UNCHANGED <<addresses, netbox, external, caches>>

-----------------------------------------------------------------------------
(* A request to NetBox or the API server fails without an effect.          *)

CallFails ==
    /\ \/ /\ pc \in {"FindByUID", "Allocate", "CreateAddress", "PatchAddress"}
          /\ AllocationFailed
          /\ UNCHANGED queue
       \/ /\ pc \in {"ReleaseFind", "ReleaseFindByAddress", "ReleaseDelete", "Unprotect",
                     "DeleteAddress"}
          /\ ReleaseFailed
          /\ UNCHANGED queue
       \/ pc = "PatchClaim" /\ job.want # job.snap /\ Finish(TRUE)
    /\ Fault("callError")
    /\ UNCHANGED <<kubernetes, netbox, external, caches>>

\* The manager restarts: local variables are lost, the informers list the API again and
\* every claim is queued.
Restart ==
    /\ pc' = "idle"
    /\ job' = NoJob
    /\ claimCache' = claim
    /\ addressCache' = ipAddress
    /\ claimWatch' = <<>>
    /\ addressWatch' = <<>>
    /\ queue' = {NameOf[c] : c \in {d \in Claims : Exists(claim[d])}}
    /\ UNCHANGED <<claim, ipAddress, netbox>>

Crash == Restart /\ Fault("crash") /\ UNCHANGED external

\* NetBox applies a request its client has given up on.
LateAllocation ==
    /\ \E p \in posts :
          /\ posts' = posts \ {p}
          /\ \/ \E a \in Available(p.prefix) : records' = records \cup {Marked(p.owner, a, p.pool)}
             \/ Available(p.prefix) = {} /\ UNCHANGED records
    /\ UNCHANGED <<kubernetes, external, caches, queue, pc, job, faults>>

-----------------------------------------------------------------------------
(* Informers: a watch event refreshes the cache and queues the name (the   *)
(* controller is For the claim and Owns its IPAddress).                    *)

SyncClaim ==
    /\ claimWatch # <<>>
    /\ LET event == Head(claimWatch)
       IN  /\ claimCache' = [claimCache EXCEPT ![event.claim] = event.object]
           /\ queue' = queue \cup {NameOf[event.claim]}
    /\ claimWatch' = Tail(claimWatch)
    /\ UNCHANGED <<claim, addresses, netbox, external, addressCache, pc, job, faults>>

SyncAddress ==
    /\ addressWatch # <<>>
    /\ LET event == Head(addressWatch)
       IN  /\ addressCache' = [addressCache EXCEPT ![event.name] = event.object]
           /\ queue' = queue \cup {event.name}
    /\ addressWatch' = Tail(addressWatch)
    /\ UNCHANGED <<claims, ipAddress, netbox, external, claimCache, pc, job, faults>>

CachedNames == {n \in Names : Cached(n) # {}}

\* The informers' periodic resync queues every cached claim.
Resync ==
    /\ ~(CachedNames \subseteq queue)
    /\ queue' = queue \cup CachedNames
    /\ UNCHANGED <<kubernetes, netbox, external, caches, pc, job, faults>>

-----------------------------------------------------------------------------
(* Users and other controllers.                                            *)

CreateClaim(c) ==
    /\ claim[c].phase = "absent"
    /\ \A d \in Claims : NameOf[d] = NameOf[c] => ~Exists(claim[d])
    /\ WriteClaim(c, Fresh("live"))
    /\ UNCHANGED <<addresses, netbox, external, caches, queue, pc, job, faults>>

DeleteClaim(c) ==
    /\ claim[c].phase = "live"
    /\ WriteClaim(c, Collected([claim[c] EXCEPT !.phase = "deleting"]))
    /\ UNCHANGED <<addresses, netbox, external, caches, queue, pc, job, faults>>

\* The pool is created, edited, paused or unpaused.  Nothing watches pools for claims: no
\* claim is queued.  Pool deletion is the pool controller's business.
ChangePool ==
    /\ \E p \in Pools \ {pool} : p.state # "absent" /\ pool' = p
    /\ UNCHANGED <<kubernetes, netbox, cluster, caches, queue, pc, job, faults>>

\* The Cluster watch passes on creation and deletion of a Cluster that is not paused, and
\* the end of a pause.
ClusterEventPasses(old, new) == new = "running" \/ (old = "running" /\ new = "missing")

ChangeCluster ==
    /\ \E s \in ClusterStates \ {cluster} :
          /\ cluster' = s
          /\ queue' = IF ClusterEventPasses(cluster, s) THEN queue \cup CachedNames ELSE queue
    /\ UNCHANGED <<kubernetes, netbox, pool, caches, pc, job, faults>>

-----------------------------------------------------------------------------

WorkerStep ==
    \/ FetchPool
    \/ EnsureGet \/ FindByUID \/ Allocate \/ NoAvailableIP \/ PoolExhausted
    \/ CreateAddress \/ PatchAddress \/ PollCache
    \/ ReleaseGet \/ ReleaseFind \/ ReleaseFindByAddress \/ ReleaseDelete
    \/ DeleteGet \/ Unprotect \/ DeleteAddress
    \/ PatchClaim

FaultStep == AllocateTimesOut \/ CallFails \/ Crash

Environment ==
    \/ LateAllocation
    \/ ChangePool
    \/ ChangeCluster
    \/ \E c \in Claims : CreateClaim(c) \/ DeleteClaim(c)

Next ==
    \/ \E n \in Names : Reconcile(n)
    \/ WorkerStep
    \/ FaultStep
    \/ SyncClaim
    \/ SyncAddress
    \/ Resync
    \/ Environment

Spec == Init /\ [][Next]_vars

(* The worker and the informers run, the workqueue serves every request    *)
(* in its turn (so a request is not overtaken for ever by the others'      *)
(* retries), and the informers resync.  Users, faults and delayed requests *)
(* owe nothing.                                                            *)
Fairness ==
    /\ WF_vars(WorkerStep)
    /\ WF_vars(Resync)
    /\ WF_vars(SyncClaim)
    /\ WF_vars(SyncAddress)
    /\ \A n \in Names : SF_vars(Reconcile(n))

FairSpec == Spec /\ Fairness

-----------------------------------------------------------------------------
(* Properties.                                                             *)

\* The lookup by claim UID before the POST makes allocation idempotent: whatever crash,
\* failed call or lost reply comes between the POST and the IPAddress object, NetBox never
\* holds two records of one claim.
OneRecordPerClaim ==
    \A r, s \in records : r.owner = s.owner => r = s

\* The finalizer brackets the allocation: a claim that does not carry it in the API (not yet
\* reconciled, or deleted and gone) has no record in NetBox, so no claim that disappears
\* leaves an allocated address behind.
RecordImpliesFinalizer ==
    \A r \in records : claim[r.owner].finalizer

\* The same bracket around the IPAddress object: the wait for cache visibility keeps a
\* release from missing the object that a reconcile has just created.
AddressImpliesFinalizer ==
    \A n \in Names : Found(ipAddress[n]) => claim[ipAddress[n].owner].finalizer

\* NetBox has reserved the address of an IPAddress object for the claim that owns the object.
Reserved(obj) == \E r \in records : r.owner = obj.owner /\ r.address = obj.address

\* The address published for a claim is the one NetBox has reserved for that very claim,
\* until the claim's own release has started to take both away.
PublishedAddressIsReserved ==
    \A n \in Names :
        Found(ipAddress[n]) /\ ~(pc \in ReleaseWindow /\ Name = n) => Reserved(ipAddress[n])

\* No two claims are ever given the same address.
PublishedAddressesDiffer ==
    \A m, n \in Names :
        m # n /\ Found(ipAddress[m]) => ipAddress[m].address # ipAddress[n].address

\* A claim that is reported Ready or refers to its address, and that nobody has asked to
\* delete, has the address reserved in NetBox and published in an IPAddress object, also when
\* only a part of the status was written and when an earlier claim had the same name.
ReadyIsTrue ==
    \A c \in Claims :
        claim[c].phase = "live" /\ (claim[c].ready = "allocated" \/ claim[c].addressRef)
            => LET obj == ipAddress[NameOf[c]]
               IN  obj.owner = c /\ Reserved(obj)

\* A step removes only records of the claim under reconciliation, and only once the user
\* has asked for that claim to be deleted.
OnlyOwnRecordsDeleted ==
    [][\A r \in records \ records' : r.owner = job.claim /\ claim[r.owner].phase = "deleting"]_vars

\* Once the pool and the Cluster stay usable, a claim becomes Ready or is deleted.
ClaimIsServed ==
    <>[](pool.state = "present" /\ cluster = "running") =>
        \A c \in Claims :
            (claim[c].phase = "live") ~> (claim[c].ready = "allocated" \/ claim[c].phase # "live")

\* Once nothing is paused, a deleted claim disappears.
DeletedClaimGoes ==
    <>[](pool.state # "paused" /\ cluster # "paused") =>
        \A c \in Claims : (claim[c].phase = "deleting") ~> (claim[c].phase = "gone")
=============================================================================
