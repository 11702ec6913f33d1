# A verification of cluster-api-ipam-provider-netbox

The provider watches Cluster API `IPAddressClaim`s, allocates an address for each of them
in NetBox, publishes it in an `IPAddress` object, and takes both away when the claim is
deleted. These TLA+ modules model its controllers, TLC checks them on small instances, and
TLAPS proves the safety properties, the refinement of the claim controller's abstract
specification, and the composition of the two controllers, for instances of any size.

## The system

| part | state | operations | interacts with |
|---|---|---|---|
| Claim reconciler (`pkg/ipamutil/reconciler.go`, `address.go`) | the claim's finalizer, Ready condition and `addressRef`; the `IPAddress` with its finalizer; the local variables of a reconcile | `Reconcile`, `reconcileClaimAddress`, `ensureAddress`, `reconcileDelete`, deferred patch | the informer caches (reads), the API server (writes), the claim handler (calls), the Cluster watch |
| NetBox claim handler (`internal/controller/ipaddressclaim_controller.go`) | none of its own: NetBox's records, found by claim UID or by address | `FetchPool`, `EnsureAddress`, `ReleaseAddress` | the pool's status (cached prefixes), NetBox |
| Pool controllers (`internal/controller/pool_controller.go` and the two thin reconcilers) | pool status: observed generation, resolved prefixes, Ready, allocated count; the pool's finalizer | `reconcilePoolStatus`, `resolvePoolPrefixes` | NetBox, the index of IPAddresses by pool |
| NetBox client (`internal/netbox/client.go`) | none | requests, pagination, tags, the available-IP error | NetBox over HTTP |
| Gateway resolution (`gateway.go`, parts of the controllers) | gateway per resolved prefix | which gateway an address gets | pool status |
| Metadata (`annotations.go`, `defaults.go`) | none | annotations override pool defaults | the allocation request |
| Connection config, predicates, indexes, API types, manager | none | reading a Secret, selecting events, flags | everything |

What makes each part correct:

* **Claim reconciler and handler.** A claim has at most one NetBox record; a record or an
  `IPAddress` exists only while the claim carries the finalizer; what is published is what
  NetBox has reserved for that claim; a release touches nobody else's record; a claim is
  eventually served and a deleted claim eventually goes.
* **Pool controllers.** Ready is concluded only with prefixes of the spec that was read; an
  address has one gateway, however it is found; a deleted pool goes once it is unused, whether or
  not NetBox answers. The status should show all this: Ready once NetBox is usable, and the
  number of IPAddresses. It never does (`pool_unready`).
* **Both together.** A pool that exists leaks no record; what is published outlives the pool;
  neither controller waits for the other for ever.
* **NetBox client.** A lookup that takes several requests finds the claim's record and no
  other, and every client finishes.

What is hard about them: every reconcile is a sequence of calls on three stores (the API
server, the informer caches behind it, and NetBox) with no transaction over them. Users,
restarts, failing calls, lost replies, requests that NetBox applies late, caches that lag and
polls that time out interleave with the sequence. `PROJECT.json` lists the hazards one by one.

## The modules

| module | models |
|---|---|
| `ClaimController` | the claim reconciler with the NetBox claim handler, the API server, the caches, the work queue and NetBox's records, as one state machine; its properties |
| `AddressLedger` | the abstract specification: a ledger of reservations and published addresses, with no controllers, caches, finalizers or failures |
| `ClaimRefinement` | the refinement mapping: `ClaimController` implements `AddressLedger` |
| `ClaimInvariant` | the inductive invariants of the claim controller: `ViewsInvariant`, `SafetyInvariant`, `AddressInvariant`, `OwnerInvariant` |
| `ClaimControllerProofs`, `ClaimViewsProofs`, `ClaimRecordsProofs`, `ClaimAddressProofs`, `ClaimRefinementProofs` | the theorems about `ClaimController`: types, what the worker sees of claims, NetBox records, IPAddress objects, the owners that a release finds and the ledger |
| `PrefixResolution` | pure operators: the connection Secret, prefix references, gateways |
| `PoolController` | the pool controllers (one module for both kinds of pool: they share `reconcilePoolStatus`); its properties |
| `PoolInvariant`, `PoolControllerProofs` | its inductive invariants and theorems |
| `PoolAndClaims` | the composition: `ClaimController` and `PoolController`, with their proofs, as instances over shared state |
| `PoolAndClaimsInvariant`, `PoolAndClaimsProofs` | its inductive invariant and theorems |
| `NetBoxClient` | the requests behind a lookup, an allocation and a deletion: tags, pages, custom fields |
| `NetBoxInvariant`, `NetBoxClientProofs` | its inductive invariant and theorems |
| `MCClaimController`, `MCPoolController`, `MCPoolAndClaims`, `MCNetBoxClient` | constants of the small instances |

### ClaimController

The single worker (`MaxConcurrentReconciles: 1`) is a program counter `pc`, named after the
next call, and a record `job` of local variables. One call is one step:

* `Reconcile(n)` reads the claim that `claimCache` has under the name, applies the Cluster gate,
  and either adds the finalizer and returns, or goes on to `FetchPool`.
* `EnsureGet`, `FindByUID`, `Allocate` / `NoAvailableIP` / `PoolExhausted`, `CreateAddress` or
  `PatchAddress`, and `PollCache` are `ensureAddress` with the handler's `EnsureAddress` inside
  `CreateOrPatch`. `PatchAddress` is reached when an earlier claim of the same name has left its
  `IPAddress`, in the cache or in the API.
* `ReleaseGet`, `ReleaseFind`, `ReleaseFindByAddress`, `ReleaseDelete` are the handler's
  `ReleaseAddress`; `DeleteGet`, `Unprotect`, `DeleteAddress` the rest of `reconcileDelete`.
* Every return goes through `PatchClaim`, the deferred patch: a merge patch (`Merged`) of what
  the reconcile changed between the copy it read (`job.snap`) and the copy it leaves
  (`job.want`). The helper sends conditions, metadata and the rest of the status in three
  `Requests` and goes on after one has failed, so any part of a patch can be applied.
* An API write appends to the watch of its kind; `SyncClaim` and `SyncAddress` deliver the
  watch events in order to the caches and queue the claim. `Resync` is the informers' resync.
* Faults, each enabled by its name in `Faults` and counted up to `MaxFaults`: `callError` (a
  request fails without effect), `replyLost` (it takes effect and the caller sees an error),
  `lateApply` (the client gives up on a POST that NetBox applies later), `pollTimeout`, and
  `crash` (local variables and caches are lost, the queue is rebuilt). `releaseInterrupted`
  adds the faults that strike between the deletion of the NetBox record and that of the
  `IPAddress`; two findings live in that window, so it can be switched off to see what
  holds outside it.
* Users create and delete claims, the pool is created, edited, paused and unpaused, and the
  Cluster is paused, missing or running. A claim sees of the pool its state, the prefixes to
  allocate from, and the marks of its records (`PoolView`): the ownership tag and the claim UID
  field, by which the lookups find them.

Abstractions. An address is a model value and a prefix a set of them. A claim stands for its
UID; `NameOf` gives its name, and two claims may have the same one after the other. Owner
references other than the controlling one, labels and events are left out. A lookup in NetBox is
one atomic read, and several requests that only read or prepare (tags, the custom field,
connection secrets, prefixes that are not cached yet) are one step with the call they precede:
their failure is that call's failure. `NetBoxClient` is what is behind that step. Reads from the
caches do not fail. The pause annotation of a claim and the watch-filter label are not modelled.

### PrefixResolution and PoolController

`PrefixResolution` has NetBox's prefixes as a table of IDs, ranges, VRFs and gateways, and
translates what a resolution does with it: `LoadConnectionConfig` and `NewClient` decide whether
there is a client at all, `ResolvePrefixIDs` maps references by ID or CIDR, `PrefixDetail` has
the zero value for a prefix that is gone, `GatewayOf` is the precedence of the three sources,
`GatewayValid` the check of `ResolveGateway`, and `gatewayForPrefixID` and `gatewayForAddress`
are the two ways by which a claim gets a gateway, from the `gatewayDetails` that the status has
or that NetBox gives when it has none. An IP address is a family and a number.

In `PoolController` NetBox and the Secret change at any moment. `Reconcile` reads the caches,
records the generation and the count, and decides whether to call NetBox; `ResolveIDs` and
`ResolveDetails` are the two requests, between which NetBox may change; `Conclude` is what
follows them, up to the finalizer. `SyncAddresses` queues nothing: the pool is not the controlling
owner of its IPAddresses, so `Owns` does not map their events to it. `MayLag` says whether a
reconcile may start while the cache does not show the pool as it is; the code does not prevent
it.

`Patch` is the deferred patch, a request for the metadata and one for the status. The helper sends
the second whatever becomes of the first, so either may be applied without the other. The API
server rejects a status as a whole when it is not `Admissible`: when a condition has no
`lastTransitionTime`, or when two details have one ID (`listMapKey=id`). The pools keep their
conditions in the status object (`SetConditions` is a method of `NetBoxIPPoolStatus`, not of the
pools), so the helper does not treat them apart as it does a claim's.

`setPoolReadyCondition` and `setConditionFalse` (`pool_controller.go:231-253`) never set a
`lastTransitionTime`. The constant `StampsConditions` says whether conditions have one: `FALSE` is
the program, whose every status patch is rejected while its metadata patch (finalizer, label) goes
through; `TRUE` is the program with this one thing corrected. What is said of a pool's status holds
of the program only as far as it is checked with `FALSE`; what needs `TRUE` says so. `PoolAndClaims`
runs with `FALSE`, and its theorems hold with either.

### PoolAndClaims

The variables of both controllers, with an instance `C` of the claim controller that sees the pool
as the informer cache shows it (`Seen`, with the prefixes of the status or, as long as none are
stored, which is always with the program as it is, those the spec resolves to) and an instance `P` of the pool controller that sees the IPAddresses of the
first, in the API and in the cache. A step of one leaves the variables of the other alone. Both
modules' faults are switched off: what is left is the interleaving of two workers, the informers
and users. `C` and `P` are instances of `ClaimRefinementProofs` and `PoolControllerProofs`, which
extend the two modules, so that the proofs can cite what is proved of each controller on its own.

`InventoryAssumption` says what "nothing fails" means for NetBox: it answers, the references of
every spec resolve, and prefixes named by ID exist. The specs share one ownership tag and one
claim UID field.

### NetBoxClient

Several managers with one claim each share NetBox. A lookup is `ListTag`, perhaps `PostTag`, and
one `Page` after the other: an offset into the list of tagged rows, which NetBox orders by
address. An allocation goes on with `ListField`, the tags of the request and `Post`. Rows of
other clusters come and go at any moment, requests fail, and replies are lost. `disturbed` is a
history variable: the clients whose list lost a row before their position while they read it.

The operators called faulty variants are not part of the specifications: each is an operation
with a plausible mistake, and `PROJECT.json` pairs each property with one of them that violates
it.

## The runs

| run | question | instance |
|---|---|---|
| `claim_faults` | is what is published reserved for its claim, and safe from other releases, when anything but a release is interrupted, NetBox applies a POST late and the ownership tag is edited? | 2 claims, 2 addresses in 2 prefixes, 2 tags, 2 faults |
| `claim_lag` | is the ledger implemented, are records unique and bracketed by the finalizer, is no IPAddress missed by a release, no record of another claim found by an old address and no claim Ready with its predecessor's, when caches lag and the manager restarts? is `OwnerInvariant` one? | 3 claims with 2 names, lag 2, 1 crash |
| `claim_gates` | is the claim served, does it go, and is the ledger implemented, while pool and Cluster come, go and pause? | 1 claim, 4 views of the pool, 3 Cluster states, 2 faults |
| `claim_liveness` | is the ledger implemented, are two competing claims served, and do deleted claims go? are `SafetyInvariant` and `AddressInvariant` invariants? | 2 claims, 1 fault |
| `pool_outage` | what does the program, whose status patches are all rejected, conclude about a pool, and does a deleted one go, while NetBox, its prefixes and the Secret change? is `StatusInvariant` one? | 3 specs, 3 states of NetBox, 1 change by users, 1 fault, 1 IPAddress |
| `pool_repaired` | the same with a `lastTransitionTime` in the condition: does the pool become Ready, not without prefixes, and does its count catch up? is `StatusInvariant` one? | the same |
| `pool_claims` | do the two controllers agree while the pool is edited, paused and deleted: is the ledger kept and no record leaked while the pool exists, and does what is published stay true even after it? is `TogetherInvariant` one? | 1 claim, 2 specs over 2 one-address prefixes, 1 change |
| `netbox_client` | is a paged lookup as good as an atomic one, and does everyone finish? is `ClientInvariant` one? | 2 clients, 3 addresses, pages of one row, 1 foreign row at a time, 2 faults |
| `release_foreign`, `release_wedge`, `late_post_duplicates`, `pool_unready` | the findings below | |

Bounds. Two claims and two one-address prefixes are the smallest instance in which claims
compete, a prefix is full while the next is not, and a freed address goes to the other
claim; in `release_wedge` one address suffices. A third claim is needed for one that follows
another under its name while somebody else takes the freed address. Two faults allow a fault
during the recovery from a fault. `MaxLag` bounds the undelivered watch events of a kind when a
reconcile starts, not during it: 0 means that a reconcile starts on current caches, which still
go stale under it; 2 lets it start on a claim from before two of the writes of its finalizer,
status and deletion. The proofs need none of these bounds.

The three specs of the `pool_` runs name the same prefix by CIDR, by CIDR within a VRF, and twice;
their NetBox has all prefixes sound, or a CIDR that is ambiguous and a gateway of the wrong family,
or is down with an unreadable CA bundle and a prefix deleted. Pages of one row make every row a
page boundary; three addresses let the prefix be full when a lost reply has left a record.
`MaxChanges` bounds what users do to a pool; deletion, NetBox's changes and releases are not
counted. It is 1, so an edit is never reverted; the theorems are about any number.

`CHECK_DEADLOCK FALSE` is set because a controller whose claims are all gone, with the users'
and the faults' steps used up, really stops.

Fairness (`FairSpec`). The worker's calls return, the informers deliver, and the informers
resync (controller-runtime resyncs by default): weak fairness. `Reconcile(n)` is strongly fair
because the work queue is first-in first-out with back-off, so a queued claim is not overtaken
for ever by the retries of others, although the worker is busy again and again in between.
`PoolAndClaims` assumes less, weak fairness of each worker as a whole, which suffices for one
claim. Each client of `NetBoxClient` keeps working. Users, the Cluster, the pool, faults, other
clusters and NetBox's late requests owe nothing; NetBox may be down for ever, and only
`PoolBecomesReady` asks it to settle.

## Findings

* `release_foreign`: a restart (or a failing call) after the NetBox record is deleted and
  before the `IPAddress` is. NetBox gives the address to another claim, and the retried release
  finds that claim's record by address and deletes it
  (`internal/controller/ipaddressclaim_controller.go:356-364`).
* `release_wedge`: the same window without the second claim. The record is gone, the
  `IPAddress` is not, and `ReleaseAddress` fails on every retry (lines 322-331): the claim
  never goes. The e2e test (`test/e2e/e2e_test.go:187-205`) waits for claim and `IPAddress` to go
  once the record is gone. The unit test "does nothing when remote IP is already gone"
  (`ipaddressclaim_controller_test.go:591`) has no `IPAddress` and so covers only the neighbouring
  case, which is right.
* `late_post_duplicates`: the client gives up on a POST, the retry finds no record and
  allocates again, then NetBox applies the first request. The claim has two records; its
  release deletes one.
* `pool_unready`: the pool's condition has no `LastTransitionTime`
  (`internal/controller/pool_controller.go:236` and `:246`), which serialises as null, and the CRDs
  require one (`config/crd/bases/ipam.cluster.x-k8s.io_netboxippools.yaml:273-278`). Every status
  patch is rejected; no pool ever reports Ready, or not Ready, and no count, generation or prefix is
  stored. `StatusIsNeverStored` proves it for any number of edits and faults. Claims are served all
  the same, because the claim handler resolves prefixes and gateways itself when the status has
  none.

Observations without a run of their own, because no document promises otherwise or because a
run above states the boundary:

* With caches that lag at the start of a reconcile *and* a poll that times out or a reply that is
  lost, `AddressImpliesFinalizer` does not hold: a release can miss an
  `IPAddress` that the cache does not show yet. A later claim of the same name then finds it and
  is reported Ready with an address that NetBox has not reserved for it.
* With caches that lag at the start of a reconcile and one failed call or late request,
  `OnlyOwnRecordsDeleted` does not hold even if no release is interrupted: the creation of an
  `IPAddress` fails after its claim has been given a freed address; a reconcile of the previous
  owner that starts on an old cache finds its `IPAddress` there, which is gone, and by its address
  the record of the next claim, which nothing published protects yet. The ledger is then not
  implemented either, although no address is ever published twice. `ClaimLag.cfg` with
  `"callError"` added to `Faults` shows it; without a failing call it is a theorem that it cannot
  happen.
* A pool that is deleted while a claim is being allocated goes, because its cached count is zero
  (`pool_controller.go:106`). When the claim is deleted `ReleaseAddress` has no pool and does
  nothing, and the NetBox record stays. `NoLeakWhilePoolExists` says that this is the only way, and
  `PublishedStaysTrue` that nothing published becomes untrue even then.
* An edit of the ownership tag or the claim UID field hides the records from both lookups: after
  a restart a claim may allocate a second time, and a release fails for ever
  (`ipaddressclaim_controller.go:152-153`).
* A listing that loses a row on a page it has read skips a row it has not
  (`client.go:518-539`), so a claim may be allocated twice or its record never released.
  `LookupIsExact` holds for every lookup that is not disturbed in this way.
* As no status is stored, `MustResolve` always holds: every reconcile of a pool resolves again,
  fails with its patch and is retried, although the comment at `pool_controller.go:77-81` wants to
  "Only re-resolve prefixes against NetBox when the pool spec has actually changed". This also
  hides the next two flaws, which a `lastTransitionTime` would bring out.
* With a corrected condition, `observedGeneration` is set before the resolution
  (`pool_controller.go:71`): after a failed resolution of an edited spec the next reconcile takes
  the prefixes of the old spec for current and reports Ready. `PoolOutage.cfg` with
  `StampsConditions = TRUE` shows `ReadyMeansResolved` violated.
* With a corrected condition, a spec that is edited and edited back while the pool's cache lags: the
  reconcile of the edit writes its prefixes; the next one starts on a copy of the pool that does not
  show them yet, resolves what that copy happens to have already, and its patch
  (`netboxippool_controller.go:64`, a difference to the copy) writes `observedGeneration` alone.
  The pool is Ready with the prefixes of the edit, and they are not resolved again, although
  nothing has failed.
* The comment at `pool_controller.go:79-80` says that "Owned IPAddress churn (every claim allocation
  or release) also triggers this reconciler". It does not: `Owns` maps the events of controlling
  owners, and the pool is not one (`pkg/ipamutil/address.go:51-83`). The allocated count and a
  blocked deletion catch up by retries and the informers' resync; `AllocatedCatchesUp` and
  `DeletedPoolGoes` hold because of those, not because of the trigger.
* With a corrected condition, two references that lead to one prefix still make every status patch
  of the pool fail.
* A static gateway of the wrong family makes the pool not Ready, although the comment at
  `common_types.go:129` says it is written "for every allocation whose address family matches".
* A prefix referenced by ID is never checked for existence. With a corrected condition, prefixes
  and gateways that change in NetBox reach the pool only with its next edit.

## The proofs

The theorems hold for every set of claims, names, addresses and pools, any number of faults and
any cache lag, except for what their assumptions exclude:

| theorems | state | assume |
|---|---|---|
| `ClaimControllerProofs!TypeCorrect` | `TypeOK` | |
| `ClaimViewsProofs!ViewsInvariantHolds` | what copies of claims say | |
| `ClaimRecordsProofs!SafetyInvariantHolds`, `AllocationIsIdempotent`, `NoRecordIsOrphaned` | `SafetyInvariant`, `OneRecordPerClaim`, `RecordImpliesFinalizer` | no late requests, `SameMarks` |
| `ClaimAddressProofs!AddressInvariantHolds`, `ObjectsAreHeld`, `PublishedIsReserved`, `NoAddressTwice`, `StatusIsTrue` | `AddressInvariant`, `AddressImpliesFinalizer`, `PublishedAddressIsReserved`, `PublishedAddressesDiffer`, `ReadyIsTrue` | `AddressFaults` |
| `ClaimAddressProofs!ReleaseKeepsToItsOwn` | `OnlyOwnRecordsDeleted` | `AddressFaults`, no lag at the start of a reconcile |
| `ClaimRefinementProofs!OwnersAreFound`, `LaggingReleaseKeepsToItsOwn` | `OwnerInvariant`, `OnlyOwnRecordsDeleted` | no fault but restarts, `SameMarks`; any lag |
| `ClaimRefinementProofs!ControllerImplementsLedger` | `ImplementsLedger` | no late requests, `SameMarks`, no release is interrupted, and no lag at the start of a reconcile or no fault but restarts |
| `PoolControllerProofs!TypeCorrect`, `StatusInvariantHolds`, `GatewaysAreRecovered` | `TypeOK`, `StatusInvariant`, `GatewayIsRecovered` | |
| `PoolControllerProofs!StatusIsNeverStored`, `ReadyFollowsTheSpec` | `Unset(pool)`, `ReadyMeansResolved` | `~StampsConditions`: the program as it is |
| `PoolControllerProofs!ReadyPoolsHavePrefixes` | `ReadyHasPrefixes` | `StampsConditions`: the corrected condition |
| `PoolAndClaimsProofs!TogetherInvariantHolds`, `NoLeak`, `PublishedIsTrue`, `LedgerOfTheTwo` | `TogetherInvariant`, `NoLeakWhilePoolExists`, `PublishedStaysTrue`, `LedgerIsKept` | nothing beyond `PoolAndClaims`; any lag |
| `NetBoxClientProofs!TypeCorrect`, `ClientInvariantHolds`, `LookupExact`, `OnlyOwnDeleted` | `TypeOK`, `ClientInvariant`, `LookupIsExact`, `OnlyOwnRowsDeleted` | |

The assumptions are where the code stops being right, not where the proofs do:

* No late requests (`"lateApply" \notin Faults`): `late_post_duplicates`. `SameMarks` (no edit of
  the pool changes tag or field): the observation on edited tags.
* `AddressFaults`: no release is interrupted between the record and the object
  (`release_foreign`, `release_wedge`), and with lag at the start of a reconcile no poll times out
  and no reply is lost (the first observation). Requests may be applied late and marks may change.
* No fault but restarts, when caches lag: the second observation, where one failed call is enough.
* `~StampsConditions` and `StampsConditions` choose the program: as it is, or corrected.
  `ReadyFollowsTheSpec` needs the first because of the flaw at `pool_controller.go:71`.

Assumptions on constants in the component modules (`ClaimController`, `PoolController`,
`NetBoxClient`) are about types; `NetBoxClient` also assumes that the UIDs of other clusters'
claims differ from the clients'. `PoolAndClaims` has `InventoryAssumption` and discharges the
assumptions of its two instances from its own.

None of the properties is inductive: they hold because of what the worker believes, and it
believes a cache. Every invariant is one of some instance of TLC as well.

**What the worker sees of claims** (`ViewsInvariant`). `CacheInOrder`: cache, pending events and
API show the life of a claim in order. `CopiesTrusted`: any copy of a claim, however old, that is
live and has the finalizer is right about the finalizer. The finalizer is only taken off by a
worker that has seen the deletion in the cache (`WorkerKnows`), and by then no older live copy can
come back. A patch goes to the API by name, so a claim that follows another under its name could
lose a finalizer that was dropped for its predecessor: `NamesInTurn`, `DeletionsBeforeFinalizers`
and `WorkerKnowsNamesakes` say that a name belongs to one claim at a time in every view, and that
a successor has no finalizer until the informer has forgotten the predecessor.

**Records** (`SafetyInvariant`). `WorkerKnowsRecords`: the worker allocates only on a live copy
with the finalizer and after seeing no record; it drops the finalizer only on a deleted copy, when
no record is left. With a single worker nobody else creates a record in between.
`NoPoolNoRecords`: a release without a pool skips NetBox, which is sound as long as the pool did
not exist before. (A pool that is deleted under its claims is `PoolAndClaims`.)

**IPAddress objects** (`AddressInvariant`). A release reads the object from a cache and looks for
the record by its address, so that what the cache has must be what NetBox has reserved.
`InformerKnowsAddresses` follows the object through the pending events: the informer gets to see
it as it is, hears of a deletion last, and hears that an address is free before it hears of its
next owner. `CreatedIsSeen`: a new object is in the cache, or the worker still waits for it, or
(without lag) the next reconcile waits for the event. `ObjectsOwned`: an object belongs to a claim
of its name that has the finalizer. `WorkerKnowsObject`, `WorkerKnowsRelease` and
`WorkerKnowsOwner` carry this through the calls of an allocation and of a release; the last one
needs current caches, and gives `OnlyOwnRecordsDeleted`.

**Owners under lag** (`OwnerInvariant`). A release that starts on an old cache looks for a record by
the address that an old copy of its `IPAddress` shows. `CopiesKnowRecords` says why it finds no
record of another name: NetBox gives an address away only after the record is deleted, the worker
then deletes the object in the same reconcile (no call fails, and no release is interrupted there),
and the next owner's worker does not finish before its own object, whose event comes after that
deletion, has reached the cache. So an old copy and a record of another name can share an address
only while the worker is in that wait, and then it does not release. A restart there rebuilds the
caches from the API; a failing call does not, which is why it is excluded. `ReleaseKnowsRecord`
carries this through the calls of a release. It needs `SafetyInvariant`, by which a name has the
records of only one claim, and `AddressInvariant`, by which the informer sees deletions in order.

**The ledger.** Under the mapping of `ClaimRefinement` each action is one step of the ledger or
none: `Allocate` grants, `CreateAddress` publishes, `ReleaseDelete` revokes, `DeleteAddress`
withdraws, `DeleteClaim` asks to close or closes, the patch that takes the finalizer off closes,
and all others stutter. The guards of the ledger's steps are where the invariants are used; whose
record `ReleaseDelete` revokes comes from `WorkerKnowsOwner` without lag and from `OwnerInvariant`
with it.

**Pools.** `StatusInvariant` holds of either program. `NothingIsStored` is its part about the program
as it is: a worker that patches has a condition (`WorkerHasPrefixes`), so the status it asks for is
not `Admissible`; hence the status in the API stays as it was created, so do the copies of it in
the cache and the worker, and a worker that starts on an empty status must resolve, so that what it
reports comes from the NetBox it has asked and the spec it has read. The other parts are about the
corrected program, for which they do not hold vacuously: the status that any copy has was admissible
when it was written, and a merge patch never drops prefixes (`PrefixesStay`), so that Ready, which
the worker sets on its own copy, is right about the pool. `GatewaysAreRecovered` rests on the check
of every gateway against its prefix, in `GatewaysAreValid` for what is cached and in `gatewayDetails`
itself for a live lookup, and on the fact that of disjoint prefixes only one contains an address.

**The two together** (`TogetherInvariant`). The lemmas of each component that a step preserves its
invariant are cited through `C` and `P`. A step of one controller is a stutter of the other but
for what they share. For the pool controller that is the set of IPAddresses, of which its
invariants ask nothing but that it is one. For the claim controller it is the cached pool, which
its module changes by `ChangePool` at any moment, with two provisos that need an invariant of
their own. `PrefixesFromSpecs`: every copy of the pool has the prefixes of some spec, so that what
`Seen` gives is a pool as the claim handler may meet it. And the claim controller alone may assume
that a pool does not disappear once it exists. Here it does, so `ClaimsAgree` asks for the
invariants that need it only while the pool exists, and `GoneWhenUnseen` says that a claim handler
which misses the pool is right that it is gone, however old the cache is. `AddressInvariant` holds
for any change of the pool (`AnyPoolAddresses`): a release without a pool skips NetBox and leaves
a record too many, never one too few. `LedgerOfTheTwo` then follows from the refinement of the
claim controller step by step.

**Lists** (`ClientInvariant`). The position of a row is the number of rows with smaller addresses.
`InsertionMovesOn` and `DeletionMovesBack` are about these numbers: an insertion moves a row to a
later position or not at all, a deletion at or after a position moves no row from there to before
it. Hence `RowsAreAhead`: as long as no row was deleted before its position, a client that has
found nothing has all its rows ahead; after the last page there is nothing ahead, so it has none
when it allocates. `RowsAreMarked` says that it would recognise them: whatever the metadata sets,
a request carries the ownership tag and the claim's own UID.

Only model-checked: the liveness properties (`ClaimIsServed`, `DeletedClaimGoes`,
`PoolBecomesReady`, `AllocatedCatchesUp`, `DeletedPoolGoes`, `DeletionCompletes`, `ClientsFinish`),
because liveness under fairness is out of the prover's reach. Every safety invariant and action
property of the passing runs is a theorem, and the theorems cover the instances of those runs.
`NetBoxClient` is not composed with the claim controller: that a lookup is one atomic read there is
an abstraction, which `LookupExact` supports as far as it holds.

## What is not modelled, and the plan

The plan is done but for what the tools cannot reach: fairness. Two extensions would be worth
their proofs: `PoolAndClaims` with the faults of its components, and several pools per manager; today
it is one pool with the claims that reference it, and nothing fails.

Not modelled, and why:

* The manager's flags, probes, logging and event recording: they change no state that a property
  is about. Leader election is taken to leave one active manager.
* The pause annotation and the watch-filter label of claims: they select which events arrive.
* The validation of specs by the API server: runs use specs it accepts.
* Encoding, headers, tokens, slugs and the sanitising of errors in the client, and the pages of
  the lists of tags, custom fields, prefixes and of the lookup by address.
* Tenant, VRF, DNS name, status and description of an allocation, which nobody reads back.
* Garbage collection of an `IPAddress` by its owner references: the finalizer of the claim
  outlives the object, as `AddressImpliesFinalizer` says.
* Several workers per controller: the manager sets `MaxConcurrentReconciles: 1` for claims, and
  a work queue never hands one pool to two workers.
