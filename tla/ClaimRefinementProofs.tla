------------------------- MODULE ClaimRefinementProofs -------------------------
(***************************************************************************)
(* The claim controller implements the address ledger, as long as nothing  *)
(* is applied late or interrupts a release halfway, and either the caches  *)
(* are up to date whenever a reconcile starts or no call fails.            *)
(***************************************************************************)
EXTENDS ClaimRefinement, ClaimRecordsProofs, ClaimAddressProofs

\* The assumption about faults and caches.
LedgerFaults ==
    /\ {"lateApply", "releaseInterrupted"} \cap Faults = {}
    /\ MaxLag = 0 \/ Faults \subseteq {"crash"}

(***************************************************************************)
(* A release deletes its own record, however old its caches are.           *)
(***************************************************************************)

\* The lookups may only miss records that are not there, and copies only go.
LEMMA CopiesKnowKept ==
    ASSUME CopiesKnowRecords, records' \subseteq records,
           \A n \in Names : Copies(n)' \subseteq Copies(n),
           pc \in {"CreateAddress", "PollCache"} =>
               pc' \in {"CreateAddress", "PollCache"} /\ job'.claim = job.claim
    PROVE  CopiesKnowRecords'
  BY DEF CopiesKnowRecords

\* The API's object is one of its copies.
LEMMA ObjectIsCopy ==
    ASSUME TypeOK, WatchReachesAPI, NEW n \in Names
    PROVE  ipAddress[n] \in Copies(n)
  BY DEF WatchReachesAPI, Copies

\* While the objects and the informer stand still.
LEMMA CopiesKnowQuiet ==
    ASSUME CopiesKnowRecords, records' \subseteq records,
           UNCHANGED <<ipAddress, addressCache, addressWatch>>,
           pc \in {"CreateAddress", "PollCache"} =>
               pc' \in {"CreateAddress", "PollCache"} /\ job'.claim = job.claim
    PROVE  CopiesKnowRecords'
  BY AddressesUnmoved, CopiesKnowKept

\* The record that an IPAddress object stands for is the only one with its address.
LEMMA RecordOfObject ==
    ASSUME AddressInvariant, pc \notin ReleaseWindow, NEW n \in Names, Found(ipAddress[n]),
           NEW r \in records, r.address = ipAddress[n].address
    PROVE  r.owner = ipAddress[n].owner /\ NameOf[r.owner] = n
<1>1. PICK s \in records : s.owner = ipAddress[n].owner /\ s.address = ipAddress[n].address
  BY DEF AddressInvariant, PublishedAddressIsReserved, Reserved
<1>2. r = s
  BY <1>1 DEF AddressInvariant, RecordsDiffer
<1>3. ipAddress[n] # NotFound
  BY DEF Found, NotFound
<1> QED
  BY <1>1, <1>2, <1>3 DEF AddressInvariant, ObjectsOwned

\* A release that writes its object gives it no other address.
LEMMA CopiesKnowRelease ==
    ASSUME TypeOK, WatchReachesAPI, CopiesKnowRecords, NEW n \in Names, NEW obj \in AddressObject,
           WriteAddress(n, obj), obj.address \in {NoAddress, ipAddress[n].address},
           UNCHANGED <<records, addressCache>>, pc \notin {"CreateAddress", "PollCache"}
    PROVE  CopiesKnowRecords'
<1>1. CASE obj = ipAddress[n]
  <2>1. ipAddress' = ipAddress /\ addressWatch' = addressWatch
    BY <1>1 DEF WriteAddress, TypeOK
  <2> QED
    BY <2>1, CopiesKnowQuiet
<1>2. CASE obj # ipAddress[n]
  <2>1. \A m \in Names : Copies(m)' = IF m = n THEN Copies(m) \cup {obj} ELSE Copies(m)
    BY <1>2, AddressWatchAfterWrite
  <2>2. \A r \in records : r.address = obj.address => NameOf[r.owner] = n
    <3>1. ASSUME NEW r \in records, r.address = obj.address PROVE NameOf[r.owner] = n
      <4>1. r.address # NoAddress
        BY NoAddressAssumption DEF TypeOK, Record
      <4>2. r.address = ipAddress[n].address
        BY <3>1, <4>1
      <4> QED
        BY <4>2, ObjectIsCopy DEF CopiesKnowRecords
    <3> QED
      BY <3>1
  <2> QED
    BY <2>1, <2>2 DEF CopiesKnowRecords
<1> QED
  BY <1>1, <1>2

\* When the wait for the object is over, no older copy shows its address any more.
LEMMA CopiesKnowPoll ==
    ASSUME SafetyInvariant, AddressInvariant, CopiesKnowRecords, pc = "PollCache",
           Found(addressCache[Name]), UNCHANGED <<ipAddress, addressCache, addressWatch, records>>
    PROVE  CopiesKnowRecords'
<1>1. /\ TypeOK /\ job.claim \in Claims /\ Name \in Names /\ NameOf[job.claim] = Name
      /\ ipAddress[Name].owner = job.claim
      /\ InformerKnowsAddresses /\ OneRecordPerClaim
  BY NamesAssumption DEF SafetyInvariant, RecordsInvariant, AddressInvariant, ViewsInvariant, TypeOK,
     WorkerKnowsObject, Name
<1>2. Found(ipAddress[Name])
  BY <1>1, NoClaimAssumption DEF AddressInvariant, ObjectsOwned, NotFound
<1>3. addressCache[Name].address = ipAddress[Name].address
  <2>1. addressCache[Name] \in Copies(Name) /\ addressCache[Name] # NotFound
    BY DEF Copies, Found, NotFound
  <2> QED
    BY <1>1, <1>2, <2>1 DEF InformerKnowsAddresses, CopiesAgree
<1>4. \A i \in EventsOf(Name) : Found(addressWatch[i].object)
  BY <1>1, <1>2 DEF InformerKnowsAddresses, DeletionIsLast
<1>5. ASSUME NEW n \in Names \ {Name}, NEW obj \in Copies(n) PROVE obj.address # ipAddress[Name].address
  <2>1. CASE obj = addressCache[n]
    BY <1>1, <1>3, <2>1 DEF InformerKnowsAddresses, AddressesInTurn
  <2>2. ASSUME NEW i \in EventsOf(n), obj = addressWatch[i].object,
               obj.address = ipAddress[Name].address
        PROVE  FALSE
    <3>1. /\ Found(addressWatch[i].object)
          /\ addressCache[Name].address = addressWatch[i].object.address
      BY <1>2, <1>3, <2>2 DEF Found
    <3>2. \E j \in EventsOf(Name) : ~Found(addressWatch[j].object)
      BY <1>1, <3>1 DEF InformerKnowsAddresses, AddressesInTurn
    <3> QED
      BY <1>4, <3>2
  <2> QED
    BY <2>1, <2>2 DEF Copies
<1>6. ASSUME NEW n \in Names, NEW obj \in Copies(n), NEW r \in records, r.address = obj.address
      PROVE  NameOf[r.owner] = n
  <2>1. CASE r.owner = job.claim
    <3>1. PICK s \in records : s.owner = job.claim /\ s.address = ipAddress[Name].address
      BY <1>1, <1>2 DEF AddressInvariant, PublishedAddressIsReserved, Reserved, ReleaseWindow
    <3>2. r = s
      BY <1>1, <2>1, <3>1 DEF OneRecordPerClaim
    <3> QED
      BY <1>1, <1>5, <1>6, <2>1, <3>1, <3>2
  <2>2. CASE r.owner # job.claim
    BY <1>6, <2>2 DEF CopiesKnowRecords
  <2> QED
    BY <2>1, <2>2
<1>7. \A n \in Names : Copies(n)' = Copies(n)
  BY AddressesUnmoved
<1> QED
  BY <1>6, <1>7 DEF CopiesKnowRecords

\* A restart may come before the object is created: then no object shows the new record's address.
LEMMA CopiesKnowCrash ==
    ASSUME AddressInvariant, CopiesKnowRecords, Restart, pc \notin ReleaseWindow
    PROVE  CopiesKnowRecords'
<1>1. UNCHANGED <<ipAddress, records>> /\ addressCache' = ipAddress /\ Len(addressWatch') = 0
  BY DEF Restart, netbox
<1>2. \A n \in Names : Copies(n)' = {ipAddress[n]}
  BY <1>1 DEF EventsOf, Copies
<1>3. TypeOK
  BY DEF AddressInvariant, ViewsInvariant
<1>4. \A r \in records : r.address # NoAddress
  BY <1>3, NoAddressAssumption DEF TypeOK, Record
<1> QED
  BY <1>1, <1>2, <1>4, RecordOfObject DEF CopiesKnowRecords, Found

\* A POST: its record is new to everybody but the worker.
LEMMA CopiesKnowAllocate ==
    ASSUME TypeOK, CopiesKnowRecords, Allocate, Faults \subseteq {"crash"}
    PROVE  CopiesKnowRecords'
<1>1. PICK a : records' = records \cup {Marked(job.claim, a, job.pool)}
  BY DEF Allocate
<1>2. /\ pc' = "CreateAddress" /\ job'.claim = job.claim /\ pc = "Allocate"
      /\ UNCHANGED <<ipAddress, addressCache, addressWatch>>
  BY DEF TypeOK, Job, Allocate, Fault, Proceed, InHand, kubernetes, claims, addresses, caches
<1>3. \A n \in Names : Copies(n)' = Copies(n)
  BY <1>2, AddressesUnmoved
<1> QED
  BY <1>1, <1>2, <1>3 DEF CopiesKnowRecords, Marked

\* CreateOrPatch publishes what is reserved for the claim.
LEMMA CopiesKnowCreate ==
    ASSUME AddressInvariant, CopiesKnowRecords, CreateAddress, Faults \subseteq {"crash"}
    PROVE  CopiesKnowRecords'
<1>1. /\ TypeOK /\ pc = "CreateAddress" /\ job.claim \in Claims /\ Name \in Names
      /\ job.address \in AddressObject /\ ipAddress[Name] = NotFound
      /\ NameOf[job.claim] = Name
      /\ job.address.owner = job.claim /\ Found(job.address) /\ Reserved(job.address)
  BY NamesAssumption DEF AddressInvariant, ViewsInvariant, TypeOK, Job, CreateAddress, WorkerKnowsObject, Name
<1>2. /\ WriteAddress(Name, job.address) /\ pc' = "PollCache" /\ job' = job
      /\ UNCHANGED <<records, addressCache>>
  BY <1>1 DEF CreateAddress, Continue, Fault, Found, NotFound, netbox, caches
<1>3. \A m \in Names : Copies(m)' = IF m = Name THEN Copies(m) \cup {job.address} ELSE Copies(m)
  <2>1. job.address # ipAddress[Name]
    BY <1>1 DEF Found, NotFound
  <2> QED
    BY <1>1, <1>2, <2>1, AddressWatchAfterWrite
<1>4. \A r \in records : r.address = job.address.address => r.owner = job.claim
  BY <1>1 DEF AddressInvariant, RecordsDiffer, Reserved
<1> QED
  BY <1>1, <1>2, <1>3, <1>4 DEF CopiesKnowRecords

LEMMA InitOwner == Init => OwnerInvariant
  BY DEF Init, OwnerInvariant, CopiesKnowRecords, ReleaseKnowsRecord

\* What the worker is to find follows from what the copies show.
LEMMA ReleaseKnowsNext ==
    ASSUME SafetyInvariant, AddressInvariant, OwnerInvariant, [Next]_vars
    PROVE  ReleaseKnowsRecord'
<1> USE DEF kubernetes, claims, addresses, netbox, external, caches, OwnerInvariant
<1> DEFINE Looking == {"ReleaseFind", "ReleaseFindByAddress"}
<1>1. /\ TypeOK /\ posts = {}
      /\ \A r \in records : r.owner \in Claims /\ claim[r.owner].finalizer
  BY DEF SafetyInvariant, ViewsInvariant, RecordsInvariant, RecordImpliesFinalizer, TypeOK, Record
<1>2. CASE ReleaseGet
  <2>1. /\ pc = "ReleaseGet" /\ pc' = "ReleaseFind" /\ records' = records
        /\ job'.address = addressCache[Name] /\ job'.claim = job.claim /\ job.claim \in Claims
    BY <1>1, <1>2 DEF ReleaseGet, Proceed, TypeOK, Job
  <2>2. Name \in Names /\ Name' = Name /\ addressCache[Name] \in Copies(Name)
    BY <2>1, NamesAssumption DEF Name, Copies
  <2> QED
    BY <2>1, <2>2 DEF CopiesKnowRecords, ReleaseKnowsRecord
<1>3. CASE ReleaseFind
  <2>1. /\ records' = records /\ pc = "ReleaseFind"
        /\ \/ pc' \in {"ReleaseFindByAddress", "DeleteGet"} /\ job' = job
           \/ /\ pc' = "ReleaseDelete"
              /\ \E r \in RecordsOf(job.claim) : job'.claim = job.claim /\ job'.record = r
    BY <1>1, <1>3 DEF ReleaseFind, FoundByUID, Proceed, Continue, TypeOK, Job
  <2> QED
    BY <2>1 DEF ReleaseKnowsRecord, RecordsOf, Name
<1>4. CASE ReleaseFindByAddress
  <2>1. /\ pc = "ReleaseFindByAddress" /\ job.claim \in Claims
        /\ \/ pc' = "PatchClaim"
           \/ \E r \in records : /\ r.address = job.address.address
                                 /\ pc' = "ReleaseDelete" /\ job'.claim = job.claim /\ job'.record = r
    BY <1>1, <1>4 DEF ReleaseFindByAddress, FoundByAddress, Proceed, ReleaseFailed, ReturnError, TypeOK, Job
  <2>2. job.snap.phase = "deleting"
    BY <2>1 DEF SafetyInvariant, ViewsInvariant, WorkerKnows, ReleaseCalls
  <2>3. ASSUME NEW r \in records, r.address = job.address.address PROVE r.owner = job.claim
    <3>1. NameOf[r.owner] = Name
      BY <2>1, <2>3 DEF ReleaseKnowsRecord
    <3>2. \A d \in Others(job.claim) : ~claim[d].finalizer
      BY <2>1, <2>2 DEF SafetyInvariant, ViewsInvariant, WorkerKnowsNamesakes
    <3> QED
      BY <1>1, <3>1, <3>2 DEF Others, Name
  <2> QED
    BY <2>1, <2>3 DEF ReleaseKnowsRecord
<1>5. CASE UNCHANGED <<pc, job>> /\ records' \subseteq records
  BY <1>5 DEF ReleaseKnowsRecord, Name
<1>6. CASE pc' \notin Looking \cup {"ReleaseDelete"}
  BY <1>6 DEF ReleaseKnowsRecord
<1>7. CASE WorkerStep
  BY <1>2, <1>3, <1>4, <1>6, <1>7 DEF WorkerStep, FetchPool, EnsureGet, FindByUID, Allocate, NoAvailableIP,
     PoolExhausted, CreateAddress, PatchAddress, PollCache, ReleaseDelete, DeleteGet, Unprotect,
     DeleteAddress, PatchClaim, Proceed, Continue, Return, ReturnError, WithPool, AllocationFailed,
     ReleaseFailed, Finish
<1>8. CASE FaultStep
  BY <1>6, <1>8 DEF FaultStep, AllocateTimesOut, CallFails, Crash, Restart, AllocationFailed, ReleaseFailed,
     ReturnError, Proceed, Finish
<1>9. CASE \E n \in Names : Reconcile(n)
  <2>1. pc' \in {pc, "FetchPool", "PatchClaim"} /\ pc = "idle"
    BY <1>9 DEF Reconcile, ReconcileClaim, Proceed, AddFinalizer
  <2> QED
    BY <1>6, <2>1
<1>10. CASE \/ SyncClaim \/ SyncAddress \/ Resync \/ ChangePool \/ ChangeCluster \/ UNCHANGED vars
            \/ \E c \in Claims : CreateClaim(c) \/ DeleteClaim(c)
  BY <1>5, <1>10 DEF SyncClaim, SyncAddress, Resync, ChangePool, ChangeCluster, CreateClaim, DeleteClaim, vars
<1>11. ~LateAllocation
  BY <1>1 DEF LateAllocation
<1> QED
  BY <1>7, <1>8, <1>9, <1>10, <1>11 DEF Next, Environment

\* Every step keeps the invariant, as long as nothing fails but the manager.
LEMMA NextOwner ==
    ASSUME Faults \subseteq {"crash"}
    PROVE  SafetyInvariant /\ AddressInvariant /\ OwnerInvariant /\ [Next]_vars => OwnerInvariant'
<1> SUFFICES ASSUME SafetyInvariant, AddressInvariant, OwnerInvariant, [Next]_vars
             PROVE  CopiesKnowRecords'
  BY ReleaseKnowsNext DEF OwnerInvariant
<1> USE DEF kubernetes, claims, addresses, netbox, external, caches, OwnerInvariant
<1>1. TypeOK /\ posts = {} /\ InformerKnowsAddresses /\ WatchReachesAPI
  BY DEF SafetyInvariant, ViewsInvariant, RecordsInvariant, AddressInvariant, InformerKnowsAddresses
<1>2. CASE WorkerStep
  <2>1. CASE \/ FetchPool \/ EnsureGet \/ FindByUID \/ NoAvailableIP \/ PoolExhausted
             \/ ReleaseGet \/ ReleaseFind \/ ReleaseFindByAddress \/ ReleaseDelete \/ DeleteGet \/ PatchClaim
    <3>1. /\ UNCHANGED <<ipAddress, addressCache, addressWatch>> /\ records' \subseteq records
          /\ pc \notin {"CreateAddress", "PollCache"}
      BY <2>1 DEF FetchPool, EnsureGet, FindByUID, NoAvailableIP, PoolExhausted, ReleaseGet, ReleaseFind,
         ReleaseFindByAddress, ReleaseDelete, DeleteGet, PatchClaim
    <3> QED
      BY <3>1, CopiesKnowQuiet
  <2>2. CASE PatchAddress
    <3>1. UNCHANGED <<ipAddress, addressCache, addressWatch, records>> /\ pc = "PatchAddress"
      BY <2>2, PatchAddressIsQuiet DEF PatchAddress
    <3> QED
      BY <3>1, CopiesKnowQuiet
  <2>3. CASE PollCache
    BY <2>3, CopiesKnowPoll DEF PollCache, Fault
  <2>4. CASE Unprotect \/ DeleteAddress
    <3>1. /\ pc \in ReleaseWindow /\ Name \in Names /\ ipAddress[Name] \in AddressObject
          /\ UNCHANGED <<records, addressCache>>
      <4>1. pc \in ReleaseWindow /\ pc # "idle" /\ UNCHANGED <<records, addressCache>>
        BY <2>4 DEF Unprotect, DeleteAddress, ReleaseWindow
      <4>2. Name \in Names
        BY <1>1, <4>1, NamesAssumption DEF TypeOK, Name
      <4> QED
        BY <1>1, <4>1, <4>2 DEF TypeOK
    <3>2. NotFound \in AddressObject
      BY DEF NotFound, AddressObject
    <3>3. \E obj \in AddressObject : WriteAddress(Name, obj) /\ obj.address \in {NoAddress, ipAddress[Name].address}
      <4>1. CASE Unprotect
        <5>1. [ipAddress[Name] EXCEPT !.protected = FALSE] \in AddressObject
              /\ [ipAddress[Name] EXCEPT !.protected = FALSE].address = ipAddress[Name].address
          BY <3>1 DEF AddressObject
        <5> QED
          BY <4>1, <5>1 DEF Unprotect
      <4>2. CASE DeleteAddress
        <5>1. WriteAddress(Name, ipAddress[Name]) \/ WriteAddress(Name, NotFound)
          BY <4>2 DEF DeleteAddress
        <5> QED
          BY <3>1, <3>2, <5>1 DEF NotFound
      <4> QED
        BY <2>4, <4>1, <4>2
    <3> QED
      BY <1>1, <3>1, <3>3, CopiesKnowRelease DEF ReleaseWindow
  <2> QED
    BY <1>1, <1>2, <2>1, <2>2, <2>3, <2>4, CopiesKnowAllocate, CopiesKnowCreate DEF WorkerStep
<1>3. CASE FaultStep
  BY <1>3, CopiesKnowCrash DEF FaultStep, AllocateTimesOut, CallFails, Crash, Fault
<1>4. CASE SyncAddress
  <2>1. \A n \in Names : Copies(n)' \subseteq Copies(n)
    BY <1>1, <1>4, AddressWatchAfterSync
  <2> QED
    BY <1>4, <2>1, CopiesKnowKept DEF SyncAddress
<1>5. CASE \/ \E n \in Names : Reconcile(n)
           \/ SyncClaim \/ Resync \/ ChangePool \/ ChangeCluster \/ UNCHANGED vars
           \/ \E c \in Claims : CreateClaim(c) \/ DeleteClaim(c)
  <2>1. /\ UNCHANGED <<ipAddress, addressCache, addressWatch, records>>
        /\ UNCHANGED <<pc, job>> \/ pc = "idle"
    BY <1>5 DEF Reconcile, SyncClaim, Resync, ChangePool, ChangeCluster, CreateClaim, DeleteClaim, vars
  <2> QED
    BY <2>1, CopiesKnowQuiet
<1>6. ~LateAllocation
  BY <1>1 DEF LateAllocation
<1> QED
  BY <1>2, <1>3, <1>4, <1>5, <1>6 DEF Next, Environment

\* What is proved of the owners: of the worker alone when no cache lags, and with the copies when
\* no call fails.
OwnersKnown == MaxLag = 0 \/ OwnerInvariant

LEMMA NextOwners ==
    ASSUME LedgerFaults
    PROVE  SafetyInvariant /\ AddressInvariant /\ OwnersKnown /\ [Next]_vars => OwnersKnown'
  BY NextOwner DEF LedgerFaults, OwnersKnown

\* A claim that is released is being deleted, or gone without finalizer.
LEMMA ReleasedClaim ==
    ASSUME SafetyInvariant, pc \in ReleaseCalls
    PROVE  /\ job.claim \in Claims /\ claim[job.claim] \in ClaimObject
           /\ claim[job.claim].finalizer => claim[job.claim].phase = "deleting"
<1>1. /\ ViewsInvariant /\ TypeOK /\ pc # "idle" /\ job.snap.phase = "deleting"
  BY DEF SafetyInvariant, ViewsInvariant, WorkerKnows, ReleaseCalls, ReleaseWindow
<1>2. job.claim \in Claims /\ claim[job.claim].phase # "live"
  BY <1>1, ReleasedFacts
<1>3. Held(claim[job.claim])
  BY <1>1, <1>2 DEF ViewsInvariant, InformerKnows, CopiesTrusted
<1> QED
  BY <1>1, <1>2, <1>3 DEF TypeOK, Held, Exists

\* ReleaseDelete takes away no record but that of its claim, which is being deleted.
LEMMA OwnReleased ==
    ASSUME SafetyInvariant, AddressInvariant, OwnersKnown, ReleaseDelete
    PROVE  /\ job.record.owner = job.claim
           /\ job.record \in records => claim[job.claim].phase = "deleting"
<1>1. pc = "ReleaseDelete"
  BY DEF ReleaseDelete
<1>2. job.record.owner = job.claim
  BY <1>1 DEF OwnersKnown, OwnerInvariant, ReleaseKnowsRecord, AddressInvariant, WorkerKnowsOwner
<1>3. job.record \in records => claim[job.claim].finalizer
  BY <1>2 DEF SafetyInvariant, RecordsInvariant, RecordImpliesFinalizer
<1> QED
  BY <1>1, <1>2, <1>3, ReleasedClaim DEF ReleaseCalls

(***************************************************************************)
(* The ledger, seen from the controller.                                   *)
(***************************************************************************)

\* A claim holds what its records say, and nobody else's address is published for it.
LEMMA LedgerFacts ==
    ASSUME TypeOK, NEW c \in Claims
    PROVE  /\ Ledger!Holds(c) = {[owner |-> r.owner, address |-> r.address] : r \in RecordsOf(c)}
           /\ Ledger!Holds(c) = {} <=> RecordsOf(c) = {}
           /\ PublishedFor(c) # NoAddress =>
                 /\ Found(ipAddress[NameOf[c]]) /\ ipAddress[NameOf[c]].owner = c
                 /\ PublishedFor(c) = ipAddress[NameOf[c]].address
<1>1. ASSUME NEW x PROVE x \in Reservations <=> \E r \in records : x = [owner |-> r.owner, address |-> r.address]
  BY DEF Reservations
<1>2. ASSUME NEW x
      PROVE  x \in Ledger!Holds(c) <=>
                \E r \in RecordsOf(c) : x = [owner |-> r.owner, address |-> r.address]
  BY <1>1 DEF Ledger!Holds, RecordsOf
<1>3. Ledger!Holds(c) = {[owner |-> r.owner, address |-> r.address] : r \in RecordsOf(c)}
  BY <1>2
<1>4. Ledger!Holds(c) = {} <=> RecordsOf(c) = {}
  BY <1>2
<1> QED
  BY <1>3, <1>4 DEF PublishedFor, Found

\* The ledger stays when the records, the published addresses and the lives of claims stay.
LEMMA LedgerUnmoved ==
    ASSUME UNCHANGED records,
           \A c \in Claims : PublishedFor(c)' = PublishedFor(c) /\ LifeOf(claim[c])' = LifeOf(claim[c])
    PROVE  UNCHANGED Ledger!ledgerVars
BY DEF Ledger!ledgerVars, Reservations

\* A claim lives on when its phase stays or it is created.
LEMMA LifeFacts ==
    ASSUME NEW old \in ClaimObject, NEW new \in ClaimObject
    PROVE  /\ new.phase = old.phase => LifeOf(new) = LifeOf(old)
           /\ old.phase = "absent" /\ new.phase = "live" => LifeOf(new) = LifeOf(old)
           /\ Exists(old) => LifeOf(old) # "closed"
           /\ old.phase = "deleting" <=> LifeOf(old) = "closing"
           /\ old.phase = "live" => LifeOf(old) = "open"
           /\ old.phase = "gone" => LifeOf(old) = "closed"
BY DEF LifeOf, Exists, ClaimObject

(***************************************************************************)
(* The steps of the ledger.                                                *)
(***************************************************************************)

\* Allocate grants an address that nobody has.
LEMMA AllocateGrants ==
    ASSUME SafetyInvariant, AddressInvariant, Allocate
    PROVE  Ledger!LedgerNext
<1> USE DEF kubernetes, claims, addresses, netbox, external, caches
<1> DEFINE c == job.claim
<1>1. /\ TypeOK /\ pc = "Allocate" /\ UNCHANGED <<ipAddress, claim>>
      /\ c \in Claims /\ claim[c].finalizer /\ RecordsOf(c) = {} /\ claim[c] \in ClaimObject
  BY ServedFacts DEF SafetyInvariant, ViewsInvariant, TypeOK, Allocate, RecordsInvariant,
     WorkerKnowsRecords, EnsureCalls
<1>2. PICK a \in Available(Prefixes[job.prefix]) : records' = records \cup {Marked(c, a, job.pool)}
  BY DEF Allocate
<1>3. a \in Addresses /\ \A r \in records : r.address # a
  BY <1>1, <1>2, EndingTypes DEF Allocate, Available
<1>4. Reservations' = Reservations \cup {[owner |-> c, address |-> a]}
  <2> DEFINE m == Marked(c, a, job.pool)
  <2>1. records' = records \cup {m} /\ m.owner = c /\ m.address = a
    BY <1>2 DEF Marked
  <2>2. ASSUME NEW x
        PROVE  x \in Reservations' <=> x \in Reservations \/ x = [owner |-> m.owner, address |-> m.address]
    <3> HIDE DEF m
    <3> QED
      BY <2>1 DEF Reservations
  <2> QED
    BY <2>1, <2>2
<1>5. LifeOf(claim[c]) # "closed"
  BY <1>1, LifeFacts DEF SafetyInvariant, ViewsInvariant, InformerKnows, CopiesTrusted, Held
<1>6. ASSUME NEW d \in Claims PROVE PublishedFor(d) # a
  <2>1. SUFFICES ASSUME PublishedFor(d) = a PROVE FALSE
    OBVIOUS
  <2>2. NameOf[d] \in Names /\ Found(ipAddress[NameOf[d]]) /\ ipAddress[NameOf[d]].address = a
    BY <1>1, <1>3, <2>1, LedgerFacts, NamesAssumption, NoAddressAssumption
  <2>3. Reserved(ipAddress[NameOf[d]])
    BY <1>1, <2>2 DEF AddressInvariant, PublishedAddressIsReserved, ReleaseWindow
  <2> QED
    BY <1>3, <2>2, <2>3 DEF Reserved
<1>7. ~Ledger!Taken(a)
  BY <1>3, <1>6 DEF Ledger!Taken, Reservations
<1>8. UNCHANGED <<[d \in Claims |-> PublishedFor(d)], [d \in Claims |-> LifeOf(claim[d])]>>
  BY <1>1 DEF PublishedFor
<1>9. Ledger!Grant(c, a)
  BY <1>1, <1>4, <1>5, <1>7, <1>8, LedgerFacts DEF Ledger!Grant
<1> QED
  BY <1>1, <1>3, <1>9 DEF Ledger!LedgerNext

\* CreateAddress publishes the reserved address.
LEMMA CreatePublishes ==
    ASSUME SafetyInvariant, AddressInvariant, CreateAddress
    PROVE  Ledger!LedgerNext
<1> USE DEF kubernetes, claims, addresses, netbox, external, caches
<1> DEFINE c == job.claim
           a == job.address.address
<1>1. /\ TypeOK /\ pc = "CreateAddress" /\ UNCHANGED <<records, claim>>
      /\ c \in Claims /\ Name \in Names /\ NameOf[c] = Name
      /\ ipAddress[Name] = NotFound
      /\ job.address.owner = c /\ Found(job.address) /\ Reserved(job.address)
  BY EndingTypes DEF AddressInvariant, ViewsInvariant, TypeOK, CreateAddress, WorkerKnowsObject, Name
<1>2. \A n \in Names : ipAddress'[n] = IF n = Name THEN job.address ELSE ipAddress[n]
  BY <1>1 DEF CreateAddress, WriteAddress, TypeOK, Found, NotFound
<1>3. PublishedFor(c) = NoAddress
  BY <1>1 DEF PublishedFor, NotFound
<1>4. [owner |-> c, address |-> a] \in Reservations /\ a \in Addresses
  BY <1>1 DEF Reserved, Reservations, TypeOK, Record
<1>5. \A d \in Claims : PublishedFor(d)' = IF d = c THEN a ELSE PublishedFor(d)
  BY <1>1, <1>2, NamesAssumption, NoClaimAssumption DEF PublishedFor, NotFound
<1>6. [d \in Claims |-> PublishedFor(d)]' = [[d \in Claims |-> PublishedFor(d)] EXCEPT ![c] = a]
  BY <1>5
<1>7. UNCHANGED <<Reservations, [d \in Claims |-> LifeOf(claim[d])]>>
  BY <1>1 DEF Reservations
<1>8. Ledger!Publish(c, a)
  BY <1>1, <1>3, <1>4, <1>6, <1>7 DEF Ledger!Publish
<1> QED
  BY <1>1, <1>4, <1>8 DEF Ledger!LedgerNext

\* PatchAddress and Unprotect leave what is published.
LEMMA UnprotectPublishesNothing ==
    ASSUME SafetyInvariant, AddressInvariant, AddressFaults, PatchAddress \/ Unprotect
    PROVE  UNCHANGED Ledger!ledgerVars
<1> USE DEF kubernetes, claims, addresses, netbox, external, caches
<1>1. TypeOK /\ pc # "idle" /\ UNCHANGED <<records, claim>> /\ Name \in Names
  BY EndingTypes DEF AddressInvariant, ViewsInvariant, PatchAddress, Unprotect
<1>2. \A n \in Names : ipAddress'[n].owner = ipAddress[n].owner /\ ipAddress'[n].address = ipAddress[n].address
  <2>1. CASE PatchAddress
    <3>1. UNCHANGED ipAddress
      BY <2>1, PatchAddressIsQuiet
    <3> QED
      BY <3>1
  <2>2. CASE Unprotect
    BY <1>1, <2>2 DEF Unprotect, WriteAddress, TypeOK, AddressObject
  <2> QED
    BY <2>1, <2>2
<1>3. \A c \in Claims : PublishedFor(c)' = PublishedFor(c)
  BY <1>2, NamesAssumption DEF PublishedFor
<1> QED
  BY <1>1, <1>3, LedgerUnmoved

\* ReleaseDelete revokes the reservation of the closing claim, if it is still there.
LEMMA ReleaseRevokes ==
    ASSUME SafetyInvariant, AddressInvariant, OwnersKnown, ReleaseDelete
    PROVE  Ledger!LedgerNext \/ UNCHANGED Ledger!ledgerVars
<1> USE DEF kubernetes, claims, addresses, netbox, external, caches
<1> DEFINE c == job.claim
<1>1. /\ TypeOK /\ pc = "ReleaseDelete" /\ UNCHANGED <<ipAddress, claim>>
      /\ c \in Claims /\ claim[c] \in ClaimObject
      /\ job.record \in records => claim[c].phase = "deleting"
      /\ job.record.owner = c /\ RecordsOf(c) \subseteq {job.record}
      /\ records' = records \ {job.record}
  BY OwnReleased DEF SafetyInvariant, ViewsInvariant, TypeOK, ReleaseDelete, RecordsInvariant,
     WorkerKnowsRecords
<1>2. UNCHANGED <<[d \in Claims |-> PublishedFor(d)], [d \in Claims |-> LifeOf(claim[d])]>>
  BY <1>1 DEF PublishedFor
<1>3. CASE job.record \notin records
  <2>1. records' = records
    BY <1>1, <1>3
  <2> QED
    BY <1>1, <2>1, LedgerUnmoved DEF PublishedFor
<1>4. CASE job.record \in records
  <2>1. RecordsOf(c) = {job.record}
    BY <1>1, <1>4 DEF RecordsOf
  <2>2. Ledger!Holds(c) = {[owner |-> c, address |-> job.record.address]}
    BY <1>1, <2>1, LedgerFacts
  <2>3. Reservations' = Reservations \ Ledger!Holds(c)
    BY <1>1, <2>1, <2>2 DEF Reservations, RecordsOf
  <2>4. LifeOf(claim[c]) = "closing"
    BY <1>1, <1>4, LifeFacts
  <2>5. Ledger!Revoke(c)
    BY <1>1, <1>2, <2>2, <2>3, <2>4 DEF Ledger!Revoke
  <2> QED
    BY <1>1, <2>5 DEF Ledger!LedgerNext
<1> QED
  BY <1>3, <1>4

\* DeleteAddress withdraws the address of the closing claim, if it is still published.
LEMMA DeleteWithdraws ==
    ASSUME SafetyInvariant, AddressInvariant, DeleteAddress
    PROVE  Ledger!LedgerNext \/ UNCHANGED Ledger!ledgerVars
<1> USE DEF kubernetes, claims, addresses, netbox, external, caches
<1> DEFINE c == job.claim
<1>0. pc = "DeleteAddress" /\ MidReconcile
  BY DEF DeleteAddress, MidReconcile, WorkerStep, PatchClaim
<1>1. /\ TypeOK /\ UNCHANGED <<records, claim>>
      /\ c \in Claims /\ claim[c] \in ClaimObject
      /\ Name \in Names /\ NameOf[c] = Name /\ RecordsOf(c) = {} /\ ~ipAddress[Name].protected
      /\ ipAddress[Name] # NotFound =>
            ipAddress[Name].owner = c /\ Found(ipAddress[Name]) /\ claim[c].phase = "deleting"
  <2>1. job.snap.phase = "deleting" /\ (ipAddress[Name] # NotFound => ipAddress[Name].owner = c)
    BY <1>0, ReleasingFacts DEF ReleaseCalls, ReleaseWindow
  <2>2. TypeOK /\ c \in Claims /\ Name \in Names /\ NameOf[c] = Name
    BY <1>0, MidKeeps DEF Name
  <2>3. claim[c].finalizer => claim[c].phase = "deleting"
    BY <1>0, ReleasedClaim DEF ReleaseCalls, ReleaseWindow
  <2>4. RecordsOf(c) = {} /\ ~ipAddress[Name].protected
    BY <1>0 DEF SafetyInvariant, RecordsInvariant, WorkerKnowsRecords, AddressInvariant, WorkerKnowsRelease,
       ReleaseWindow
  <2>5. ipAddress[Name] # NotFound => Found(ipAddress[Name]) /\ claim[ipAddress[Name].owner].finalizer
    BY <2>2 DEF AddressInvariant, ObjectsOwned
  <2> QED
    BY <2>1, <2>2, <2>3, <2>4, <2>5 DEF DeleteAddress, TypeOK
<1>2. \A n \in Names : ipAddress'[n] = IF n = Name THEN NotFound ELSE ipAddress[n]
  BY <1>1 DEF DeleteAddress, WriteAddress, TypeOK
<1>3. UNCHANGED <<Reservations, [d \in Claims |-> LifeOf(claim[d])]>>
  BY <1>1 DEF Reservations
<1>4. CASE ipAddress[Name] = NotFound
  <2>1. \A d \in Claims : PublishedFor(d)' = PublishedFor(d)
    BY <1>2, <1>4, NamesAssumption DEF PublishedFor
  <2> QED
    BY <1>1, <2>1, LedgerUnmoved
<1>5. CASE ipAddress[Name] # NotFound
  <2>1. PublishedFor(c) # NoAddress
    BY <1>1, <1>5 DEF PublishedFor, Found
  <2>2. \A d \in Claims : PublishedFor(d)' = IF d = c THEN NoAddress ELSE PublishedFor(d)
    BY <1>1, <1>2, <1>5, NamesAssumption, NoClaimAssumption DEF PublishedFor, NotFound
  <2>3. [d \in Claims |-> PublishedFor(d)]' = [[d \in Claims |-> PublishedFor(d)] EXCEPT ![c] = NoAddress]
    BY <2>2
  <2>4. LifeOf(claim[c]) = "closing" /\ Ledger!Holds(c) = {}
    BY <1>1, <1>5, LifeFacts, LedgerFacts
  <2>5. Ledger!Withdraw(c)
    BY <1>1, <1>3, <2>1, <2>3, <2>4 DEF Ledger!Withdraw
  <2> QED
    BY <1>1, <2>5 DEF Ledger!LedgerNext
<1> QED
  BY <1>4, <1>5

\* DeleteClaim closes the claim, at once if it has no finalizer, and then it holds nothing.
LEMMA DeletionCloses ==
    ASSUME SafetyInvariant, AddressInvariant, NEW c \in Claims, DeleteClaim(c)
    PROVE  Ledger!LedgerNext
<1> USE DEF kubernetes, claims, addresses, netbox, external, caches
<1> DEFINE obj == Collected([claim[c] EXCEPT !.phase = "deleting"])
<1>1. /\ TypeOK /\ claim[c] \in ClaimObject /\ claim[c].phase = "live"
      /\ UNCHANGED <<records, ipAddress>>
      /\ \A d \in Claims : claim'[d] = IF d = c THEN obj ELSE claim[d]
  BY DEF SafetyInvariant, ViewsInvariant, DeleteClaim, WriteClaim, TypeOK
<1>2. /\ claim[c].finalizer => obj.phase = "deleting"
      /\ ~claim[c].finalizer => obj.phase = "gone"
      /\ obj \in ClaimObject
  BY <1>1 DEF Collected, Fresh, ClaimObject, ReadyReasons
<1>3. UNCHANGED <<Reservations, [d \in Claims |-> PublishedFor(d)]>>
  BY <1>1 DEF Reservations, PublishedFor
<1>4. LifeOf(claim[c]) = "open"
  BY <1>1, LifeFacts
<1>5. [d \in Claims |-> LifeOf(claim[d])]' = [[d \in Claims |-> LifeOf(claim[d])] EXCEPT ![c] = LifeOf(obj)]
  BY <1>1
<1>6. CASE claim[c].finalizer
  <2>1. LifeOf(obj) = "closing"
    BY <1>2, <1>6, LifeFacts
  <2>2. Ledger!RequestClose(c)
    BY <1>3, <1>4, <1>5, <2>1 DEF Ledger!RequestClose
  <2> QED
    BY <2>2 DEF Ledger!LedgerNext
<1>7. CASE ~claim[c].finalizer
  <2>1. LifeOf(obj) = "closed"
    BY <1>2, <1>7, LifeFacts
  <2>2. RecordsOf(c) = {}
    BY <1>7 DEF SafetyInvariant, RecordsInvariant, RecordImpliesFinalizer, RecordsOf
  <2>3. PublishedFor(c) = NoAddress
    BY <1>1, <1>7, LedgerFacts, NamesAssumption DEF AddressInvariant, ObjectsOwned, Found, NotFound
  <2>4. Ledger!Close(c)
    BY <1>1, <1>3, <1>4, <1>5, <2>1, <2>2, <2>3, LedgerFacts DEF Ledger!Close
  <2> QED
    BY <2>4 DEF Ledger!LedgerNext
<1> QED
  BY <1>6, <1>7

\* PatchClaim closes the claim whose finalizer it takes off: the one just released, which
\* holds nothing any more.
LEMMA PatchCloses ==
    ASSUME SafetyInvariant, AddressInvariant, PatchClaim
    PROVE  Ledger!LedgerNext \/ UNCHANGED Ledger!ledgerVars
<1> USE DEF kubernetes, claims, addresses, netbox, external, caches
<1>1. /\ ViewsInvariant /\ TypeOK /\ pc = "PatchClaim" /\ UNCHANGED <<records, ipAddress>>
  BY DEF SafetyInvariant, ViewsInvariant, PatchClaim
<1>2. UNCHANGED <<Reservations, [d \in Claims |-> PublishedFor(d)]>>
  BY <1>1 DEF Reservations, PublishedFor
<1>3. CASE UNCHANGED claim
  BY <1>1, <1>3, LedgerUnmoved DEF PublishedFor
<1>4. ASSUME NEW c \in Namesakes, NEW obj \in ClaimObject, WriteClaim(c, obj), obj.phase = claim[c].phase
      PROVE  UNCHANGED Ledger!ledgerVars
  <2>1. c \in Claims /\ \A d \in Claims : claim'[d] = IF d = c THEN obj ELSE claim[d]
    BY <1>1, <1>4 DEF Namesakes, WriteClaim, TypeOK
  <2>2. LifeOf(obj) = LifeOf(claim[c])
    BY <1>1, <1>4, <2>1, LifeFacts DEF TypeOK
  <2>3. \A d \in Claims : LifeOf(claim[d])' = LifeOf(claim[d])
    BY <2>1, <2>2
  <2> QED
    BY <1>1, <2>3, LedgerUnmoved DEF PublishedFor
<1>5. ASSUME NEW c \in Namesakes, NEW done \in SUBSET Requests,
             WriteClaim(c, Collected(Merged(claim[c], done)))
      PROVE  Ledger!LedgerNext \/ UNCHANGED Ledger!ledgerVars
  <2> DEFINE merged == Merged(claim[c], done)
  <2>1. /\ c \in Claims /\ NameOf[c] = Name /\ claim[c] \in ClaimObject
        /\ merged \in ClaimObject /\ merged.phase = claim[c].phase
        /\ claim[c].phase = "deleting" => claim[c].finalizer
    BY <1>1, PatchFacts DEF TypeOK, Namesakes, ViewsInvariant, InformerKnows, CopiesTrusted, Held
  <2>2. CASE merged.phase = "deleting" /\ ~merged.finalizer
    <3>1. c = job.claim /\ ~job.want.finalizer
      BY <1>1, <2>1, <2>2, PatchFacts
    <3>2. RecordsOf(c) = {} /\ ~Found(ipAddress[Name])
      BY <1>1, <3>1 DEF SafetyInvariant, RecordsInvariant, WorkerKnowsRecords, AddressInvariant,
         WorkerKnowsRelease
    <3>3. PublishedFor(c) = NoAddress
      BY <1>1, <2>1, <3>2, LedgerFacts
    <3>4. \A d \in Claims : claim'[d] = IF d = c THEN Fresh("gone") ELSE claim[d]
      <4>1. Collected(merged) = Fresh("gone")
        BY <2>2 DEF Collected
      <4> QED
        BY <1>1, <1>5, <2>1, <4>1 DEF WriteClaim, TypeOK
    <3>5. LifeOf(Fresh("gone")) = "closed" /\ LifeOf(claim[c]) = "closing"
      <4>1. Fresh("gone").phase = "gone"
        BY DEF Fresh
      <4> QED
        BY <2>1, <2>2, <4>1, LifeFacts DEF LifeOf
    <3>6. [d \in Claims |-> LifeOf(claim[d])]' = [[d \in Claims |-> LifeOf(claim[d])] EXCEPT ![c] = "closed"]
      BY <2>1, <3>4, <3>5
    <3>7. Ledger!Close(c)
      BY <1>1, <1>2, <2>1, <3>2, <3>3, <3>5, <3>6, LedgerFacts DEF Ledger!Close
    <3> QED
      BY <2>1, <3>7 DEF Ledger!LedgerNext
  <2>3. CASE ~(merged.phase = "deleting" /\ ~merged.finalizer)
    <3>1. Collected(merged) = merged
      BY <2>3 DEF Collected
    <3> QED
      BY <1>4, <1>5, <2>1, <3>1
  <2> QED
    BY <2>2, <2>3
<1> QED
  BY <1>3, <1>5 DEF PatchClaim

(***************************************************************************)
(* The specification.                                                      *)
(***************************************************************************)

LEMMA InitLedger == Init => Ledger!LedgerInit
<1> SUFFICES ASSUME Init PROVE Ledger!LedgerInit
  OBVIOUS
<1>1. \A c \in Claims : PublishedFor(c) = NoAddress /\ LifeOf(claim[c]) = "open"
  BY NamesAssumption DEF Init, PublishedFor, LifeOf, Fresh, NotFound
<1>2. Reservations = {}
  BY DEF Init, Reservations
<1> QED
  BY <1>1, <1>2 DEF Ledger!LedgerInit

\* Every step is a step of the ledger or leaves it alone.
LEMMA NextLedger ==
    ASSUME LedgerFaults
    PROVE  SafetyInvariant /\ AddressInvariant /\ OwnersKnown /\ [Next]_vars =>
               [Ledger!LedgerNext]_Ledger!ledgerVars
<1> SUFFICES ASSUME SafetyInvariant, AddressInvariant, OwnersKnown, [Next]_vars
             PROVE  Ledger!LedgerNext \/ UNCHANGED Ledger!ledgerVars
  OBVIOUS
<1> USE DEF kubernetes, claims, addresses, netbox, external, caches
<1>0. TypeOK /\ posts = {} /\ AddressFaults
  BY DEF SafetyInvariant, ViewsInvariant, RecordsInvariant, LedgerFaults, AddressFaults
\* Steps that touch neither records nor objects nor the life of a claim.
<1>1. ASSUME UNCHANGED <<records, ipAddress, claim>> PROVE UNCHANGED Ledger!ledgerVars
  BY <1>1, LedgerUnmoved DEF PublishedFor
<1>2. CASE WorkerStep
  <2>1. CASE \/ FetchPool \/ EnsureGet \/ FindByUID \/ NoAvailableIP \/ PoolExhausted \/ PollCache
             \/ ReleaseGet \/ ReleaseFind \/ ReleaseFindByAddress \/ DeleteGet
    BY <1>1, <2>1 DEF FetchPool, EnsureGet, FindByUID, NoAvailableIP, PoolExhausted, PollCache,
       ReleaseGet, ReleaseFind, ReleaseFindByAddress, DeleteGet
  <2> QED
    BY <1>0, <1>2, <2>1, AllocateGrants, CreatePublishes, UnprotectPublishesNothing, ReleaseRevokes,
       DeleteWithdraws, PatchCloses DEF WorkerStep
<1>3. CASE FaultStep
  BY <1>1, <1>3 DEF FaultStep, AllocateTimesOut, CallFails, Crash, Restart
<1>4. CASE \/ \E n \in Names : Reconcile(n)
           \/ SyncClaim \/ SyncAddress \/ Resync \/ ChangePool \/ ChangeCluster \/ UNCHANGED vars
  BY <1>1, <1>4 DEF Reconcile, SyncClaim, SyncAddress, Resync, ChangePool, ChangeCluster, vars
<1>5. ~LateAllocation
  BY <1>0 DEF LateAllocation
<1>6. ASSUME NEW c \in Claims, CreateClaim(c) PROVE UNCHANGED Ledger!ledgerVars
  <2>1. /\ claim[c] \in ClaimObject /\ Fresh("live") \in ClaimObject /\ claim[c].phase = "absent"
        /\ Fresh("live").phase = "live" /\ UNCHANGED <<records, ipAddress>>
        /\ \A d \in Claims : claim'[d] = IF d = c THEN Fresh("live") ELSE claim[d]
    BY <1>0, <1>6 DEF CreateClaim, WriteClaim, TypeOK, Fresh, ClaimObject, ReadyReasons
  <2>2. \A d \in Claims : LifeOf(claim[d])' = LifeOf(claim[d])
    BY <2>1, LifeFacts
  <2> QED
    BY <2>1, <2>2, LedgerUnmoved DEF PublishedFor
<1>7. ASSUME NEW c \in Claims, DeleteClaim(c) PROVE Ledger!LedgerNext
  BY <1>7, DeletionCloses
<1> QED
  BY <1>2, <1>3, <1>4, <1>5, <1>6, <1>7 DEF Next, Environment

\* The invariants that the release rests on.
LEMMA OwnersAreKnown ==
    ASSUME LedgerFaults, SameMarks
    PROVE  /\ Spec => []SafetyInvariant
           /\ Spec => []AddressInvariant
           /\ Spec => []OwnersKnown
<1>1. "lateApply" \notin Faults /\ AddressFaults
  BY DEF LedgerFaults, AddressFaults
<1>2. Spec => []SafetyInvariant
  BY <1>1, SafetyInvariantHolds
<1>3. Spec => []AddressInvariant
  BY <1>1, AddressInvariantHolds
<1>4. Init => OwnersKnown
  BY InitOwner DEF OwnersKnown
<1> QED
  BY <1>2, <1>3, <1>4, NextOwners, PTL DEF Spec

\* OwnerInvariant: as long as no call fails, no lookup finds another claim's record, however old
\* the caches are and whenever the manager restarts.
THEOREM OwnersAreFound ==
    ASSUME Faults \subseteq {"crash"}, SameMarks
    PROVE  Spec => []OwnerInvariant
<1>1. "lateApply" \notin Faults /\ AddressFaults
  BY DEF AddressFaults
<1>2. Spec => []SafetyInvariant
  BY <1>1, SafetyInvariantHolds
<1>3. Spec => []AddressInvariant
  BY <1>1, AddressInvariantHolds
<1> QED
  BY <1>2, <1>3, InitOwner, NextOwner, PTL DEF Spec

\* OnlyOwnRecordsDeleted: a release deletes no record but that of the claim it releases, whose
\* deletion somebody has asked for, also when it works on old copies of claim and IPAddress.
THEOREM LaggingReleaseKeepsToItsOwn ==
    ASSUME Faults \subseteq {"crash"}, SameMarks
    PROVE  Spec => OnlyOwnRecordsDeleted
<1>1. LedgerFaults
  BY DEF LedgerFaults
<1>2. ASSUME SafetyInvariant, AddressInvariant, OwnersKnown, [Next]_vars, NEW r \in records \ records'
      PROVE  r.owner = job.claim /\ claim[r.owner].phase = "deleting"
  <2>1. ReleaseDelete /\ r = job.record
    BY <1>2, OnlyReleaseRemoves DEF AddressInvariant, ViewsInvariant
  <2> QED
    BY <1>2, <2>1, OwnReleased
<1>3. SafetyInvariant /\ AddressInvariant /\ OwnersKnown /\ [Next]_vars =>
         [\A r \in records \ records' : r.owner = job.claim /\ claim[r.owner].phase = "deleting"]_vars
  BY <1>2
<1> QED
  BY <1>1, <1>3, OwnersAreKnown, PTL DEF Spec, OnlyOwnRecordsDeleted

\* ImplementsLedger: NetBox's records, the IPAddress objects and the lives of the claims behave as
\* the ledger promises, with caches that are up to date whenever a reconcile starts through any
\* crash, failed call, lost reply and poll timeout, and with caches of any age through any crash.
THEOREM ControllerImplementsLedger ==
    ASSUME LedgerFaults, SameMarks
    PROVE  Spec => ImplementsLedger
  BY OwnersAreKnown, InitLedger, NextLedger, PTL DEF Spec, ImplementsLedger, Ledger!LedgerSpec

=============================================================================
