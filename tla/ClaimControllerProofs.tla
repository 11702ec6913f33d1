------------------------ MODULE ClaimControllerProofs ------------------------
(***************************************************************************)
(* Type correctness of the claim controller, for any sets of claims and    *)
(* addresses, any pools, any number of faults and any cache lag, and what  *)
(* the steps in the middle of a reconcile have in common.                  *)
(***************************************************************************)
EXTENDS ClaimInvariant, TLAPS

(***************************************************************************)
(* Type correctness.                                                       *)
(***************************************************************************)

\* The objects that the actions build are well formed.
LEMMA ObjectTypes ==
    /\ \A p \in {"absent", "live", "deleting", "gone"} : Fresh(p) \in ClaimObject
    /\ NotFound \in AddressObject
    /\ NoJob \in Job
    /\ \A obj \in ClaimObject : Collected(obj) \in ClaimObject
<1>1. (CHOOSE p \in Pools : TRUE) \in Pools
  BY PoolsAssumption
<1> QED
  BY <1>1 DEF Fresh, ClaimObject, ReadyReasons, NotFound, AddressObject, NoJob, Job, Record,
              NoRecord, Collected

\* The worker's next call and local variables stay well formed whichever way a call ends.
LEMMA EndingTypes ==
    ASSUME TypeOK, pc # "idle"
    PROVE  /\ \A call \in Calls : Continue(call) => pc' \in Calls /\ job' \in Job /\ job'.claim \in Claims
           /\ AllocationFailed => pc' \in Calls /\ job' \in Job /\ job'.claim \in Claims
           /\ ReleaseFailed => pc' \in Calls /\ job' \in Job /\ job'.claim \in Claims
           /\ \A reason \in ReadyReasons : setClaimReady(reason) \in ClaimObject
           /\ removeFinalizer \in ClaimObject
           /\ \A want \in ClaimObject :
                 Return(want) \/ ReturnError(want) => pc' \in Calls /\ job' \in Job /\ job'.claim \in Claims
           /\ \A call \in Calls : WithPool(call) => pc' \in Calls /\ job' \in Job /\ job'.claim \in Claims
           /\ \A a \in Addresses : InHand(a) \in Job /\ InHand(a).claim \in Claims
           /\ \A c \in Claims, done \in SUBSET Requests : Merged(claim[c], done) \in ClaimObject
           /\ Name \in Names
           /\ Prefixes \in Seq(SUBSET Addresses)
<1>1. job \in Job /\ job.claim \in Claims /\ job.want \in ClaimObject /\ job.snap \in ClaimObject
  BY DEF TypeOK, Job
<1>2. \A reason \in ReadyReasons : setClaimReady(reason) \in ClaimObject
  BY <1>1 DEF setClaimReady, ClaimObject
<1>3. removeFinalizer \in ClaimObject
  BY <1>1 DEF removeFinalizer, ClaimObject
<1>4. \A want \in ClaimObject :
         Return(want) \/ ReturnError(want) => pc' \in Calls /\ job' \in Job /\ job'.claim \in Claims
  BY <1>1 DEF Return, ReturnError, Proceed, Calls, Job
<1>5. AllocationFailed => pc' \in Calls /\ job' \in Job /\ job'.claim \in Claims
  BY <1>2, <1>4 DEF AllocationFailed, ReadyReasons
<1>6. ReleaseFailed => pc' \in Calls /\ job' \in Job /\ job'.claim \in Claims
  BY <1>1, <1>4 DEF ReleaseFailed
<1>7. \A call \in Calls : Continue(call) => pc' \in Calls /\ job' \in Job /\ job'.claim \in Claims
  BY <1>1 DEF Continue
<1>8. \A a \in Addresses : InHand(a) \in Job /\ InHand(a).claim \in Claims
  BY <1>1 DEF InHand, Job, AddressObject
<1>9. \A c \in Claims, done \in SUBSET Requests : Merged(claim[c], done) \in ClaimObject
  BY <1>1 DEF Merged, TypeOK, ClaimObject
<1>10. \A call \in Calls : WithPool(call) => pc' \in Calls /\ job' \in Job /\ job'.claim \in Claims
  <2>1. [job EXCEPT !.pool = pool] \in Job /\ [job EXCEPT !.pool = pool].claim \in Claims
    BY <1>1 DEF TypeOK, Job
  <2> QED
    BY <2>1 DEF WithPool, Proceed
<1>11. Name \in Names
  BY <1>1, NamesAssumption DEF Name
<1>12. Prefixes \in Seq(SUBSET Addresses)
  BY <1>1, PoolsAssumption DEF Prefixes, Job, PoolView
<1> QED
  BY <1>2, <1>3, <1>4, <1>5, <1>6, <1>7, <1>8, <1>9, <1>10, <1>11, <1>12

\* A write to the API and its watch event keep the objects and the watch well formed.
LEMMA WriteTypes ==
    ASSUME TypeOK, NEW c \in Claims, NEW n \in Names
    PROVE  /\ \A obj \in ClaimObject : WriteClaim(c, obj) =>
                 /\ claim' \in [Claims -> ClaimObject]
                 /\ claimWatch' \in Seq([claim : Claims, object : ClaimObject])
           /\ \A obj \in AddressObject : WriteAddress(n, obj) =>
                 /\ ipAddress' \in [Names -> AddressObject]
                 /\ addressWatch' \in Seq([name : Names, object : AddressObject])
<1> DEFINE ClaimEvent == [claim : Claims, object : ClaimObject]
           AddressEvent == [name : Names, object : AddressObject]
<1>1. ASSUME NEW obj \in ClaimObject, WriteClaim(c, obj)
      PROVE  claim' \in [Claims -> ClaimObject] /\ claimWatch' \in Seq(ClaimEvent)
  <2>1. claim' \in [Claims -> ClaimObject]
    BY <1>1 DEF TypeOK, WriteClaim
  <2>2. claimWatch \in Seq(ClaimEvent) /\ [claim |-> c, object |-> obj] \in ClaimEvent
    BY <1>1 DEF TypeOK
  <2>3. claimWatch' = claimWatch \/ claimWatch' = Append(claimWatch, [claim |-> c, object |-> obj])
    BY <1>1 DEF WriteClaim
  <2> HIDE DEF ClaimEvent
  <2> QED
    BY <2>1, <2>2, <2>3
<1>2. ASSUME NEW obj \in AddressObject, WriteAddress(n, obj)
      PROVE  ipAddress' \in [Names -> AddressObject] /\ addressWatch' \in Seq(AddressEvent)
  <2>1. ipAddress' \in [Names -> AddressObject]
    BY <1>2 DEF TypeOK, WriteAddress
  <2>2. addressWatch \in Seq(AddressEvent) /\ [name |-> n, object |-> obj] \in AddressEvent
    BY <1>2 DEF TypeOK
  <2>3. addressWatch' = addressWatch \/ addressWatch' = Append(addressWatch, [name |-> n, object |-> obj])
    BY <1>2 DEF WriteAddress
  <2> HIDE DEF AddressEvent
  <2> QED
    BY <2>1, <2>2, <2>3
<1> QED
  BY <1>1, <1>2

\* A fault is counted within the bound.
LEMMA FaultTypes == ASSUME TypeOK, NEW kind, Fault(kind) PROVE faults' \in 0..MaxFaults
BY FaultsAssumption DEF TypeOK, Fault

\* The end of a reconcile leaves the worker idle and the queue a set of claims.
LEMMA FinishTypes ==
    ASSUME TypeOK, pc # "idle", NEW failed, Finish(failed)
    PROVE  pc' = "idle" /\ job' \in Job /\ queue' \subseteq Names
BY ObjectTypes, EndingTypes DEF TypeOK, Finish

\* The local variables at the start of a reconcile.
LEMMA ReadFacts ==
    ASSUME TypeOK, NEW c \in Claims
    PROVE  LET marked == [Read(c) EXCEPT !.want.finalizer = TRUE]
           IN  /\ Read(c) \in Job /\ marked \in Job
               /\ Read(c).claim = c /\ marked.claim = c
               /\ Read(c).snap = claimCache[c] /\ marked.snap = claimCache[c]
               /\ Read(c).want = claimCache[c] /\ marked.want.finalizer
<1>1. claimCache[c] \in ClaimObject /\ NoJob \in Job
  BY ObjectTypes DEF TypeOK
<1>2. /\ Read(c) \in Job /\ Read(c).claim = c /\ Read(c).snap = claimCache[c]
      /\ Read(c).want = claimCache[c]
  BY <1>1 DEF Read, Job
<1> QED
  BY <1>1, <1>2 DEF Job, ClaimObject

\* Initial states are well formed.
LEMMA InitTypes == Init => TypeOK
<1>1. SUFFICES ASSUME Init PROVE TypeOK
  OBVIOUS
<1>2. claim \in [Claims -> ClaimObject] /\ ipAddress \in [Names -> AddressObject]
  BY <1>1, ObjectTypes DEF Init
<1> QED
  BY <1>1, <1>2, ObjectTypes, FaultsAssumption DEF Init, TypeOK, Calls

\* Every step keeps the state well formed.
LEMMA NextTypes == TypeOK /\ [Next]_vars => TypeOK'
<1> SUFFICES ASSUME TypeOK, [Next]_vars PROVE TypeOK'
  OBVIOUS
<1> USE DEF kubernetes, claims, addresses, netbox, external, caches
<1>1. ASSUME NEW n \in Names, Reconcile(n) PROVE TypeOK'
  <2>1. ASSUME NEW c \in Cached(n), ReconcileClaim(c)
        PROVE  pc' \in Calls /\ job' \in Job /\ (pc' # "idle" => job'.claim \in Claims)
    <3>1. /\ Read(c) \in Job /\ Read(c).claim \in Claims
          /\ [Read(c) EXCEPT !.want.finalizer = TRUE] \in Job
          /\ [Read(c) EXCEPT !.want.finalizer = TRUE].claim \in Claims
      BY ReadFacts DEF Cached
    <3> QED
      BY <2>1, <3>1 DEF ReconcileClaim, AddFinalizer, Proceed, Calls, TypeOK
  <2>2. pc' \in Calls /\ job' \in Job /\ (pc' # "idle" => job'.claim \in Claims)
    BY <1>1, <2>1 DEF Reconcile, TypeOK
  <2> QED
    BY <1>1, <2>2 DEF Reconcile, TypeOK
<1>2. CASE FetchPool
  BY <1>2, EndingTypes DEF FetchPool, TypeOK, Calls, ReadyReasons
<1>3. CASE EnsureGet
  <2>0. job \in Job /\ job.claim \in Claims /\ addressCache[Name] \in AddressObject
    BY <1>3, EndingTypes DEF EnsureGet, TypeOK
  <2>1. job' \in Job /\ job'.claim \in Claims /\ pc' \in Calls
    BY <1>3, <2>0 DEF EnsureGet, Job, Proceed, Calls
  <2> QED
    BY <1>3, <2>1 DEF EnsureGet, TypeOK
<1>4. CASE FindByUID
  <2>1. \A r \in FoundByUID(job.pool, job.claim) : r.address \in Addresses
    BY DEF TypeOK, FoundByUID, RecordsOf, Record
  <2>2. job \in Job /\ job.claim \in Claims /\ pc # "idle"
    BY <1>4 DEF FindByUID, TypeOK
  <2>3. [job EXCEPT !.prefix = 1] \in Job /\ [job EXCEPT !.prefix = 1].claim \in Claims
    BY <2>2 DEF Job
  <2>4. job' \in Job /\ job'.claim \in Claims /\ pc' \in Calls
    BY <1>4, <2>1, <2>2, <2>3, EndingTypes DEF FindByUID, Proceed, Calls
  <2> QED
    BY <1>4, <2>4 DEF FindByUID, TypeOK
<1>5. CASE Allocate
  <2>1. PICK a \in Available(Prefixes[job.prefix]) :
            /\ records' = records \cup {Marked(job.claim, a, job.pool)}
            /\ \/ Proceed("CreateAddress", InHand(a)) /\ UNCHANGED faults
               \/ AllocationFailed /\ Fault("replyLost")
    BY <1>5 DEF Allocate
  <2>2. a \in Addresses /\ job.claim \in Claims /\ job.pool \in PoolView
    <3>1. job.prefix \in DOMAIN Prefixes /\ Prefixes \in Seq(SUBSET Addresses) /\ job.claim \in Claims
      BY <1>5, EndingTypes DEF Allocate, TypeOK
    <3>2. job.pool \in PoolView
      BY PoolsAssumption DEF TypeOK, Job
    <3> QED
      BY <3>1, <3>2 DEF Available
  <2>3. records' \subseteq Record
    BY <2>1, <2>2 DEF TypeOK, Record, Marked, PoolView
  <2>4. job' \in Job /\ job'.claim \in Claims /\ pc' \in Calls
    BY <1>5, <2>1, <2>2, EndingTypes DEF Allocate, Proceed, Calls
  <2>5. faults' \in 0..MaxFaults
    BY <2>1, FaultTypes DEF TypeOK
  <2> QED
    BY <1>5, <2>3, <2>4, <2>5 DEF Allocate, TypeOK
<1>6. CASE NoAvailableIP
  <2>1. job \in Job /\ job.claim \in Claims
    BY <1>6 DEF NoAvailableIP, TypeOK
  <2>2. job' \in Job /\ job'.claim \in Claims /\ pc' \in Calls
    BY <1>6, <2>1 DEF NoAvailableIP, Job, Proceed, Calls
  <2> QED
    BY <1>6, <2>2 DEF NoAvailableIP, TypeOK
<1>7. CASE PoolExhausted
  <2>1. job' \in Job /\ job'.claim \in Claims /\ pc' \in Calls
    BY <1>7, EndingTypes DEF PoolExhausted, ReadyReasons
  <2> QED
    BY <1>7, <2>1 DEF PoolExhausted, TypeOK
<1>8. CASE CreateAddress
  <2>1. Name \in Names /\ job.claim \in Claims /\ job.address \in AddressObject
    BY <1>8, EndingTypes DEF CreateAddress, TypeOK, Job
  <2>2. /\ ipAddress' \in [Names -> AddressObject]
        /\ addressWatch' \in Seq([name : Names, object : AddressObject])
    BY <1>8, <2>1, WriteTypes DEF CreateAddress, TypeOK
  <2>3. job' \in Job /\ job'.claim \in Claims /\ pc' \in Calls
    BY <1>8, EndingTypes DEF CreateAddress, Calls
  <2>4. faults' \in 0..MaxFaults
    BY <1>8, FaultTypes DEF CreateAddress, TypeOK
  <2> QED
    BY <1>8, <2>2, <2>3, <2>4 DEF CreateAddress, TypeOK
<1>9. CASE PollCache
  <2>1. [setClaimReady("allocated") EXCEPT !.addressRef = TRUE] \in ClaimObject
    BY <1>9, EndingTypes DEF PollCache, ClaimObject, ReadyReasons
  <2>2. job' \in Job /\ job'.claim \in Claims /\ pc' \in Calls
    BY <1>9, <2>1, EndingTypes DEF PollCache
  <2>3. faults' \in 0..MaxFaults
    BY <1>9, FaultTypes DEF PollCache, TypeOK
  <2> QED
    BY <1>9, <2>2, <2>3 DEF PollCache, TypeOK
<1>10. CASE ReleaseGet
  <2>0. job \in Job /\ job.claim \in Claims /\ addressCache[Name] \in AddressObject
    BY <1>10, EndingTypes DEF ReleaseGet, TypeOK
  <2>1. job' \in Job /\ job'.claim \in Claims /\ pc' \in Calls
    BY <1>10, <2>0 DEF ReleaseGet, Job, Proceed, Calls
  <2> QED
    BY <1>10, <2>1 DEF ReleaseGet, TypeOK
<1>11. CASE ReleaseFind
  <2>1. \A r \in FoundByUID(job.pool, job.claim) : r \in Record
    BY DEF TypeOK, FoundByUID, RecordsOf
  <2>2. job' \in Job /\ job'.claim \in Claims /\ pc' \in Calls
    BY <1>11, <2>1, EndingTypes DEF ReleaseFind, TypeOK, Job, Proceed, Calls
  <2> QED
    BY <1>11, <2>2 DEF ReleaseFind, TypeOK
<1>12. CASE ReleaseFindByAddress
  <2>1. \A r \in FoundByAddress(job.pool, job.address.address) : r \in Record
    BY DEF TypeOK, FoundByAddress
  <2>2. job' \in Job /\ job'.claim \in Claims /\ pc' \in Calls
    BY <1>12, <2>1, EndingTypes DEF ReleaseFindByAddress, TypeOK, Job, Proceed, Calls
  <2> QED
    BY <1>12, <2>2 DEF ReleaseFindByAddress, TypeOK
<1>13. CASE ReleaseDelete
  <2>1. job' \in Job /\ job'.claim \in Claims /\ pc' \in Calls
    BY <1>13, EndingTypes DEF ReleaseDelete, Calls
  <2>2. faults' \in 0..MaxFaults
    BY <1>13, FaultTypes DEF ReleaseDelete, TypeOK
  <2> QED
    BY <1>13, <2>1, <2>2 DEF ReleaseDelete, TypeOK
<1>14. CASE DeleteGet
  <2>1. addressCache[Name] \in AddressObject
    BY <1>14, EndingTypes DEF DeleteGet, TypeOK
  <2>2. job' \in Job /\ job'.claim \in Claims /\ pc' \in Calls
    BY <1>14, <2>1, EndingTypes DEF DeleteGet, TypeOK, Job, Proceed, Calls
  <2> QED
    BY <1>14, <2>2 DEF DeleteGet, TypeOK
<1>15. CASE Unprotect
  <2>1. job.claim \in Claims /\ Name \in Names /\ [ipAddress[Name] EXCEPT !.protected = FALSE] \in AddressObject
    <3>1. job.claim \in Claims /\ Name \in Names /\ ipAddress[Name] \in AddressObject
      BY <1>15, EndingTypes DEF Unprotect, TypeOK
    <3> QED
      BY <3>1 DEF AddressObject
  <2>2. /\ ipAddress' \in [Names -> AddressObject]
        /\ addressWatch' \in Seq([name : Names, object : AddressObject])
    BY <1>15, <2>1, WriteTypes DEF Unprotect
  <2>3. job' \in Job /\ job'.claim \in Claims /\ pc' \in Calls
    BY <1>15, EndingTypes DEF Unprotect, Calls
  <2>4. faults' \in 0..MaxFaults
    BY <1>15, FaultTypes DEF Unprotect, TypeOK
  <2> QED
    BY <1>15, <2>2, <2>3, <2>4 DEF Unprotect, TypeOK
<1>16. CASE DeleteAddress
  <2>1. job.claim \in Claims /\ Name \in Names /\ ipAddress[Name] \in AddressObject
    BY <1>16, EndingTypes DEF DeleteAddress, TypeOK
  <2>2. /\ ipAddress' \in [Names -> AddressObject]
        /\ addressWatch' \in Seq([name : Names, object : AddressObject])
    BY <1>16, <2>1, WriteTypes, ObjectTypes DEF DeleteAddress
  <2>3. job' \in Job /\ job'.claim \in Claims /\ pc' \in Calls
    BY <1>16, EndingTypes DEF DeleteAddress, Calls
  <2>4. faults' \in 0..MaxFaults
    BY <1>16, FaultTypes DEF DeleteAddress, TypeOK
  <2> QED
    BY <1>16, <2>2, <2>3, <2>4 DEF DeleteAddress, TypeOK
<1>17. CASE PatchClaim
  <2>1. job.claim \in Claims /\ pc # "idle"
    BY <1>17 DEF PatchClaim, TypeOK
  <2>2. \A c \in Namesakes, done \in SUBSET Requests :
           c \in Claims /\ Collected(Merged(claim[c], done)) \in ClaimObject
    BY <2>1, EndingTypes, ObjectTypes DEF Namesakes
  <2>3. /\ claim' \in [Claims -> ClaimObject]
        /\ claimWatch' \in Seq([claim : Claims, object : ClaimObject])
    <3>1. \/ UNCHANGED claims
          \/ \E c \in Namesakes, done \in SUBSET Requests :
                WriteClaim(c, Collected(Merged(claim[c], done)))
      BY <1>17 DEF PatchClaim
    <3>2. Name \in Names
      BY <2>1, EndingTypes
    <3> QED
      BY <2>2, <3>1, <3>2, WriteTypes DEF TypeOK
  <2>4. pc' = "idle" /\ job' \in Job /\ queue' \subseteq Names
    BY <1>17, <2>1, FinishTypes DEF PatchClaim
  <2>5. faults' \in 0..MaxFaults
    BY <1>17, FaultTypes DEF PatchClaim, TypeOK
  <2> QED
    BY <1>17, <2>3, <2>4, <2>5 DEF PatchClaim, TypeOK, Calls
<1>18. CASE AllocateTimesOut
  <2>1. job.claim \in Claims /\ Prefixes[job.prefix] \in SUBSET Addresses /\ job.pool \in Pools
    <3>1. job.prefix \in DOMAIN Prefixes /\ Prefixes \in Seq(SUBSET Addresses) /\ job.claim \in Claims
      BY <1>18, EndingTypes DEF AllocateTimesOut, TypeOK
    <3> QED
      BY <3>1 DEF TypeOK, Job
  <2>2. posts' \subseteq [owner : Claims, prefix : SUBSET Addresses, pool : Pools]
    BY <1>18, <2>1 DEF AllocateTimesOut, TypeOK
  <2>3. job' \in Job /\ job'.claim \in Claims /\ pc' \in Calls
    BY <1>18, EndingTypes DEF AllocateTimesOut
  <2>4. faults' \in 0..MaxFaults
    BY <1>18, FaultTypes DEF AllocateTimesOut
  <2> QED
    BY <1>18, <2>2, <2>3, <2>4 DEF AllocateTimesOut, TypeOK
<1>19. CASE CallFails
  <2>1. faults' \in 0..MaxFaults
    BY <1>19, FaultTypes DEF CallFails
  <2>2. job' \in Job /\ (pc' # "idle" => job'.claim \in Claims) /\ pc' \in Calls /\ queue' \subseteq Names
    BY <1>19, EndingTypes, FinishTypes DEF CallFails, TypeOK, Calls
  <2> QED
    BY <1>19, <2>1, <2>2 DEF CallFails, TypeOK
<1>20. CASE Crash
  <2>1. queue' \subseteq Names
    BY <1>20, NamesAssumption DEF Crash, Restart
  <2> QED
    BY <1>20, <2>1, FaultTypes, ObjectTypes DEF Crash, Restart, TypeOK, Calls
<1>21. CASE LateAllocation
  <2>1. PICK p \in posts :
            /\ posts' = posts \ {p}
            /\ \/ \E a \in Available(p.prefix) : records' = records \cup {Marked(p.owner, a, p.pool)}
               \/ Available(p.prefix) = {} /\ UNCHANGED records
    BY <1>21 DEF LateAllocation
  <2>2. records' \subseteq Record
    <3>1. p.owner \in Claims /\ p.prefix \in SUBSET Addresses /\ p.pool \in PoolView
      BY PoolsAssumption DEF TypeOK
    <3>2. Available(p.prefix) \subseteq Addresses
      BY <3>1 DEF Available
    <3> QED
      BY <2>1, <3>1, <3>2 DEF TypeOK, Record, Marked, PoolView
  <2> QED
    BY <1>21, <2>1, <2>2 DEF LateAllocation, TypeOK
<1>22. CASE SyncClaim
  <2> DEFINE E == [claim : Claims, object : ClaimObject]
  <2>1. claimWatch \in Seq(E) /\ claimWatch # <<>>
    BY <1>22 DEF SyncClaim, TypeOK
  <2>2. Head(claimWatch) \in E /\ Tail(claimWatch) \in Seq(E)
    <3> HIDE DEF E
    <3> QED
      BY <2>1
  <2>3. Head(claimWatch).claim \in Claims /\ Head(claimWatch).object \in ClaimObject
    BY <2>2
  <2> QED
    BY <1>22, <2>2, <2>3, NamesAssumption DEF SyncClaim, TypeOK
<1>23. CASE SyncAddress
  <2> DEFINE E == [name : Names, object : AddressObject]
  <2>1. addressWatch \in Seq(E) /\ addressWatch # <<>>
    BY <1>23 DEF SyncAddress, TypeOK
  <2>2. Head(addressWatch) \in E /\ Tail(addressWatch) \in Seq(E)
    <3> HIDE DEF E
    <3> QED
      BY <2>1
  <2>3. Head(addressWatch).name \in Names /\ Head(addressWatch).object \in AddressObject
    BY <2>2
  <2> QED
    BY <1>23, <2>2, <2>3 DEF SyncAddress, TypeOK
<1>24. CASE Resync
  BY <1>24 DEF Resync, TypeOK, CachedNames
<1>25. ASSUME NEW c \in Claims, CreateClaim(c) \/ DeleteClaim(c) PROVE TypeOK'
  <2>1. Fresh("live") \in ClaimObject /\ Collected([claim[c] EXCEPT !.phase = "deleting"]) \in ClaimObject
    <3>1. claim[c] \in ClaimObject
      BY DEF TypeOK
    <3>2. [claim[c] EXCEPT !.phase = "deleting"] \in ClaimObject
      BY <3>1 DEF ClaimObject
    <3> QED
      BY <3>2, ObjectTypes
  <2>2. /\ claim' \in [Claims -> ClaimObject]
        /\ claimWatch' \in Seq([claim : Claims, object : ClaimObject])
    BY <1>25, <2>1, WriteTypes, NamesAssumption DEF CreateClaim, DeleteClaim
  <2> QED
    BY <1>25, <2>2 DEF CreateClaim, DeleteClaim, TypeOK
<1>26. CASE ChangePool
  BY <1>26 DEF ChangePool, TypeOK
<1>27. CASE ChangeCluster
  BY <1>27 DEF ChangeCluster, TypeOK, CachedNames
<1>29. CASE PatchAddress
  <2>1. Name \in Names /\ ipAddress[Name] \in AddressObject /\ job \in Job /\ job.claim \in Claims
    BY <1>29, EndingTypes DEF PatchAddress, TypeOK
  <2>2. [ipAddress[Name] EXCEPT !.owner = job.claim, !.protected = @ \/ ~job.address.protected] \in AddressObject
    BY <2>1 DEF AddressObject
  <2>3. /\ ipAddress' \in [Names -> AddressObject]
        /\ addressWatch' \in Seq([name : Names, object : AddressObject])
    BY <1>29, <2>1, <2>2, WriteTypes DEF PatchAddress, TypeOK
  <2>4. job' \in Job /\ job'.claim \in Claims /\ pc' \in Calls
    BY <1>29, EndingTypes DEF PatchAddress, Calls
  <2>5. faults' \in 0..MaxFaults
    BY <1>29, FaultTypes DEF PatchAddress, TypeOK
  <2> QED
    BY <1>29, <2>3, <2>4, <2>5 DEF PatchAddress, TypeOK
<1>28. CASE UNCHANGED vars
  BY <1>28 DEF vars, TypeOK
<1> QED
  BY <1>1, <1>2, <1>3, <1>4, <1>5, <1>6, <1>7, <1>8, <1>9, <1>10, <1>11, <1>12, <1>13, <1>14,
     <1>15, <1>16, <1>17, <1>18, <1>19, <1>20, <1>21, <1>22, <1>23, <1>24, <1>25, <1>26, <1>27,
     <1>28, <1>29 DEF Next, WorkerStep, FaultStep, Environment

\* The claim controller's state stays well formed: whatever calls fail, replies get lost or
\* restarts happen, every object, queue entry and local variable has the shape the code
\* gives it.
THEOREM TypeCorrect == Spec => []TypeOK
  BY InitTypes, NextTypes, PTL DEF Spec

(***************************************************************************)
(* The middle of a reconcile.                                              *)
(***************************************************************************)

\* A step of the worker, or a failing one, before the deferred patch: claims and caches stay,
\* the worker keeps its claim and its copy, and only the release drops the finalizer.
MidReconcile ==
    \/ WorkerStep /\ ~PatchClaim
    \/ AllocateTimesOut
    \/ CallFails /\ pc # "PatchClaim"

LEMMA MidReconcileFacts ==
    ASSUME TypeOK, MidReconcile
    PROVE  /\ pc # "idle" /\ pc # "PatchClaim" /\ pc' # "idle" /\ job.claim \in Claims
           /\ UNCHANGED <<claim, claimWatch, claimCache, addressCache, pool, cluster, queue>>
           /\ job'.claim = job.claim /\ job'.snap = job.snap
           /\ pc' # "PatchClaim" => job'.want = job.want
           /\ \/ job'.want.finalizer = job.want.finalizer
              \/ pc \in ReleaseWindow /\ ~job'.want.finalizer
<1> USE DEF kubernetes, claims, addresses, netbox, external, caches
<1>1. pc # "idle" /\ pc # "PatchClaim" /\ job \in Job /\ job.claim \in Claims /\ job.want \in ClaimObject
  <2>1. pc # "idle" /\ pc # "PatchClaim"
    BY DEF MidReconcile, WorkerStep, FetchPool, EnsureGet, FindByUID, Allocate, NoAvailableIP,
       PoolExhausted, CreateAddress, PatchAddress, PollCache, ReleaseGet, ReleaseFind,
       ReleaseFindByAddress, ReleaseDelete, DeleteGet, Unprotect, DeleteAddress,
       AllocateTimesOut, CallFails
  <2> QED
    BY <2>1 DEF TypeOK, Job
<1>2. UNCHANGED <<claim, claimWatch, claimCache, addressCache, pool, cluster, queue>>
  BY <1>1 DEF MidReconcile, WorkerStep, FetchPool, EnsureGet, FindByUID, Allocate, NoAvailableIP,
     PoolExhausted, CreateAddress, PatchAddress, PollCache, ReleaseGet, ReleaseFind,
     ReleaseFindByAddress, ReleaseDelete, DeleteGet, Unprotect, DeleteAddress,
     AllocateTimesOut, CallFails
<1> DEFINE Keeps  == job'.claim = job.claim /\ job'.snap = job.snap /\ job'.want = job.want
           Ends   == /\ pc' = "PatchClaim" /\ job'.claim = job.claim /\ job'.snap = job.snap
                     /\ job'.want.finalizer = job.want.finalizer
           Drops  == /\ pc' = "PatchClaim" /\ job'.claim = job.claim /\ job'.snap = job.snap
                     /\ pc \in ReleaseWindow /\ ~job'.want.finalizer
           Goes   == pc' \in Calls \ {"idle", "PatchClaim"} /\ Keeps
<1>3. ASSUME NEW call \in Calls \ {"idle", "PatchClaim"}, Continue(call) PROVE Goes
  BY <1>3 DEF Continue
<1>4. ASSUME NEW want \in ClaimObject, Return(want) \/ ReturnError(want)
      PROVE  pc' = "PatchClaim" /\ job'.claim = job.claim /\ job'.snap = job.snap /\ job'.want = want
  BY <1>1, <1>4 DEF Return, ReturnError, Proceed, Job
<1>5. \A reason \in ReadyReasons : /\ setClaimReady(reason) \in ClaimObject
                                   /\ setClaimReady(reason).finalizer = job.want.finalizer
  BY <1>1 DEF setClaimReady, ClaimObject
<1>6. removeFinalizer \in ClaimObject /\ ~removeFinalizer.finalizer
  BY <1>1 DEF removeFinalizer, ClaimObject
<1>7. AllocationFailed \/ ReleaseFailed => Ends
  BY <1>1, <1>4, <1>5 DEF AllocationFailed, ReleaseFailed, ReadyReasons
<1>8. \A reason \in ReadyReasons : Return(setClaimReady(reason)) \/ ReturnError(setClaimReady(reason)) => Ends
  BY <1>4, <1>5
<1>9. ASSUME NEW call \in Calls \ {"idle", "PatchClaim"}, WithPool(call) PROVE Goes
  BY <1>1, <1>9 DEF WithPool, Proceed, Job
<1>10. ASSUME MidReconcile, FetchPool PROVE Goes \/ Ends \/ Drops
  BY <1>3, <1>8, <1>9, <1>10 DEF FetchPool, Calls, ReadyReasons
<1>11. ASSUME MidReconcile, EnsureGet \/ FindByUID \/ NoAvailableIP \/ ReleaseGet PROVE Goes \/ Ends \/ Drops
  <2>1. Goes
    BY <1>1, <1>11 DEF EnsureGet, FindByUID, NoAvailableIP, ReleaseGet, InHand, Proceed, Job, Calls
  <2> QED
    BY <2>1
<1>12. ASSUME MidReconcile, Allocate PROVE Goes \/ Ends \/ Drops
  <2>1. Goes \/ Ends
    BY <1>1, <1>7, <1>12 DEF Allocate, InHand, Proceed, Job, Calls
  <2> QED
    BY <2>1
<1>13. ASSUME MidReconcile, PoolExhausted \/ AllocateTimesOut \/ CallFails PROVE Goes \/ Ends \/ Drops
  BY <1>1, <1>7, <1>8, <1>13 DEF PoolExhausted, AllocateTimesOut, CallFails, ReadyReasons, MidReconcile
<1>14. ASSUME MidReconcile, CreateAddress \/ PatchAddress PROVE Goes \/ Ends \/ Drops
  BY <1>3, <1>7, <1>14 DEF CreateAddress, PatchAddress, Calls
<1>15. ASSUME MidReconcile, PollCache PROVE Goes \/ Ends \/ Drops
  <2> DEFINE served == [setClaimReady("allocated") EXCEPT !.addressRef = TRUE]
  <2>1. served \in ClaimObject /\ served.finalizer = job.want.finalizer
    BY <1>1 DEF setClaimReady, ClaimObject, ReadyReasons
  <2>2. Return(served) => Ends
    BY <1>4, <2>1
  <2> QED
    BY <1>7, <1>15, <2>2 DEF PollCache
<1>16. ASSUME MidReconcile, ReleaseFind \/ ReleaseFindByAddress PROVE Goes \/ Ends \/ Drops
  <2>1. Goes \/ Ends
    BY <1>1, <1>3, <1>7, <1>16 DEF ReleaseFind, ReleaseFindByAddress, Proceed, Job, Calls
  <2> QED
    BY <2>1
<1>17. ASSUME MidReconcile, ReleaseDelete PROVE Goes \/ Ends \/ Drops
  BY <1>3, <1>7, <1>17 DEF ReleaseDelete, Calls
<1>18. ASSUME MidReconcile, DeleteGet \/ Unprotect \/ DeleteAddress PROVE Goes \/ Ends \/ Drops
  <2>1. pc \in ReleaseWindow
    BY <1>18 DEF DeleteGet, Unprotect, DeleteAddress, ReleaseWindow
  <2>2. Return(removeFinalizer) => Drops
    BY <1>4, <1>6, <2>1
  <2>3. Goes \/ Ends \/ Drops
    BY <1>1, <1>3, <1>7, <1>18, <2>2 DEF DeleteGet, Unprotect, DeleteAddress, Proceed, Job, Calls
  <2> QED
    BY <2>3
<1>19. Goes \/ Ends \/ Drops
  BY <1>10, <1>11, <1>12, <1>13, <1>14, <1>15, <1>16, <1>17, <1>18 DEF MidReconcile, WorkerStep
<1> QED
  BY <1>1, <1>2, <1>19

\* The calls of an allocation and of a release follow each other, and neither leads to the
\* other.
LEMMA MidReconcileCalls ==
    ASSUME TypeOK, MidReconcile
    PROVE  /\ pc' \in EnsureCalls =>
                 pc \in EnsureCalls \/ (pc = "FetchPool" /\ pool.state = "present" /\ job.snap.phase # "deleting")
           /\ pc' \in ReleaseCalls =>
                 pc \in ReleaseCalls \/ (pc = "FetchPool" /\ job.snap.phase = "deleting")
<1>1. AllocationFailed \/ ReleaseFailed => pc' = "PatchClaim"
  BY DEF AllocationFailed, ReleaseFailed, ReturnError, Proceed
<1>2. CASE FetchPool \/ EnsureGet \/ FindByUID \/ Allocate \/ NoAvailableIP \/ PoolExhausted
           \/ CreateAddress \/ PatchAddress \/ PollCache \/ AllocateTimesOut
  BY <1>1, <1>2 DEF FetchPool, EnsureGet, FindByUID, Allocate, NoAvailableIP, PoolExhausted,
     CreateAddress, PatchAddress, PollCache, AllocateTimesOut, Continue, Proceed, Return,
     ReturnError, WithPool, EnsureCalls, ReleaseCalls, ReleaseWindow
<1>3. CASE ReleaseGet \/ ReleaseFind \/ ReleaseFindByAddress \/ ReleaseDelete \/ DeleteGet
           \/ Unprotect \/ DeleteAddress
  BY <1>1, <1>3 DEF ReleaseGet, ReleaseFind, ReleaseFindByAddress, ReleaseDelete, DeleteGet,
     Unprotect, DeleteAddress, Continue, Proceed, Return, EnsureCalls, ReleaseCalls, ReleaseWindow
<1>4. CASE CallFails /\ pc # "PatchClaim"
  BY <1>1, <1>4 DEF CallFails, EnsureCalls, ReleaseCalls, ReleaseWindow
<1> QED
  BY <1>2, <1>3, <1>4 DEF MidReconcile, WorkerStep

=============================================================================
