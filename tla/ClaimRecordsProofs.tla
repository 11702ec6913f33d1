-------------------------- MODULE ClaimRecordsProofs --------------------------
(***************************************************************************)
(* The records in NetBox: SafetyInvariant is inductive as long as NetBox   *)
(* applies no request late and no edit of the pool changes the marks of    *)
(* its records.                                                            *)
(***************************************************************************)
EXTENDS ClaimViewsProofs

\* The lookup by claim UID finds all the records of the claim.
LEMMA LookupIsComplete ==
    ASSUME TypeOK, RecordsMarked
    PROVE  FoundByUID(job.pool, job.claim) = RecordsOf(job.claim)
<1>1. job.pool \in Pools
  BY DEF TypeOK, Job
<1> QED
  BY <1>1 DEF RecordsMarked, FoundByUID, RecordsOf

\* What an allocation adds to the records: one with the marks of every pool, for a claim that
\* has the finalizer and had no record.
LEMMA AllocateRecords ==
    ASSUME SafetyInvariant, SameMarks, Allocate
    PROVE  OneRecordPerClaim' /\ RecordImpliesFinalizer' /\ RecordsMarked'
<1> USE DEF kubernetes, claims, addresses, netbox, external, caches
<1>0. /\ TypeOK /\ InformerKnows /\ WorkerKnows /\ OneRecordPerClaim /\ RecordImpliesFinalizer
      /\ WorkerKnowsRecords /\ RecordsMarked
  BY DEF SafetyInvariant, ViewsInvariant, RecordsInvariant
<1>1. PICK a : records' = records \cup {Marked(job.claim, a, job.pool)}
  BY DEF Allocate
<1>2. pc = "Allocate" /\ UNCHANGED claim
  BY DEF Allocate
<1>3. \A r \in records : r.owner # job.claim
  BY <1>0, <1>2 DEF WorkerKnowsRecords, RecordsOf
<1>4. claim[job.claim].finalizer
  BY <1>0, <1>2 DEF WorkerKnows, Trusted, EnsureCalls
<1>5. job.pool \in Pools
  BY <1>0 DEF TypeOK, Job
<1>6. OneRecordPerClaim' /\ RecordImpliesFinalizer'
  BY <1>0, <1>1, <1>2, <1>3, <1>4 DEF OneRecordPerClaim, RecordImpliesFinalizer, Marked
<1>7. RecordsMarked'
  BY <1>0, <1>1, <1>5 DEF RecordsMarked, SameMarks, Marked
<1> QED
  BY <1>6, <1>7

\* Records that are there already, or some of them, keep what holds of them as long as the
\* finalizers of their claims stay.
LEMMA FewerRecords ==
    ASSUME RecordsInvariant, records' \subseteq records,
           \A r \in records' : claim[r.owner].finalizer => claim'[r.owner].finalizer
    PROVE  OneRecordPerClaim' /\ RecordImpliesFinalizer' /\ RecordsMarked'
BY DEF RecordsInvariant, OneRecordPerClaim, RecordImpliesFinalizer, RecordsMarked

\* How the worker comes to know what it knows of the records.
LEMMA LookupsTell ==
    ASSUME SafetyInvariant, MidReconcile
    PROVE  WorkerKnowsRecords'
<1> USE DEF kubernetes, claims, addresses, netbox, external, caches
<1>0. /\ TypeOK /\ WorkerKnows /\ OneRecordPerClaim /\ WorkerKnowsRecords /\ NoPoolNoRecords
      /\ RecordsMarked
  BY DEF SafetyInvariant, ViewsInvariant, RecordsInvariant
<1>1. /\ pc # "idle" /\ pc # "PatchClaim" /\ job \in Job /\ job'.claim = job.claim
      /\ job'.want.finalizer = job.want.finalizer \/ (pc \in ReleaseWindow /\ ~job'.want.finalizer)
  BY <1>0, MidReconcileFacts DEF TypeOK
<1>2. FoundByUID(job.pool, job.claim) = RecordsOf(job.claim)
  BY <1>0, LookupIsComplete
<1>3. pc' = "PatchClaim" /\ ~job'.want.finalizer => pc \in ReleaseWindow
  BY <1>0, <1>1 DEF WorkerKnows
<1>4. AllocationFailed \/ ReleaseFailed => pc' = "PatchClaim"
  BY DEF AllocationFailed, ReleaseFailed, ReturnError, Proceed
<1>5. CASE ReleaseDelete
  <2>1. RecordsOf(job.claim)' = {}
    BY <1>0, <1>1, <1>5 DEF ReleaseDelete, WorkerKnowsRecords, RecordsOf
  <2> QED
    BY <1>1, <2>1 DEF WorkerKnowsRecords
<1>6. CASE Allocate
  <2>1. pc' \in {"CreateAddress", "PatchClaim"} /\ pc = "Allocate"
    BY <1>4, <1>6 DEF Allocate, Proceed
  <2> QED
    BY <1>3, <2>1 DEF WorkerKnowsRecords, ReleaseWindow
<1>7. CASE FetchPool
  <2>1. /\ UNCHANGED records /\ pc = "FetchPool"
        /\ pc' \in {"DeleteGet", "PatchClaim", "ReleaseGet", "EnsureGet"}
        /\ pc' = "DeleteGet" => pool.state = "absent"
    BY <1>7 DEF FetchPool, Continue, WithPool, Return, Proceed
  <2>2. pc' = "DeleteGet" => RecordsOf(job.claim)' = {}
    BY <1>0, <2>1 DEF NoPoolNoRecords, RecordsOf
  <2> QED
    BY <1>3, <2>1, <2>2 DEF WorkerKnowsRecords, ReleaseWindow
<1>8. CASE FindByUID \/ NoAvailableIP
  <2>1. UNCHANGED records /\ pc \in {"FindByUID", "Allocate"} /\ pc' \in {"CreateAddress", "Allocate"}
        /\ (pc' = "Allocate" => RecordsOf(job.claim) = {})
    BY <1>0, <1>2, <1>8 DEF FindByUID, NoAvailableIP, Proceed, WorkerKnowsRecords
  <2>2. RecordsOf(job.claim)' = RecordsOf(job.claim)
    BY <1>1, <2>1 DEF RecordsOf
  <2> QED
    BY <1>3, <2>1, <2>2 DEF WorkerKnowsRecords, ReleaseWindow
<1>9. CASE ReleaseFind
  <2>1. UNCHANGED records /\ pc = "ReleaseFind" /\ RecordsOf(job.claim)' = RecordsOf(job.claim)
    BY <1>1, <1>9 DEF ReleaseFind, RecordsOf
  <2>2. CASE RecordsOf(job.claim) = {}
    <3>1. pc' \in {"ReleaseFindByAddress", "DeleteGet"}
      BY <1>2, <1>9, <2>2 DEF ReleaseFind, Continue
    <3> QED
      BY <2>1, <2>2, <3>1 DEF WorkerKnowsRecords
  <2>3. CASE RecordsOf(job.claim) # {}
    <3>1. PICK r \in RecordsOf(job.claim) : Proceed("ReleaseDelete", [job EXCEPT !.record = r])
      BY <1>2, <1>9, <2>3 DEF ReleaseFind
    <3>2. pc' = "ReleaseDelete" /\ job'.record = r
      BY <1>1, <3>1 DEF Proceed, Job
    <3>3. RecordsOf(job.claim) \subseteq {r}
      BY <1>0, <3>1 DEF OneRecordPerClaim, RecordsOf
    <3> QED
      BY <2>1, <3>2, <3>3 DEF WorkerKnowsRecords, ReleaseWindow
  <2> QED
    BY <2>2, <2>3
<1>10. CASE ReleaseFindByAddress
  <2>1. UNCHANGED records /\ pc = "ReleaseFindByAddress" /\ pc' \in {"ReleaseDelete", "PatchClaim"}
        /\ RecordsOf(job.claim) = {}
    BY <1>0, <1>4, <1>10 DEF ReleaseFindByAddress, Proceed, WorkerKnowsRecords
  <2>2. RecordsOf(job.claim)' = {}
    BY <1>1, <2>1 DEF RecordsOf
  <2> QED
    BY <2>1, <2>2 DEF WorkerKnowsRecords, ReleaseWindow
<1>11. CASE DeleteGet \/ Unprotect \/ DeleteAddress
  <2>1. UNCHANGED records /\ pc \in ReleaseWindow /\ pc' \in ReleaseWindow \cup {"PatchClaim"}
    BY <1>4, <1>11 DEF DeleteGet, Unprotect, DeleteAddress, Continue, Return, Proceed, ReleaseWindow
  <2>2. RecordsOf(job.claim)' = {}
    BY <1>0, <1>1, <2>1 DEF RecordsOf, WorkerKnowsRecords
  <2> QED
    BY <2>1, <2>2 DEF WorkerKnowsRecords
<1>12. CASE EnsureGet \/ PoolExhausted \/ CreateAddress \/ PatchAddress \/ PollCache \/ ReleaseGet
            \/ AllocateTimesOut
  <2>1. /\ pc \notin ReleaseWindow
        /\ pc' \in {"FindByUID", "PollCache", "PatchAddress", "PatchClaim", "ReleaseFind"}
    BY <1>4, <1>12 DEF EnsureGet, PoolExhausted, CreateAddress, PatchAddress, PollCache, ReleaseGet,
       AllocateTimesOut, Proceed, Continue, Return, ReturnError, ReleaseWindow
  <2> QED
    BY <1>3, <2>1 DEF WorkerKnowsRecords, ReleaseWindow
<1>13. CASE CallFails
  <2>1. UNCHANGED records /\ pc' = "PatchClaim"
    BY <1>1, <1>4, <1>13 DEF CallFails
  <2>2. RecordsOf(job.claim)' = RecordsOf(job.claim)
    BY <1>1, <2>1 DEF RecordsOf
  <2> QED
    BY <1>0, <1>3, <2>1, <2>2 DEF WorkerKnowsRecords, ReleaseWindow
<1> QED
  BY <1>5, <1>6, <1>7, <1>8, <1>9, <1>10, <1>11, <1>12, <1>13 DEF MidReconcile, WorkerStep

\* Steps in the middle of a reconcile.
LEMMA MidReconcileRecords ==
    ASSUME SafetyInvariant, SameMarks, MidReconcile, ~AllocateTimesOut
    PROVE  RecordsInvariant'
<1> USE DEF kubernetes, claims, addresses, netbox, external, caches
<1>0. TypeOK /\ RecordsInvariant /\ NoPoolNoRecords /\ posts = {}
  BY DEF SafetyInvariant, ViewsInvariant, RecordsInvariant
<1>1. UNCHANGED <<claim, pool>> /\ pc # "PatchClaim"
  BY <1>0, MidReconcileFacts
<1>2. posts' = {}
  BY <1>0, <1>1 DEF MidReconcile, WorkerStep, FetchPool, EnsureGet, FindByUID, Allocate, NoAvailableIP,
     PoolExhausted, CreateAddress, PatchAddress, PollCache, ReleaseGet, ReleaseFind,
     ReleaseFindByAddress, ReleaseDelete, DeleteGet, Unprotect, DeleteAddress, CallFails
<1>3. Allocate \/ records' \subseteq records
  BY <1>0, <1>1 DEF MidReconcile, WorkerStep, FetchPool, EnsureGet, FindByUID, NoAvailableIP,
     PoolExhausted, CreateAddress, PatchAddress, PollCache, ReleaseGet, ReleaseFind,
     ReleaseFindByAddress, ReleaseDelete, DeleteGet, Unprotect, DeleteAddress, CallFails
<1>4. OneRecordPerClaim' /\ RecordImpliesFinalizer' /\ RecordsMarked'
  BY <1>0, <1>1, <1>3, AllocateRecords, FewerRecords
<1>5. NoPoolNoRecords'
  <2>1. SUFFICES ASSUME pool.state = "absent" PROVE records' = {} /\ pc' \notin EnsureCalls
    BY <1>1 DEF NoPoolNoRecords, EnsureCalls
  <2>2. records = {} /\ pc \notin EnsureCalls
    BY <1>0, <2>1 DEF NoPoolNoRecords
  <2>3. ~Allocate
    BY <2>2 DEF Allocate, EnsureCalls
  <2> QED
    BY <1>0, <1>3, <2>1, <2>2, <2>3, MidReconcileCalls
<1> QED
  BY <1>2, <1>4, <1>5, LookupsTell DEF RecordsInvariant

\* The deferred patch: if it takes the finalizer off, then off the claim in hand, which has no
\* record left.
LEMMA PatchRecords ==
    ASSUME SafetyInvariant, TypeOK', PatchClaim
    PROVE  RecordsInvariant'
<1> USE DEF kubernetes, claims, addresses, netbox, external, caches
<1>0. /\ ViewsInvariant /\ TypeOK /\ InformerKnows /\ WorkerKnowsRecords /\ RecordsInvariant
      /\ NoPoolNoRecords /\ posts = {}
  BY DEF SafetyInvariant, ViewsInvariant, RecordsInvariant
<1>1. pc = "PatchClaim" /\ pc' = "idle" /\ UNCHANGED <<claimCache, pool, records, posts>>
  BY DEF PatchClaim, Finish
<1>2. \A r \in records : claim[r.owner].finalizer => claim'[r.owner].finalizer
  <2>1. CASE UNCHANGED claims
    BY <2>1
  <2>2. ASSUME NEW c \in Namesakes, NEW done \in SUBSET Requests,
               WriteClaim(c, Collected(Merged(claim[c], done)))
        PROVE  \A r \in records : claim[r.owner].finalizer => claim'[r.owner].finalizer
    <3>1. \A d \in Claims : claim'[d] = IF d = c THEN Collected(Merged(claim[c], done)) ELSE claim[d]
      BY <1>0, <1>1, <2>2, PatchIsSound, PatchFacts, WriteKeepsViews
    <3>2. Collected(Merged(claim[c], done)).finalizer <=> Merged(claim[c], done).finalizer
      BY DEF Collected, Fresh
    <3>3. \A r \in records : r.owner \in Claims
      BY <1>0 DEF TypeOK, Record
    <3>4. claim[c].finalizer /\ ~Merged(claim[c], done).finalizer =>
             c = job.claim /\ RecordsOf(job.claim) = {}
      BY <1>0, <1>1, PatchFacts DEF WorkerKnowsRecords
    <3> QED
      BY <3>1, <3>2, <3>3, <3>4 DEF RecordsOf
  <2> QED
    BY <2>1, <2>2 DEF PatchClaim
<1>3. OneRecordPerClaim' /\ RecordImpliesFinalizer' /\ RecordsMarked'
  BY <1>0, <1>1, <1>2, FewerRecords
<1>4. WorkerKnowsRecords' /\ NoPoolNoRecords'
  BY <1>0, <1>1 DEF WorkerKnowsRecords, ReleaseWindow, NoPoolNoRecords, EnsureCalls
<1> QED
  BY <1>0, <1>1, <1>3, <1>4 DEF RecordsInvariant

\* A step that leaves records and requests alone, takes no finalizer away, and either leaves
\* the worker or makes its reconcile begin or end; the pool may change, but not disappear.
LEMMA ApartRecords ==
    ASSUME SafetyInvariant, UNCHANGED <<posts, records>>, pool' = pool \/ pool'.state # "absent",
           \A c \in Claims : claim[c].finalizer => claim'[c].finalizer,
           \/ UNCHANGED <<pc, job>>
           \/ pc' \in {"idle", "FetchPool"}
           \/ pc' = "PatchClaim" /\ job'.want.finalizer
    PROVE  RecordsInvariant'
<1>0. /\ RecordsInvariant /\ WorkerKnowsRecords /\ NoPoolNoRecords /\ posts = {}
      /\ \A r \in records : r.owner \in Claims
  BY DEF SafetyInvariant, ViewsInvariant, RecordsInvariant, TypeOK, Record
<1>1. OneRecordPerClaim' /\ RecordImpliesFinalizer' /\ RecordsMarked'
  BY <1>0, FewerRecords
<1>2. WorkerKnowsRecords' /\ NoPoolNoRecords'
  BY <1>0 DEF WorkerKnowsRecords, ReleaseWindow, NoPoolNoRecords, EnsureCalls, RecordsOf
<1> QED
  BY <1>0, <1>1, <1>2 DEF RecordsInvariant

\* A reconcile begins with the finalizer in place, or puts it there.
LEMMA ReconcileRecords ==
    ASSUME SafetyInvariant, NEW n \in Names, Reconcile(n)
    PROVE  RecordsInvariant'
<1> USE DEF kubernetes, claims, addresses, netbox, external, caches
<1>1. UNCHANGED <<claim, pool, records, posts>> /\ pc = "idle" /\ TypeOK
  BY DEF Reconcile, SafetyInvariant, ViewsInvariant
<1>2. \/ UNCHANGED <<pc, job>> \/ pc' = "FetchPool"
      \/ pc' = "PatchClaim" /\ job'.want.finalizer
  <2>1. ASSUME NEW c \in Cached(n), ReconcileClaim(c)
        PROVE  UNCHANGED <<pc, job>> \/ pc' = "FetchPool" \/ (pc' = "PatchClaim" /\ job'.want.finalizer)
    BY <1>1, <2>1, ReadFacts DEF ReconcileClaim, AddFinalizer, Proceed, Cached
  <2> QED
    BY <2>1 DEF Reconcile
<1> QED
  BY <1>1, <1>2, ApartRecords

\* The initial states satisfy the invariant.
LEMMA InitSafety == Init => SafetyInvariant
<1> SUFFICES ASSUME Init PROVE SafetyInvariant
  OBVIOUS
<1>1. records = {} /\ posts = {} /\ pc = "idle"
  BY DEF Init
<1> QED
  BY <1>1, InitViews DEF SafetyInvariant, RecordsInvariant, OneRecordPerClaim, RecordImpliesFinalizer,
     WorkerKnowsRecords, NoPoolNoRecords, RecordsMarked, EnsureCalls, ReleaseWindow

\* Every step keeps the invariant, as long as NetBox never applies a request late.
LEMMA NextSafety ==
    ASSUME "lateApply" \notin Faults, SameMarks
    PROVE  SafetyInvariant /\ [Next]_vars => SafetyInvariant'
<1> SUFFICES ASSUME SafetyInvariant, [Next]_vars PROVE RecordsInvariant'
  BY NextViews DEF SafetyInvariant
<1> USE DEF kubernetes, claims, addresses, netbox, external, caches
<1>1. TypeOK /\ TypeOK' /\ ViewsInvariant
  BY NextTypes DEF SafetyInvariant, ViewsInvariant
<1>2. CASE \E n \in Names : Reconcile(n)
  BY <1>2, ReconcileRecords
<1>3. CASE MidReconcile
  <2>1. ~AllocateTimesOut
    BY DEF AllocateTimesOut, Fault
  <2> QED
    BY <1>3, <2>1, MidReconcileRecords
<1>4. CASE PatchClaim
  BY <1>1, <1>4, PatchRecords
<1>5. CASE (CallFails /\ pc = "PatchClaim") \/ Crash \/ SyncClaim \/ SyncAddress \/ Resync
           \/ ChangePool \/ ChangeCluster \/ UNCHANGED vars
  <2>1. /\ UNCHANGED <<claim, posts, records>> /\ (pool' = pool \/ pool'.state # "absent")
        /\ pc' = "idle" \/ UNCHANGED <<pc, job>>
    BY <1>5 DEF CallFails, Finish, Crash, Restart, SyncClaim, SyncAddress, Resync, ChangePool,
       ChangeCluster, vars
  <2> QED
    BY <2>1, ApartRecords
<1>6. ~LateAllocation
  BY DEF LateAllocation, SafetyInvariant, RecordsInvariant
<1>7. ASSUME NEW c \in Claims, CreateClaim(c) \/ DeleteClaim(c) PROVE RecordsInvariant'
  <2>1. \A d \in Claims : claim[d].finalizer => claim'[d].finalizer
    <3>1. claim[c] \in ClaimObject /\ (claim[c].phase = "absent" => ~claim[c].finalizer)
      BY <1>1 DEF TypeOK, ViewsInvariant, InformerKnows, CopiesTrusted, Held, Exists
    <3>2. [claim[c] EXCEPT !.phase = "deleting"].finalizer = claim[c].finalizer
      BY <3>1 DEF ClaimObject
    <3> QED
      BY <1>1, <1>7, <3>1, <3>2 DEF CreateClaim, DeleteClaim, WriteClaim, Collected, Fresh, TypeOK
  <2>2. UNCHANGED <<pool, records, posts, pc, job>>
    BY <1>7 DEF CreateClaim, DeleteClaim
  <2> QED
    BY <2>1, <2>2, ApartRecords
<1> QED
  BY <1>2, <1>3, <1>4, <1>5, <1>6, <1>7 DEF Next, WorkerStep, FaultStep, Environment, MidReconcile

(***************************************************************************)
(* The theorems.                                                           *)
(***************************************************************************)

\* As long as NetBox never applies a request that its client has given up on and the pool
\* keeps its ownership tag and claim UID field, the invariant holds for any number of crashes,
\* failed calls, lost replies and poll timeouts, however far the caches lag, and also when
\* claims follow each other under a name.
THEOREM SafetyInvariantHolds ==
    ASSUME "lateApply" \notin Faults, SameMarks
    PROVE  Spec => []SafetyInvariant
<1>1. Init => SafetyInvariant
  BY InitSafety
<1>2. SafetyInvariant /\ [Next]_vars => SafetyInvariant'
  BY NextSafety
<1> QED
  BY <1>1, <1>2, PTL DEF Spec

\* Allocation is idempotent: NetBox never holds two records of one claim.
THEOREM AllocationIsIdempotent ==
    ASSUME "lateApply" \notin Faults, SameMarks
    PROVE  Spec => []OneRecordPerClaim
<1>1. SafetyInvariant => OneRecordPerClaim
  BY DEF SafetyInvariant, RecordsInvariant
<1> QED
  BY <1>1, SafetyInvariantHolds, PTL

\* No claim disappears, or loses its finalizer, while NetBox holds a record of it.
THEOREM NoRecordIsOrphaned ==
    ASSUME "lateApply" \notin Faults, SameMarks
    PROVE  Spec => []RecordImpliesFinalizer
<1>1. SafetyInvariant => RecordImpliesFinalizer
  BY DEF SafetyInvariant, RecordsInvariant
<1> QED
  BY <1>1, SafetyInvariantHolds, PTL

=============================================================================
