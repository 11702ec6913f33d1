--------------------------- MODULE ClaimInvariant ---------------------------
(***************************************************************************)
(* The inductive invariants behind the safety properties of the claim      *)
(* controller.                                                             *)
(*                                                                         *)
(* ViewsInvariant relates what the caches, the pending watch events and    *)
(* the worker have seen of the claims to what the API has.  It needs no    *)
(* assumption: any fault may happen at any time, caches may lag without    *)
(* bound, and claims may follow each other under a name.                   *)
(*                                                                         *)
(* RecordsInvariant adds what NetBox holds, for behaviours in which NetBox *)
(* applies a request before its client gives up on it and no edit of the   *)
(* pool changes the marks of its records.                                  *)
(*                                                                         *)
(* AddressInvariant adds the IPAddress objects and their informer, for     *)
(* behaviours in which no release is interrupted halfway.                  *)
(***************************************************************************)
EXTENDS ClaimController

-----------------------------------------------------------------------------
(* The order in which the informer sees the life of a claim.               *)

\* The phases of a claim, in the order in which it passes through them.
Rank(obj) == CASE obj.phase = "absent"   -> 0
               [] obj.phase = "live"     -> 1
               [] obj.phase = "deleting" -> 2
               [] OTHER                  -> 3

\* The cache is not ahead of any pending event, a pending event not ahead of a later one, and
\* none ahead of the API.
CacheInOrder ==
    /\ \A c \in Claims : Rank(claimCache[c]) <= Rank(claim[c])
    /\ \A i \in 1..Len(claimWatch) :
          LET e == claimWatch[i]
          IN  Rank(claimCache[e.claim]) <= Rank(e.object) /\ Rank(e.object) <= Rank(claim[e.claim])
    /\ \A i, j \in 1..Len(claimWatch) :
          i < j /\ claimWatch[i].claim = claimWatch[j].claim
              => Rank(claimWatch[i].object) <= Rank(claimWatch[j].object)

-----------------------------------------------------------------------------
(* What an old copy of a claim says of its finalizer.                      *)

\* A claim being deleted is held back by its finalizer; one that does not exist has none.
Held(obj) == /\ obj.phase = "deleting" => obj.finalizer
             /\ obj.finalizer => Exists(obj)

\* A copy of a claim that is live and has the finalizer is never out of date about the
\* finalizer, however old it is.
Trusted(obj, c) == obj.phase = "live" /\ obj.finalizer => claim[c].finalizer

CopiesTrusted ==
    /\ \A c \in Claims : Held(claim[c])
    /\ \A c \in Claims : Held(claimCache[c]) /\ Trusted(claimCache[c], c)
    /\ \A i \in 1..Len(claimWatch) :
          Held(claimWatch[i].object) /\ Trusted(claimWatch[i].object, claimWatch[i].claim)

-----------------------------------------------------------------------------
(* Claims that follow each other under a name.                             *)

Others(c) == {d \in Claims \ {c} : NameOf[d] = NameOf[c]}

\* What the informer knows of a claim before the i-th pending event: that it has been
\* created, that it is gone.
Begun(c, i) == \/ claimCache[c].phase # "absent"
               \/ \E j \in 1..(i - 1) : claimWatch[j].claim = c
Ended(c, i) == \/ claimCache[c].phase = "gone"
               \/ \E j \in 1..(i - 1) : claimWatch[j].claim = c /\ claimWatch[j].object.phase = "gone"
Alone(c, i) == \A d \in Others(c) : Begun(d, i) => Ended(d, i)

\* At most one claim has a name, in the API and in what the informer sees at any point.
NamesInTurn ==
    /\ \A c \in Claims :
          /\ Exists(claim[c]) => \A d \in Others(c) : ~Exists(claim[d])
          /\ Exists(claim[c]) => Alone(c, Len(claimWatch) + 1)
          /\ claim[c].phase = "gone" => Ended(c, Len(claimWatch) + 1)
          /\ Exists(claimCache[c]) => Alone(c, 1)
    /\ \A i \in 1..Len(claimWatch) :
          /\ claimWatch[i].object.phase # "absent"
          /\ Exists(claimWatch[i].object) => Alone(claimWatch[i].claim, i)

\* The informer has seen, or is about to see, a claim on its way out.
DeletionSeen(c) ==
    \/ claimCache[c].phase = "deleting"
    \/ \E i \in 1..Len(claimWatch) : claimWatch[i].claim = c /\ claimWatch[i].object.phase = "deleting"

\* Until the informer has forgotten it no later claim of its name has the finalizer, and a
\* claim is held back at least until the cache shows its deletion.
DeletionsBeforeFinalizers ==
    \A c \in Claims : DeletionSeen(c) =>
        /\ \A d \in Others(c) : ~claim[d].finalizer
        /\ Rank(claimCache[c]) < 2 => claim[c].phase = "deleting"

InformerKnows == CacheInOrder /\ CopiesTrusted /\ NamesInTurn /\ DeletionsBeforeFinalizers

-----------------------------------------------------------------------------
(* What the worker knows.                                                  *)

EnsureCalls  == {"EnsureGet", "FindByUID", "Allocate", "CreateAddress", "PatchAddress", "PollCache"}
ReleaseCalls == {"ReleaseGet", "ReleaseFind", "ReleaseFindByAddress", "ReleaseDelete"} \cup ReleaseWindow

\* Of the claim it works on: its copy is trustworthy too; it allocates only for a copy that is
\* live and has the finalizer, releases only for one that is being deleted, which the cache
\* has seen, and only the release drops the finalizer.
WorkerKnows ==
    /\ pc # "idle" => Held(job.snap) /\ Trusted(job.snap, job.claim)
    /\ pc # "idle" /\ pc # "PatchClaim" => job.snap.finalizer /\ job.want.finalizer
    /\ pc \in EnsureCalls => job.snap.phase = "live"
    /\ pc \in ReleaseCalls => job.snap.phase = "deleting"
    /\ pc # "idle" => Exists(job.snap) /\ Rank(job.snap) <= Rank(claimCache[job.claim])
    /\ pc = "PatchClaim" /\ ~job.want.finalizer => job.snap.phase = "deleting"

\* Of the claims of its name, whose finalizers the deferred patch may reach instead: while it
\* releases one no other has the finalizer, and any whose deletion the informer has seen, but
\* the one it releases, is still held back.
WorkerKnowsNamesakes ==
    pc # "idle" =>
        /\ job.snap.phase = "deleting" => \A d \in Others(job.claim) : ~claim[d].finalizer
        /\ \A c \in Claims :
              /\ NameOf[c] = Name
              /\ c # job.claim \/ job.snap.phase = "live"
              /\ DeletionSeen(c)
              => claim[c].phase = "deleting"

ViewsInvariant ==
    /\ TypeOK
    /\ InformerKnows
    /\ WorkerKnows
    /\ WorkerKnowsNamesakes

-----------------------------------------------------------------------------
(* The records in NetBox.                                                  *)

\* The assumption about the pools.
SameMarks == \A p, q \in Pools : p.tag = q.tag /\ p.field = q.field

\* What the worker knows of NetBox: no record when it is about to allocate one, at most the
\* one it is about to delete, and none once it takes the IPAddress and the finalizer away.
WorkerKnowsRecords ==
    /\ pc \in {"Allocate", "ReleaseFindByAddress"} \cup ReleaseWindow => RecordsOf(job.claim) = {}
    /\ pc = "ReleaseDelete" => RecordsOf(job.claim) \subseteq {job.record}
    /\ pc = "PatchClaim" /\ ~job.want.finalizer => RecordsOf(job.claim) = {}

\* The lookups see every record.
RecordsMarked == \A r \in records, p \in Pools : r.tag = p.tag /\ r.field = p.field

\* Nothing is allocated before the pool exists.
NoPoolNoRecords == pool.state = "absent" => records = {} /\ pc \notin EnsureCalls

RecordsInvariant ==
    /\ posts = {}
    /\ OneRecordPerClaim
    /\ RecordImpliesFinalizer
    /\ WorkerKnowsRecords
    /\ NoPoolNoRecords
    /\ RecordsMarked

\* Each claim has at most one NetBox record and carries the finalizer while it has one,
\* because of what the caches show and the worker knows.
SafetyInvariant == ViewsInvariant /\ RecordsInvariant

-----------------------------------------------------------------------------
(* The IPAddress objects.  Their informer is followed from the cache over  *)
(* the pending events to the API, as the claims' is above.                 *)

\* The assumption about faults: a release is not interrupted between the deletion of the record
\* and that of the object, and a reconcile that gives up on an object it has created is
\* followed by one whose caches are up to date.
AddressFaults ==
    /\ "releaseInterrupted" \notin Faults
    /\ MaxLag = 0 \/ Faults \cap {"replyLost", "pollTimeout"} = {}

EventsOf(n) == {i \in 1..Len(addressWatch) : addressWatch[i].name = n}
Copies(n)   == {addressCache[n]} \cup {addressWatch[i].object : i \in EventsOf(n)}

\* The informer gets to see the object as it is.
WatchReachesAPI ==
    \A n \in Names :
        \/ EventsOf(n) = {} /\ addressCache[n] = ipAddress[n]
        \/ \E i \in EventsOf(n) : /\ addressWatch[i].object = ipAddress[n]
                                 /\ \A j \in EventsOf(n) : j <= i

\* A deletion is the last the informer hears of a name until it has been delivered.
DeletionIsLast ==
    \A n \in Names : \A i \in EventsOf(n) :
        ~Found(addressWatch[i].object) =>
            /\ ~Found(ipAddress[n]) /\ Found(addressCache[n])
            /\ \A j \in EventsOf(n) : j <= i

\* What a copy says of the object: its address, unless the object is gone, that its finalizer is
\* off, and its owner, unless the cache shows that the owner is on its way out.
CopiesAgree ==
    \A n \in Names : \A obj \in Copies(n) :
        obj # NotFound =>
            /\ Found(obj)
            /\ Found(ipAddress[n]) => obj.address = ipAddress[n].address
            /\ ipAddress[n].protected => obj.protected
            /\ obj.owner \in Claims
            /\ obj.owner = ipAddress[n].owner \/ 2 <= Rank(claimCache[obj.owner])

\* The informer hears that an address is free again before it hears of its next owner.
AddressesInTurn ==
    \A m, n \in Names : m # n =>
        /\ Found(addressCache[m]) => addressCache[m].address # addressCache[n].address
        /\ \A i \in EventsOf(m) :
              /\ Found(addressWatch[i].object)
              /\ \/ addressCache[n].address = addressWatch[i].object.address
                 \/ \E k \in EventsOf(n) :
                       k < i /\ addressWatch[k].object.address = addressWatch[i].object.address
              => \E j \in EventsOf(n) : j < i /\ ~Found(addressWatch[j].object)

InformerKnowsAddresses == WatchReachesAPI /\ DeletionIsLast /\ CopiesAgree /\ AddressesInTurn

\* An object just created may not be in the cache yet; but no call of the worker other than the
\* wait for it meets this.
Hidden(n) ==
    \/ pc = "PollCache" /\ Name = n
    \/ pc \in {"idle", "PatchClaim"} /\ MaxLag = 0 /\ addressWatch # <<>>

CreatedIsSeen ==
    \A n \in Names : Found(ipAddress[n]) =>
        \/ Hidden(n)
        \/ /\ Found(addressCache[n])
           /\ \A m \in Names \ {n} : addressCache[m].address # ipAddress[n].address

\* Every object belongs to a claim of its name that is held back, and has its finalizer until
\* the release has taken it off.
ObjectsOwned ==
    \A n \in Names : ipAddress[n] # NotFound =>
        /\ Found(ipAddress[n])
        /\ ipAddress[n].owner \in Claims
        /\ NameOf[ipAddress[n].owner] = n
        /\ claim[ipAddress[n].owner].finalizer
        /\ ~ipAddress[n].protected => pc = "DeleteAddress" /\ Name = n

RecordsDiffer == \A r, s \in records : r.address = s.address => r = s

\* The deferred patch is about to report an address that the claim did not have.
ReportsAddress ==
    /\ pc = "PatchClaim"
    /\ \/ job.want.ready = "allocated" /\ job.snap.ready # "allocated"
       \/ job.want.addressRef /\ ~job.snap.addressRef

\* What the worker knows of the object while it allocates: it creates one only where there is
\* none, of which the informer has heard the last, with an address reserved for the claim, and
\* it reports only the object of the claim.
WorkerKnowsObject ==
    /\ pc \notin {"idle", "PatchClaim"} => job.want = job.snap
    /\ pc \in {"FindByUID", "Allocate", "CreateAddress"} =>
          ipAddress[Name] = NotFound /\ addressCache[Name] = NotFound /\ EventsOf(Name) = {}
    /\ pc = "CreateAddress" =>
          /\ job.address.owner = job.claim /\ Found(job.address) /\ job.address.protected
          /\ Reserved(job.address)
    /\ pc = "PollCache" \/ ReportsAddress => ipAddress[Name].owner = job.claim
    /\ pc # "idle" /\ job.snap.phase = "live" =>
          \A obj \in Copies(Name) : obj.owner = job.claim => ipAddress[Name].owner = job.claim

\* And while it releases: it takes away no address that another object has, and drops the
\* finalizer only when there is no object left.
WorkerKnowsRelease ==
    /\ pc \in {"ReleaseFind", "ReleaseFindByAddress"} /\ Found(job.address) =>
          \A m \in Names \ {Name} : ipAddress[m].address # job.address.address
    /\ pc = "ReleaseDelete" =>
          \A m \in Names \ {Name} :
              ipAddress[m].owner = job.record.owner => ipAddress[m].address # job.record.address
    /\ pc = "DeleteAddress" => ~ipAddress[Name].protected
    /\ pc = "PatchClaim" /\ ~job.want.finalizer => ~Found(ipAddress[Name])

\* When caches are up to date whenever a reconcile starts, the worker also knows whose record it
\* deletes.
WorkerKnowsOwner ==
    MaxLag = 0 =>
        /\ pc \in {"FetchPool", "ReleaseGet"} => addressWatch = <<>>
        /\ pc \in {"ReleaseFind", "ReleaseFindByAddress"} => job.address = ipAddress[Name]
        /\ pc = "ReleaseDelete" => job.record.owner = job.claim
        /\ pc # "idle" /\ job.snap.phase = "deleting" => claim[job.claim].phase = "deleting"

AddressInvariant ==
    /\ ViewsInvariant
    /\ InformerKnowsAddresses
    /\ CreatedIsSeen
    /\ ObjectsOwned
    /\ PublishedAddressIsReserved
    /\ PublishedAddressesDiffer
    /\ RecordsDiffer
    /\ ReadyIsTrue
    /\ WorkerKnowsObject
    /\ WorkerKnowsRelease
    /\ WorkerKnowsOwner

-----------------------------------------------------------------------------
(* The records a release may find, when caches lag.                        *)

\* No copy of an IPAddress shows an address that NetBox has meanwhile reserved for a claim of
\* another name, but one that the worker is about to publish: it waits for its own object, of
\* which the informer hears last.
CopiesKnowRecords ==
    \A n \in Names : \A obj \in Copies(n) : \A r \in records :
        r.address = obj.address =>
            \/ NameOf[r.owner] = n
            \/ pc \in {"CreateAddress", "PollCache"} /\ r.owner = job.claim

\* So the lookup by address finds no record of another name, and a release deletes its own.
ReleaseKnowsRecord ==
    /\ pc \in {"ReleaseFind", "ReleaseFindByAddress"} =>
          \A r \in records : r.address = job.address.address => NameOf[r.owner] = Name
    /\ pc = "ReleaseDelete" => job.record.owner = job.claim

OwnerInvariant == CopiesKnowRecords /\ ReleaseKnowsRecord
=============================================================================
