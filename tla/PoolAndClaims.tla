---------------------------- MODULE PoolAndClaims ----------------------------
(***************************************************************************)
(* The claim controller and the pool controller in one manager.  They      *)
(* share the informer caches and meet in two places: the claim handler     *)
(* reads the pool, with the prefixes that the pool controller has stored   *)
(* there, if it can, and the pool controller counts the IPAddresses that   *)
(* the claim controller has created and lets a deleted pool go when it     *)
(* sees none.                                                              *)
(* Nothing fails here: NetBox answers, no call is lost, and the manager    *)
(* does not restart.  What can go wrong is the interleaving.               *)
(***************************************************************************)
EXTENDS PrefixResolution

CONSTANTS
    Claims, Names, NameOf, NoClaim, NoAddress, MaxLag,  \* see ClaimController
    Specs, FirstSpec, MaxChanges, StampsConditions,     \* see PoolController
    Inventory                                           \* NetBox and the connection Secret

ASSUME BoundsAssumption == MaxLag \in Nat /\ MaxChanges \in Nat /\ StampsConditions \in BOOLEAN
ASSUME NamesAssumption  == IsFiniteSet(Names) /\ NameOf \in [Claims -> Names] /\ NoClaim \notin Claims
ASSUME SpecsAssumption  == /\ Specs \subseteq PoolSpec /\ FirstSpec \in Specs
                           /\ \A s \in Specs : s.prefixes # <<>>

\* NetBox answers and has what the specs refer to, also the prefixes that they name by ID, which
\* the program never looks up.
ASSUME InventoryAssumption ==
    /\ Inventory \in NetBox /\ Answers(Inventory)
    /\ \A s \in Specs :
          LET ids == ResolvePrefixIDs(Inventory.table, s.prefixes)
          IN  /\ Resolvable(Inventory.table, s.prefixes)
              /\ \A i \in DOMAIN ids : \E row \in Inventory.table : row.id = ids[i]

VARIABLES
    claim, ipAddress, records, claimCache, addressCache, claimWatch, addressWatch, queue,
    claimPc, claimJob,                                  \* see ClaimController
    pool, poolCache, poolQueued, poolPc, poolJob, changes  \* see PoolController

claimVars == <<claim, ipAddress, records, claimCache, addressCache, claimWatch, addressWatch,
               queue, claimPc, claimJob>>
poolVars  == <<pool, poolCache, poolQueued, poolPc, poolJob, changes>>
vars      == <<claimVars, poolVars>>

-----------------------------------------------------------------------------
(* The pool as a claim sees it.                                            *)

Table     == Inventory.table
Hosts     == [id \in {row.id : row \in Table} |->
                LET cidr == PrefixDetail(Table, id).cidr
                IN  {[family |-> cidr.family, host |-> h] : h \in cidr.first..cidr.last}]
Addresses == UNION {Hosts[row.id] : row \in Table}

ASSUME NoAddressAssumption == NoAddress \notin Addresses

\* The prefixes a spec resolves to.
IDsOf == [spec \in Specs |-> ResolvePrefixIDs(Table, spec.prefixes)]

\* EnsureAddress takes the prefixes the pool controller has cached in the status and resolves
\* the spec itself as long as there are none.
PrefixIDs(p) ==
    IF p.resolved # <<>> THEN [i \in DOMAIN p.resolved |-> p.resolved[i].id]
    ELSE IDsOf[p.spec]

Seen(p) == [state    |-> CASE p.phase = "gone" -> "absent"
                           [] p.phase # "gone" /\ p.paused  -> "paused"
                           [] p.phase # "gone" /\ ~p.paused -> "present",
            prefixes |-> [i \in DOMAIN PrefixIDs(p) |-> Hosts[PrefixIDs(p)[i]]],
            tag      |-> "owned",
            field    |-> "uid"]

Views == [state    : {"absent", "present", "paused"},
          prefixes : UNION {[DOMAIN s.prefixes -> SUBSET Addresses] : s \in Specs},
          tag      : {"owned"},
          field    : {"uid"}]

\* The IPAddresses that reference the pool.
Referencing(objects) == {n \in Names : objects[n].address # NoAddress}

\* The two controllers, with what is proved of each of them.
C == INSTANCE ClaimRefinementProofs WITH
        pool <- Seen(poolCache), Pools <- Views, Tags <- {"owned"}, Fields <- {"uid"},
        cluster <- "running", ClusterStates <- {"running"},
        posts <- {}, faults <- 0, Faults <- {}, MaxFaults <- 0,
        pc <- claimPc, job <- claimJob

P == INSTANCE PoolControllerProofs WITH
        Users <- Names, inUse <- Referencing(ipAddress), inUseCache <- Referencing(addressCache),
        netbox <- Inventory, NetBoxes <- {Inventory}, MayLag <- MaxLag > 0,
        faults <- 0, Faults <- {}, MaxFaults <- 0,
        queued <- poolQueued, pc <- poolPc, job <- poolJob

-----------------------------------------------------------------------------

Init ==
    /\ poolCache = P!NewPool
    /\ C!Init
    /\ P!Init

\* Steps of the claim controller and the users of claims leave the pool alone, and those of
\* the pool controller and the users of pools leave claims and NetBox's records alone.
ClaimWorkerStep == UNCHANGED poolVars /\ (C!WorkerStep \/ \E n \in Names : C!Reconcile(n))
ClaimInformers  == UNCHANGED poolVars /\ (C!SyncClaim \/ C!SyncAddress)
ClaimResync     == UNCHANGED poolVars /\ C!Resync
ClaimUser       == UNCHANGED poolVars /\ \E c \in Claims : C!CreateClaim(c) \/ C!DeleteClaim(c)

PoolWorkerStep  == UNCHANGED claimVars /\ P!WorkerStep
PoolInformer    == UNCHANGED claimVars /\ P!SyncPool
PoolResync      == UNCHANGED claimVars /\ P!Resync
PoolUser        == UNCHANGED claimVars /\ (P!EditSpec \/ P!SetPaused \/ P!DeletePool)

Next ==
    \/ ClaimWorkerStep \/ ClaimInformers \/ ClaimResync \/ ClaimUser
    \/ PoolWorkerStep \/ PoolInformer \/ PoolResync \/ PoolUser

Spec == Init /\ [][Next]_vars

(* As in the two modules, workers and informers run and users owe nothing. *)
(* The claim worker is fair as a whole, which is less than its work queue  *)
(* guarantees.                                                             *)
Fairness ==
    /\ WF_vars(ClaimWorkerStep) /\ WF_vars(ClaimInformers) /\ WF_vars(ClaimResync)
    /\ WF_vars(PoolWorkerStep) /\ WF_vars(PoolInformer) /\ WF_vars(PoolResync)

FairSpec == Spec /\ Fairness

-----------------------------------------------------------------------------
(* Properties.                                                             *)

\* While the pool exists, paused, edited or waiting for its deletion, no claim loses its
\* finalizer with a NetBox record left; a pool that goes while a claim is being allocated is
\* the only way to leave one behind.
NoLeakWhilePoolExists == pool.phase # "gone" => C!RecordImpliesFinalizer

\* As long as the pool exists, every step of either controller, of an informer or of a user is a
\* step of the claims' ledger or leaves it alone, whatever happens to the pool meanwhile.
LedgerIsKept ==
    [][pool.phase # "gone" => [C!Ledger!LedgerNext]_C!Ledger!ledgerVars]_vars

\* Also when the pool goes away under a claim, what is published stays reserved for its owner, and
\* a claim reported Ready has it.
PublishedStaysTrue == C!PublishedAddressIsReserved /\ C!ReadyIsTrue

\* Neither controller waits for the other for ever: when the claims of a deleted pool are all
\* deleted and the pool is not paused, the claims go and the pool goes.
DeletionCompletes ==
    <>[](~pool.paused /\ pool.phase # "live" /\ \A c \in Claims : claim[c].phase # "live")
        => <>(pool.phase = "gone" /\ \A c \in Claims : ~C!Exists(claim[c]))
=============================================================================
