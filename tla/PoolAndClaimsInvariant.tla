------------------------ MODULE PoolAndClaimsInvariant ------------------------
(***************************************************************************)
(* The inductive invariant of the two controllers together: those of the   *)
(* components, as far as each of them holds when the other one runs beside *)
(* it, and what the one needs to know of the other.                        *)
(***************************************************************************)
EXTENDS PoolAndClaims

\* The prefixes in the pool's status, if any are stored there, and in the worker's copies are
\* those of a spec that users have written, not always the current one.
FromSomeSpec(p) == p.resolved # <<>> => \E s \in Specs : P!IDs(p.resolved) = IDsOf[s]

PrefixesFromSpecs ==
    /\ \A p \in {pool, poolCache, poolJob.snap, poolJob.want} : FromSomeSpec(p)
    /\ poolPc = "GetPrefixDetails" => poolJob.ids = IDsOf[poolJob.want.spec]

\* The claim handler misses only a pool that is really gone.
GoneWhenUnseen == poolCache.phase = "gone" => pool.phase = "gone"

\* The pool controller keeps what it promises beside the claim controller.
PoolAgrees == P!StatusInvariant

\* So does the claim controller: of the IPAddress objects in any case, of the records in NetBox
\* as long as the pool exists.
ClaimsAgree ==
    /\ C!AddressInvariant
    /\ pool.phase # "gone" => C!SafetyInvariant /\ C!OwnerInvariant

TogetherInvariant == PrefixesFromSpecs /\ GoneWhenUnseen /\ PoolAgrees /\ ClaimsAgree
=============================================================================
