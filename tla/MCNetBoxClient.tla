--------------------------- MODULE MCNetBoxClient ---------------------------
(* Two claims and a record of another cluster, pages of one row.           *)
EXTENDS NetBoxInvariant

CONSTANTS c1, c2

\* The first claim sets a tag and puts the second one's UID into the claim UID field, the
\* second takes the pool's defaults.
PoolDefaults == [tags |-> <<"default">>, fields |-> [f \in {"site"} |-> Foreign]]
ClaimAnnotations ==
    [k \in Clients |->
        IF k = c1 THEN [tags |-> <<"extra">>, fields |-> [f \in {"uid"} |-> c2]]
        ELSE [tags |-> <<>>, fields |-> [f \in {} |-> Foreign]]]
SameSlug == [t \in Tags |-> t]
=============================================================================
