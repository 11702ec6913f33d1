--------------------------- MODULE NetBoxInvariant ---------------------------
(***************************************************************************)
(* The inductive invariant behind the safety properties of NetBoxClient:   *)
(* what a client knows in the middle of a list, for any number of clients, *)
(* any size of a page, any metadata, and rows that come and go under it.   *)
(***************************************************************************)
EXTENDS NetBoxClient

\* Every row a provider makes carries the ownership tag, and its owner's UID in the claim UID
\* field, whatever the metadata sets; no two rows have one address.
RowsAreMarked ==
    /\ IsFiniteSet(rows)
    /\ \A r \in rows : OwnershipTag \in r.tags /\ r.fields[ClaimUIDField] = r.owner
    /\ \A r, s \in rows : r.at = s.at => r = s

\* A client has a tag to look up, and starts its list at the beginning.
TagsThenList(k) ==
    pc[k] \in {"ListTag", "PostTag"} =>
        /\ job[k].todo # <<>>
        /\ job[k].then = "Page" => job[k].offset = 0 /\ job[k].found = NoRow

\* What a client has found is its own, and a release deletes what it has found.
FoundIsOwn(k) ==
    /\ job[k].found # NoRow => job[k].found.owner = k
    /\ pc[k] = "Delete" => job[k].found # NoRow

\* As long as no row was deleted before its position, a client that has found nothing has all
\* of its rows ahead, and has none when it allocates.
RowsAreAhead(k) ==
    k \notin disturbed =>
        /\ pc[k] = "Page" /\ job[k].found = NoRow =>
              \A r \in RowsOf(k) : job[k].offset <= Rank(r)
        /\ BeforePost(k) => RowsOf(k) = {}

ClientSound(k) == TagsThenList(k) /\ FoundIsOwn(k) /\ RowsAreAhead(k)

ClientInvariant ==
    /\ TypeOK
    /\ RowsAreMarked
    /\ \A k \in Clients : ClientSound(k)
=============================================================================
