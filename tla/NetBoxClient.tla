---------------------------- MODULE NetBoxClient ----------------------------
(***************************************************************************)
(* The requests behind the NetBox calls of the claim handler               *)
(* (internal/netbox/client.go, annotations.go): ClaimController takes a    *)
(* lookup by claim UID for one atomic read, here it is a tag that is       *)
(* looked up and created, and then a list that NetBox returns page by page *)
(* while other clients insert and delete rows.                             *)
(*                                                                         *)
(* A client is the manager of one cluster at work on one claim, and stands *)
(* for the claim's UID; the clients share NetBox and, by default, the      *)
(* ownership tag.                                                          *)
(***************************************************************************)
EXTENDS Naturals, Sequences, FiniteSets

CONSTANTS
    Clients,        \* managers, each with a claim of its own
    Positions,      \* the addresses of the prefix, in NetBox's order: a set of naturals
    Tags,           \* names of tags
    SlugOf,         \* slugifyTag: the slug of each name
    OwnershipTag,   \* the tag every provider record carries
    Fields,         \* custom fields of IP addresses
    ClaimUIDField,  \* the one that holds the claim UID
    Defaults,       \* the pool's metadata defaults, see Metadata
    Annotations,    \* the metadata each claim's annotations set
    PageSize,       \* rows per page of a list
    MaxForeign,     \* bound: records of other clusters at a time
    MaxFaults       \* bound: requests that fail or lose their reply

NoValue   == "none"
Foreign   == "foreign"
Values    == Clients \cup {Foreign, NoValue}
FieldMap  == UNION {[S -> Values \ {NoValue}] : S \in SUBSET Fields}

\* Tags and custom fields of EffectiveMetadata; tags that a claim does not set are <<>>.
Metadata  == [tags : Seq(Tags), fields : FieldMap]

ASSUME ClientAssumption ==
    /\ Positions \subseteq Nat /\ PageSize \in Nat \ {0} /\ MaxForeign \in Nat /\ MaxFaults \in Nat
    /\ OwnershipTag \in Tags /\ ClaimUIDField \in Fields
    /\ Defaults \in Metadata /\ Annotations \in [Clients -> Metadata]
    /\ DOMAIN SlugOf = Tags
    /\ Foreign \notin Clients  \* UIDs are unique

VARIABLES
    tags,       \* the tags that exist in NetBox
    field,      \* the claim UID field exists in NetBox
    rows,       \* NetBox's IP addresses that carry the ownership tag or were made by a client
    goal,       \* allocate an address, hold it, release it, or nothing more
    pc,         \* the next request of each client
    job,        \* the local variables of each client
    disturbed,  \* clients whose list lost a row while they were reading it
    faults

server == <<tags, field, rows>>
vars   == <<server, goal, pc, job, disturbed, faults>>

Row == [at : Positions, owner : Values, tags : SUBSET Tags, fields : [Fields -> Values]]
NoRow == [at |-> 0, owner |-> NoValue, tags |-> {}, fields |-> [f \in Fields |-> NoValue]]

\* todo are the tags still to be ensured, then the request after the last of them.
Job == [todo : Seq(Tags), then : {"Page", "Post"}, offset : Nat, found : Row \cup {NoRow}]
NoJob == [todo |-> <<>>, then |-> "Page", offset |-> 0, found |-> NoRow]

TypeOK ==
    /\ tags \subseteq Tags
    /\ field \in BOOLEAN
    /\ rows \subseteq Row
    /\ goal \in [Clients -> {"allocate", "hold", "release", "gone"}]
    /\ pc \in [Clients -> {"idle", "ListTag", "PostTag", "Page", "ListField", "Post", "Delete"}]
    /\ job \in [Clients -> Job]
    /\ disturbed \subseteq Clients
    /\ faults \in 0..MaxFaults

Init ==
    /\ tags = {}
    /\ field \in BOOLEAN
    /\ rows = {}
    /\ goal = [k \in Clients |-> "allocate"]
    /\ pc = [k \in Clients |-> "idle"]
    /\ job = [k \in Clients |-> NoJob]
    /\ disturbed = {}
    /\ faults = 0

-----------------------------------------------------------------------------
(* The payload of an allocation.                                           *)

\* A faulty variant: custom fields of the metadata overwrite the claim UID.
RequestFieldsOverridden(k) ==
    LET set == Annotations[k].fields
    IN  [f \in Fields |-> IF f \in DOMAIN set THEN set[f]
                         ELSE IF f = ClaimUIDField THEN k ELSE NoValue]

\* EffectivePoolMetadata: a claim's tags replace the pool's, its custom fields are added to
\* the pool's and overwrite them.
EffectivePoolMetadata(k) ==
    LET own == Annotations[k]
    IN  [tags   |-> IF own.tags # <<>> THEN own.tags ELSE Defaults.tags,
         fields |-> [f \in DOMAIN own.fields \cup DOMAIN Defaults.fields |->
                        IF f \in DOMAIN own.fields THEN own.fields[f] ELSE Defaults.fields[f]]]

\* appendUnique.
RequestTags(k) ==
    LET list == EffectivePoolMetadata(k).tags
    IN  IF \E i \in DOMAIN list : list[i] = OwnershipTag THEN list ELSE Append(list, OwnershipTag)

\* The claim UID goes last.
RequestFields(k) ==
    LET set == EffectivePoolMetadata(k).fields
    IN  [f \in Fields |-> IF f = ClaimUIDField THEN k
                         ELSE IF f \in DOMAIN set THEN set[f] ELSE NoValue]

-----------------------------------------------------------------------------
(* How a request ends.                                                     *)

Step(k, call, j) == pc' = [pc EXCEPT ![k] = call] /\ job' = [job EXCEPT ![k] = j]
Fails(k)         == Step(k, "idle", NoJob)
Completes(k, g)  == Fails(k) /\ goal' = [goal EXCEPT ![k] = g]

Fault == faults < MaxFaults /\ faults' = faults + 1

-----------------------------------------------------------------------------
(* A client at work: EnsureAddress and ReleaseAddress start with           *)
(* FindIPAddressByClaimUID.  A client whose request fails starts again.    *)

Begin(k) ==
    /\ pc[k] = "idle"
    /\ goal[k] \in {"allocate", "release"}
    /\ Step(k, "ListTag", [NoJob EXCEPT !.todo = <<OwnershipTag>>])
    /\ disturbed' = disturbed \ {k}
    /\ UNCHANGED <<server, goal, faults>>

\* ensureTag: a tag that the list does not have is created.
AfterTag(k) ==
    LET rest == Tail(job[k].todo)
    IN  Step(k, IF rest = <<>> THEN job[k].then ELSE "ListTag", [job[k] EXCEPT !.todo = rest])

\* A faulty variant: the tag is created without looking for it.
ListTagSkipped(k) ==
    /\ pc[k] = "ListTag"
    /\ Step(k, "PostTag", job[k])
    /\ UNCHANGED <<server, goal, disturbed, faults>>

ListTag(k) ==
    /\ pc[k] = "ListTag"
    /\ \/ Head(job[k].todo) \in tags /\ AfterTag(k)
       \/ Head(job[k].todo) \notin tags /\ Step(k, "PostTag", job[k])
    /\ UNCHANGED <<server, goal, disturbed, faults>>

\* NetBox rejects a second tag with the same name or slug.
PostTag(k) ==
    /\ pc[k] = "PostTag"
    /\ LET t        == Head(job[k].todo)
           conflict == \E u \in tags : SlugOf[u] = SlugOf[t]
       IN  \/ conflict /\ Fails(k) /\ UNCHANGED <<tags, faults>>
           \/ /\ ~conflict
              /\ tags' = tags \cup {t}
              /\ \/ AfterTag(k) /\ UNCHANGED faults
                 \/ Fails(k) /\ Fault
    /\ UNCHANGED <<field, rows, goal, disturbed>>

\* A page of the list of rows with the ownership tag, which NetBox orders by address.
Listed == {r \in rows : OwnershipTag \in r.tags}
Rank(r) == Cardinality({s \in Listed : s.at < r.at})
PageAt(offset) == {r \in Listed : offset <= Rank(r) /\ Rank(r) < offset + PageSize}

\* A faulty variant: only the first page is read.
HasNextNever(offset) == FALSE

\* The page has a "next" link.
HasNext(offset) == Cardinality(Listed) > offset + PageSize

\* FindIPAddressByClaimUID's comparison of the claim UID.
Matches(k, page) == {r \in page : r.fields[ClaimUIDField] = k}

\* One page of listAll; the first match of all pages counts.
Page(k) ==
    /\ pc[k] = "Page"
    /\ LET offset  == job[k].offset
           matches == Matches(k, PageAt(offset))
           found   == IF job[k].found # NoRow \/ matches = {} THEN job[k].found
                      ELSE CHOOSE r \in matches : \A s \in matches : r.at <= s.at
           read    == [job[k] EXCEPT !.offset = offset + PageSize, !.found = found]
       IN  \/ HasNext(offset) /\ Step(k, "Page", read) /\ UNCHANGED goal
           \/ /\ ~HasNext(offset) /\ found = NoRow /\ goal[k] = "allocate"
              /\ Step(k, "ListField", read) /\ UNCHANGED goal
           \/ /\ ~HasNext(offset) /\ found = NoRow /\ goal[k] = "release"
              /\ Completes(k, "gone")
           \/ /\ ~HasNext(offset) /\ found # NoRow /\ goal[k] = "allocate"
              /\ Completes(k, "hold")
           \/ /\ ~HasNext(offset) /\ found # NoRow /\ goal[k] = "release"
              /\ Step(k, "Delete", read) /\ UNCHANGED goal
    /\ UNCHANGED <<server, disturbed, faults>>

\* EnsureIPAddressCustomField, then ensureTags for the request.
ListField(k) ==
    /\ pc[k] = "ListField"
    /\ \/ ~field /\ Fails(k)
       \/ field /\ Step(k, "ListTag", [job[k] EXCEPT !.todo = RequestTags(k), !.then = "Post"])
    /\ UNCHANGED <<server, goal, disturbed, faults>>

\* A faulty variant: NetBox hands out the address after a free one.
FreeOffByOne == {p + 1 : p \in {q \in Positions : \A r \in rows : r.at # q}}

Free == {p \in Positions : \A r \in rows : r.at # p}

\* AllocateIPAddress.
Post(k) ==
    /\ pc[k] = "Post"
    /\ \/ Free = {} /\ Fails(k) /\ UNCHANGED <<rows, goal, faults>>
       \/ \E p \in Free :
             LET list == RequestTags(k)
             IN  /\ rows' = rows \cup {[at |-> p, owner |-> k, fields |-> RequestFields(k),
                                        tags |-> {list[i] : i \in DOMAIN list}]}
                 /\ \/ Completes(k, "hold") /\ UNCHANGED faults
                    \/ Fails(k) /\ Fault /\ UNCHANGED goal
    /\ UNCHANGED <<tags, field, disturbed>>

\* A row that goes moves later rows to earlier offsets, past a client that reads on.
Removed(r) ==
    /\ rows' = rows \ {r}
    /\ disturbed' = disturbed \cup
          {k \in Clients : pc[k] = "Page" /\ r \in Listed /\ Rank(r) < job[k].offset}

\* DeleteIPAddress; 404 is fine.
Delete(k) ==
    /\ pc[k] = "Delete"
    /\ Removed(job[k].found)
    /\ \/ Completes(k, "gone") /\ UNCHANGED faults
       \/ Fails(k) /\ Fault /\ UNCHANGED goal
    /\ UNCHANGED <<tags, field>>

\* Any request can fail without an effect, and so can the parsing of annotations.
RequestFails(k) ==
    /\ pc[k] # "idle"
    /\ Fails(k) /\ Fault
    /\ UNCHANGED <<server, goal, disturbed>>

-----------------------------------------------------------------------------
(* Users, and providers of other clusters with the same ownership tag.     *)

Release(k) ==
    /\ goal[k] = "hold"
    /\ goal' = [goal EXCEPT ![k] = "release"]
    /\ UNCHANGED <<server, pc, job, disturbed, faults>>

CreateField ==
    /\ ~field
    /\ field' = TRUE
    /\ UNCHANGED <<tags, rows, goal, pc, job, disturbed, faults>>

ForeignRows == {r \in rows : r.owner = Foreign}

ForeignInsert ==
    /\ OwnershipTag \in tags
    /\ Cardinality(ForeignRows) < MaxForeign
    /\ \E p \in Free :
          rows' = rows \cup {[at |-> p, owner |-> Foreign, tags |-> {OwnershipTag},
                             fields |-> [f \in Fields |-> IF f = ClaimUIDField THEN Foreign ELSE NoValue]]}
    /\ UNCHANGED <<tags, field, goal, pc, job, disturbed, faults>>

ForeignDelete ==
    /\ \E r \in ForeignRows : Removed(r)
    /\ UNCHANGED <<tags, field, goal, pc, job, faults>>

-----------------------------------------------------------------------------

ClientStep(k) ==
    Begin(k) \/ ListTag(k) \/ PostTag(k) \/ Page(k) \/ ListField(k) \/ Post(k) \/ Delete(k)

Next ==
    \/ \E k \in Clients : ClientStep(k) \/ RequestFails(k) \/ Release(k)
    \/ CreateField \/ ForeignInsert \/ ForeignDelete

Spec == Init /\ [][Next]_vars

\* Every client keeps working; users and other clusters owe nothing.
FairSpec == Spec /\ \A k \in Clients : WF_vars(ClientStep(k))

-----------------------------------------------------------------------------
(* Properties.                                                             *)

RowsOf(k) == {r \in rows : r.owner = k}

\* The client's lookup has returned nothing and its allocation has not been posted.
BeforePost(k) ==
    \/ pc[k] \in {"ListField", "Post"}
    \/ pc[k] \in {"ListTag", "PostTag"} /\ job[k].then = "Post"

\* The paged lookup is the atomic one of ClaimController: unless a row before its position was
\* deleted while it read, a client that found nothing has no record when it allocates, and
\* what a release found is the claim's own record, however rows were inserted around it,
\* whatever the claim's metadata sets and however often a reply was lost.
LookupIsExact ==
    \A k \in Clients \ disturbed :
        /\ BeforePost(k) => RowsOf(k) = {}
        /\ pc[k] = "Delete" => job[k].found.owner = k

\* A client deletes no row but its claim's own, also when its pages shift.
OnlyOwnRowsDeleted ==
    [][\A k \in Clients :
          pc[k] = "Delete" /\ pc'[k] # "Delete" => rows \ rows' \subseteq RowsOf(k)]_vars

\* With the custom field in place every claim gets its address, unless the prefix is full at
\* some point, and every release completes: tags that several clients create at once and lists
\* that grow under a reader only delay it.
ClientsFinish ==
    <>[]field =>
        \A k \in Clients :
            /\ (goal[k] = "allocate") ~> (goal[k] # "allocate" \/ Free = {})
            /\ (goal[k] = "release") ~> (goal[k] = "gone")
=============================================================================
