------------------------- MODULE NetBoxClientProofs -------------------------
(***************************************************************************)
(* Theorems about the NetBox client: a lookup that reads a list page by    *)
(* page finds what an atomic one would find, and no client deletes a row   *)
(* of another.                                                             *)
(***************************************************************************)
EXTENDS NetBoxInvariant, FiniteSetTheorems, SequenceTheorems, WellFoundedInduction, TLAPS

-----------------------------------------------------------------------------
(* The position of a row in the list.                                      *)

LEMMA PositionsAreNat == ASSUME NEW r \in Row PROVE r.at \in Nat
<1>1. Positions \subseteq Nat  BY ClientAssumption
<1> QED  BY <1>1 DEF Row

\* A non-empty set of rows has a first one.
LEMMA FirstRow ==
    ASSUME NEW S \in SUBSET Row, S # {}
    PROVE  \E r \in S : \A s \in S : r.at <= s.at
<1> DEFINE T == {r.at : r \in S}
<1>1. T \in SUBSET Nat /\ T # {}  BY PositionsAreNat
<1>2. IsWellFoundedOn(OpToRel(<, Nat), Nat)  BY NatLessThanWellFounded
<1> HIDE DEF T
<1>3. PICK n \in T : \A m \in T : ~ (<<m, n>> \in OpToRel(<, Nat))
  BY <1>1, <1>2, WFMin
<1>4. ASSUME NEW m \in T PROVE n <= m
  <2>1. m \in Nat /\ n \in Nat  BY <1>1
  <2>2. m < n => <<m, n>> \in OpToRel(<, Nat)  BY <2>1 DEF OpToRel
  <2>3. ~ (m < n)  BY <1>3, <2>2, Zenon
  <2> QED  BY <2>1, <2>3
<1> QED  BY <1>4 DEF T

\* Counting rows below an address.
Below(S, p) == {s \in S : s.at < p}

LEMMA BelowIsCounted ==
    ASSUME NEW S, IsFiniteSet(S), NEW p
    PROVE  IsFiniteSet(Below(S, p)) /\ Cardinality(Below(S, p)) \in Nat
<1>1. Below(S, p) \in SUBSET S  BY DEF Below
<1> QED  BY <1>1, FS_Subset, FS_CardinalityType

\* A row is not below itself, so that the list is longer than its position.
LEMMA PositionIsInList ==
    ASSUME NEW S \in SUBSET Row, IsFiniteSet(S), NEW r \in S
    PROVE  Cardinality(Below(S, r.at)) < Cardinality(S)
<1>1. Below(S, r.at) \in SUBSET S /\ r \notin Below(S, r.at)
  BY PositionsAreNat DEF Below
<1>2. Cardinality(Below(S, r.at)) <= Cardinality(S) /\ Cardinality(Below(S, r.at)) # Cardinality(S)
  BY <1>1, FS_Subset
<1> QED  BY <1>2, BelowIsCounted, FS_CardinalityType

\* An insertion moves a row to a later position, if at all.
LEMMA InsertionMovesOn ==
    ASSUME NEW S, IsFiniteSet(S), NEW x, NEW p
    PROVE  Cardinality(Below(S, p)) <= Cardinality(Below(S \cup {x}, p))
<1>1. IsFiniteSet(S \cup {x})  BY FS_AddElement
<1>2. IsFiniteSet(Below(S \cup {x}, p))  BY <1>1, BelowIsCounted
<1>3. Below(S, p) \in SUBSET Below(S \cup {x}, p)  BY DEF Below
<1> QED  BY <1>2, <1>3, FS_Subset

\* A deletion moves the rows behind it to an earlier position, but not before its own.
LEMMA DeletionMovesBack ==
    ASSUME NEW S \in SUBSET Row, IsFiniteSet(S), NEW x \in S, NEW r \in S, r.at # x.at,
           NEW n \in Nat, n <= Cardinality(Below(S, x.at)), n <= Cardinality(Below(S, r.at))
    PROVE  n <= Cardinality(Below(S \ {x}, r.at))
<1>1. x.at \in Nat /\ r.at \in Nat  BY PositionsAreNat
<1>2. /\ IsFiniteSet(Below(S, r.at)) /\ Cardinality(Below(S, r.at)) \in Nat
      /\ IsFiniteSet(Below(S, x.at)) /\ Cardinality(Below(S, x.at)) \in Nat
  BY BelowIsCounted
<1>3. CASE x.at > r.at
  <2>1. Below(S \ {x}, r.at) = Below(S, r.at)  BY <1>1, <1>3 DEF Below
  <2> QED  BY <2>1
<1>4. CASE x.at < r.at
  <2>1. Below(S \ {x}, r.at) = Below(S, r.at) \ {x} /\ x \in Below(S, r.at)
    BY <1>1, <1>4 DEF Below
  <2>2. Cardinality(Below(S \ {x}, r.at)) = Cardinality(Below(S, r.at)) - 1
    <3> DEFINE B == Below(S, r.at)
    <3>1. Cardinality(B \ {x}) = Cardinality(B) - 1
      <4> HIDE DEF B
      <4>1. IsFiniteSet(B) /\ x \in B  BY <1>2, <2>1 DEF B
      <4> QED  BY <4>1, FS_RemoveElement
    <3> QED  BY <2>1, <3>1
  <2>3. Below(S, x.at) \in SUBSET Below(S, r.at) /\ x \notin Below(S, x.at)
    <3>1. \A s \in S : s.at \in Nat  BY PositionsAreNat
    <3> QED  BY <1>1, <1>4, <3>1 DEF Below
  <2>4. Cardinality(Below(S, x.at)) < Cardinality(Below(S, r.at))
    <3>1. /\ Cardinality(Below(S, x.at)) <= Cardinality(Below(S, r.at))
          /\ Cardinality(Below(S, x.at)) = Cardinality(Below(S, r.at))
                => Below(S, x.at) = Below(S, r.at)
      BY <1>2, <2>3, FS_Subset
    <3>2. Below(S, x.at) # Below(S, r.at)  BY <2>1, <2>3
    <3> QED  BY <1>2, <3>1, <3>2
  <2> QED  BY <1>2, <2>2, <2>4
<1> QED  BY <1>1, <1>3, <1>4

-----------------------------------------------------------------------------
(* The payload of a request.                                               *)

LEMMA MetadataOfClaim ==
    ASSUME NEW k \in Clients
    PROVE  /\ EffectivePoolMetadata(k).tags \in Seq(Tags)
           /\ \A f \in DOMAIN EffectivePoolMetadata(k).fields \cap Fields :
                 EffectivePoolMetadata(k).fields[f] \in Values
<1>1. Annotations[k] \in Metadata /\ Defaults \in Metadata  BY ClientAssumption
<1>2. \A map \in FieldMap : \A f \in DOMAIN map : map[f] \in Values
  <2>1. SUFFICES ASSUME NEW S \in SUBSET Fields, NEW map \in [S -> Values \ {NoValue}],
                        NEW f \in DOMAIN map
                 PROVE  map[f] \in Values
    BY DEF FieldMap
  <2> QED  BY <2>1
<1>3. EffectivePoolMetadata(k).tags \in Seq(Tags)
  BY <1>1 DEF EffectivePoolMetadata, Metadata
<1>4. ASSUME NEW f \in DOMAIN EffectivePoolMetadata(k).fields
      PROVE  EffectivePoolMetadata(k).fields[f] \in Values
  <2>1. Annotations[k].fields \in FieldMap /\ Defaults.fields \in FieldMap
    BY <1>1 DEF Metadata
  <2>2. CASE f \in DOMAIN Annotations[k].fields
    BY <1>2, <1>4, <2>1, <2>2 DEF EffectivePoolMetadata
  <2>3. CASE f \notin DOMAIN Annotations[k].fields
    BY <1>2, <1>4, <2>1, <2>3 DEF EffectivePoolMetadata
  <2> QED  BY <2>2, <2>3
<1> QED  BY <1>3, <1>4

\* Whatever the metadata says, a request carries the ownership tag.
LEMMA TagsOfRequest ==
    ASSUME NEW k \in Clients
    PROVE  /\ RequestTags(k) \in Seq(Tags) /\ RequestTags(k) # <<>>
           /\ \E i \in DOMAIN RequestTags(k) : RequestTags(k)[i] = OwnershipTag
<1> DEFINE list == EffectivePoolMetadata(k).tags
<1>1. list \in Seq(Tags) /\ OwnershipTag \in Tags  BY MetadataOfClaim, ClientAssumption
<1> HIDE DEF list
<1>2. CASE \E i \in DOMAIN list : list[i] = OwnershipTag
  <2>1. RequestTags(k) = list  BY <1>2 DEF RequestTags, list
  <2>2. list # <<>>
    <3>1. DOMAIN <<>> = {}  OBVIOUS
    <3> QED  BY <1>2, <3>1
  <2> QED  BY <1>1, <1>2, <2>1, <2>2
<1>3. CASE ~ \E i \in DOMAIN list : list[i] = OwnershipTag
  <2>1. RequestTags(k) = Append(list, OwnershipTag)  BY <1>3 DEF RequestTags, list
  <2>2. /\ Append(list, OwnershipTag) \in Seq(Tags)
        /\ Len(Append(list, OwnershipTag)) = Len(list) + 1
        /\ Append(list, OwnershipTag)[Len(list) + 1] = OwnershipTag
        /\ Len(list) \in Nat
    BY <1>1
  <2>3. Len(list) + 1 \in DOMAIN Append(list, OwnershipTag)  BY <2>2
  <2>4. Append(list, OwnershipTag) # <<>>
    <3>1. Len(<<>>) = 0  OBVIOUS
    <3> QED  BY <2>2, <3>1
  <2> QED  BY <2>1, <2>2, <2>3, <2>4
<1> QED  BY <1>2, <1>3

\* And the claim's own UID.
LEMMA FieldsOfRequest ==
    ASSUME NEW k \in Clients
    PROVE  /\ RequestFields(k) \in [Fields -> Values]
           /\ RequestFields(k)[ClaimUIDField] = k
<1>1. k \in Values /\ NoValue \in Values /\ ClaimUIDField \in Fields
  BY ClientAssumption DEF Values
<1>2. ASSUME NEW f \in Fields PROVE RequestFields(k)[f] \in Values
  BY <1>1, MetadataOfClaim DEF RequestFields
<1>3. RequestFields(k) = [f \in Fields |-> RequestFields(k)[f]]  BY DEF RequestFields
<1> QED  BY <1>1, <1>2, <1>3 DEF RequestFields

-----------------------------------------------------------------------------
(* One client at a time.                                                   *)

Calls == {"idle", "ListTag", "PostTag", "Page", "ListField", "Post", "Delete"}

LEMMA StepOfOne ==
    ASSUME TypeOK, NEW k \in Clients, NEW call \in Calls, NEW j \in Job, Step(k, call, j)
    PROVE  /\ pc' \in [Clients -> Calls] /\ job' \in [Clients -> Job]
           /\ pc'[k] = call /\ job'[k] = j
           /\ \A o \in Clients \ {k} : pc'[o] = pc[o] /\ job'[o] = job[o]
BY DEF TypeOK, Step, Calls

LEMMA NoJobIsJob == NoJob \in Job /\ NoJob.found = NoRow /\ NoJob.then = "Page" /\ NoJob.offset = 0
BY DEF NoJob, Job

\* A client between two attempts knows nothing.
LEMMA IdleIsSound ==
    ASSUME NEW k \in Clients, pc'[k] = "idle", job'[k] = NoJob
    PROVE  ClientSound(k)'
BY NoJobIsJob DEF ClientSound, TagsThenList, FoundIsOwn, RowsAreAhead, BeforePost

\* A step of one client on unchanged rows leaves the others as they are.
LEMMA StepOnSameRows ==
    ASSUME ClientInvariant, TypeOK', NEW k \in Clients, rows' = rows,
           \A o \in Clients \ {k} : pc'[o] = pc[o] /\ job'[o] = job[o]
                                    /\ (o \in disturbed' <=> o \in disturbed),
           ClientSound(k)'
    PROVE  ClientInvariant'
<1>1. RowsAreMarked'  BY DEF ClientInvariant, RowsAreMarked
<1>2. ASSUME NEW o \in Clients \ {k} PROVE ClientSound(o)'
  <2>1. ClientSound(o)  BY DEF ClientInvariant
  <2>2. RowsOf(o)' = RowsOf(o) /\ \A r : Rank(r)' = Rank(r)  BY DEF RowsOf, Rank, Listed
  <2>3. BeforePost(o)' <=> BeforePost(o)  BY DEF BeforePost
  <2> QED  BY <2>1, <2>2, <2>3 DEF ClientSound, TagsThenList, FoundIsOwn, RowsAreAhead
<1> QED  BY <1>1, <1>2 DEF ClientInvariant

\* Every row is listed, and its position is its rank.
LEMMA AllRowsListed ==
    ASSUME RowsAreMarked
    PROVE  Listed = rows /\ \A r : Rank(r) = Cardinality(Below(rows, r.at)) /\ Rank(r) \in Nat
<1>1. Listed = rows  BY DEF Listed, RowsAreMarked
<1>2. ASSUME NEW r PROVE Rank(r) = Cardinality(Below(rows, r.at)) /\ Rank(r) \in Nat
  <2>1. Rank(r) = Cardinality(Below(rows, r.at))  BY <1>1 DEF Rank, Below
  <2>2. IsFiniteSet(rows)  BY DEF RowsAreMarked
  <2> QED  BY <2>1, <2>2, BelowIsCounted
<1> QED  BY <1>1, <1>2

-----------------------------------------------------------------------------
(* Requests that leave the rows alone.                                     *)

\* Once a tag is there the next one is looked up, or the list or the allocation begins.
LEMMA AfterTagIsSound ==
    ASSUME ClientInvariant, NEW k \in Clients, pc[k] \in {"ListTag", "PostTag"}, AfterTag(k),
           rows' = rows, disturbed' = disturbed
    PROVE  /\ pc' \in [Clients -> Calls] /\ job' \in [Clients -> Job]
           /\ \A o \in Clients \ {k} : pc'[o] = pc[o] /\ job'[o] = job[o]
           /\ ClientSound(k)'
<1> DEFINE rest == Tail(job[k].todo)
           call == IF rest = <<>> THEN job[k].then ELSE "ListTag"
           next == [job[k] EXCEPT !.todo = rest]
<1> USE DEF ClientInvariant, ClientSound
<1>1. job[k] \in Job /\ job[k].todo # <<>>  BY DEF TypeOK, TagsThenList
<1>2. rest \in Seq(Tags)
  <2>1. job[k].todo \in Seq(Tags)  BY <1>1 DEF Job
  <2> QED  BY <1>1, <2>1
<1>3. next \in Job /\ call \in Calls /\ job[k].then \in {"Page", "Post"}
  BY <1>1, <1>2 DEF Job, Calls
<1>4. /\ next.todo = rest /\ next.then = job[k].then /\ next.offset = job[k].offset
      /\ next.found = job[k].found
  BY <1>1 DEF Job
<1>5. Step(k, call, next)  BY DEF AfterTag
<1> HIDE DEF next
<1>6. TypeOK  OBVIOUS
<1>7. /\ pc' \in [Clients -> Calls] /\ job' \in [Clients -> Job]
      /\ pc'[k] = call /\ job'[k] = next
      /\ \A o \in Clients \ {k} : pc'[o] = pc[o] /\ job'[o] = job[o]
  <2> HIDE DEF call, ClientInvariant
  <2> QED  BY <1>3, <1>5, <1>6, StepOfOne
<1>8. TagsThenList(k)'
  BY <1>3, <1>4, <1>7 DEF TagsThenList
<1>9. FoundIsOwn(k)'
  BY <1>3, <1>4, <1>7 DEF FoundIsOwn
<1>10. RowsAreAhead(k)'
  <2>1. RowsOf(k)' = RowsOf(k) /\ \A r : Rank(r)' = Rank(r)  BY DEF RowsOf, Rank, Listed
  <2>2. \A r : Rank(r) \in Nat  BY AllRowsListed
  <2>3. CASE job[k].then = "Page"
    <3>1. job[k].offset = 0 /\ ~BeforePost(k)'
      BY <1>7, <1>4, <2>3 DEF TagsThenList, BeforePost
    <3> QED  BY <1>4, <1>7, <2>1, <2>2, <3>1 DEF RowsAreAhead
  <2>4. CASE job[k].then = "Post"
    <3>1. BeforePost(k) /\ pc'[k] # "Page"  BY <1>7, <2>4 DEF BeforePost
    <3> QED  BY <2>1, <3>1 DEF RowsAreAhead
  <2> QED  BY <1>3, <2>3, <2>4
<1> QED  BY <1>7, <1>8, <1>9, <1>10

LEMMA InvariantFails ==
    ASSUME ClientInvariant, NEW k \in Clients, Fails(k),
           rows' = rows, disturbed' = disturbed, tags' \in SUBSET Tags, field' \in BOOLEAN,
           goal' \in [Clients -> {"allocate", "hold", "release", "gone"}],
           faults' \in 0..MaxFaults
    PROVE  ClientInvariant'
<1>1. TypeOK  BY DEF ClientInvariant
<1>2. /\ pc' \in [Clients -> Calls] /\ job' \in [Clients -> Job]
      /\ pc'[k] = "idle" /\ job'[k] = NoJob
      /\ \A o \in Clients \ {k} : pc'[o] = pc[o] /\ job'[o] = job[o]
  BY <1>1, NoJobIsJob, StepOfOne DEF Fails, Calls
<1>3. TypeOK'  BY <1>1, <1>2 DEF TypeOK, Calls
<1> QED  BY <1>2, <1>3, IdleIsSound, StepOnSameRows

LEMMA InvariantBegin ==
    ASSUME ClientInvariant, NEW k \in Clients, Begin(k) PROVE ClientInvariant'
<1> DEFINE next == [NoJob EXCEPT !.todo = <<OwnershipTag>>]
<1>1. TypeOK  BY DEF ClientInvariant
<1>2. /\ next \in Job /\ next.todo # <<>> /\ next.then = "Page" /\ next.offset = 0
      /\ next.found = NoRow
  <2>1. <<OwnershipTag>> \in Seq(Tags) /\ <<OwnershipTag>> # <<>>  BY ClientAssumption
  <2> QED  BY <2>1 DEF NoJob, Job
<1> HIDE DEF next
<1>3. /\ pc' \in [Clients -> Calls] /\ job' \in [Clients -> Job]
      /\ pc'[k] = "ListTag" /\ job'[k] = next
      /\ \A o \in Clients \ {k} : pc'[o] = pc[o] /\ job'[o] = job[o]
  BY <1>1, <1>2, StepOfOne DEF Begin, Calls, next
<1>4. TypeOK'  BY <1>1, <1>3 DEF Begin, TypeOK, Calls, server
<1>5. ClientSound(k)'
  BY <1>2, <1>3 DEF ClientSound, TagsThenList, FoundIsOwn, RowsAreAhead, BeforePost
<1> QED  BY <1>3, <1>4, <1>5, StepOnSameRows DEF Begin, server

LEMMA InvariantListTag ==
    ASSUME ClientInvariant, NEW k \in Clients, ListTag(k) PROVE ClientInvariant'
<1>1. /\ TypeOK /\ pc[k] = "ListTag" /\ job[k] \in Job /\ ClientSound(k)
      /\ UNCHANGED <<server, goal, disturbed, faults>>
  BY DEF ClientInvariant, ListTag, TypeOK
<1>2. CASE AfterTag(k)
  <2>1. /\ pc' \in [Clients -> Calls] /\ job' \in [Clients -> Job] /\ ClientSound(k)'
        /\ \A o \in Clients \ {k} : pc'[o] = pc[o] /\ job'[o] = job[o]
    BY <1>1, <1>2, AfterTagIsSound DEF server
  <2>2. TypeOK'  BY <1>1, <2>1 DEF TypeOK, Calls, server
  <2> QED  BY <1>1, <2>1, <2>2, StepOnSameRows DEF server
<1>3. CASE Step(k, "PostTag", job[k])
  <2>1. /\ pc' \in [Clients -> Calls] /\ job' \in [Clients -> Job]
        /\ pc'[k] = "PostTag" /\ job'[k] = job[k]
        /\ \A o \in Clients \ {k} : pc'[o] = pc[o] /\ job'[o] = job[o]
    BY <1>1, <1>3, StepOfOne DEF Calls
  <2>2. TypeOK'  BY <1>1, <2>1 DEF TypeOK, Calls, server
  <2>3. ClientSound(k)'
    BY <1>1, <2>1 DEF ClientSound, TagsThenList, FoundIsOwn, RowsAreAhead, BeforePost, server, RowsOf
  <2> QED  BY <1>1, <2>1, <2>2, <2>3, StepOnSameRows DEF server
<1> QED  BY <1>2, <1>3 DEF ListTag

LEMMA InvariantPostTag ==
    ASSUME ClientInvariant, NEW k \in Clients, PostTag(k) PROVE ClientInvariant'
<1>1. /\ TypeOK /\ pc[k] = "PostTag" /\ job[k] \in Job /\ job[k].todo # <<>>
      /\ UNCHANGED <<field, rows, goal, disturbed>>
  BY DEF ClientInvariant, ClientSound, TagsThenList, PostTag, TypeOK
<1>2. Head(job[k].todo) \in Tags
  <2>1. job[k].todo \in Seq(Tags)  BY <1>1 DEF Job
  <2> QED  BY <1>1, <2>1
<1>3. /\ tags' \in SUBSET Tags /\ faults' \in 0..MaxFaults
      /\ \/ Fails(k)
         \/ AfterTag(k)
  <2>1. tags' = tags \/ tags' = tags \cup {Head(job[k].todo)}  BY DEF PostTag
  <2>2. faults' = faults \/ Fault  BY DEF PostTag
  <2>3. faults' \in 0..MaxFaults
    <3>1. MaxFaults \in Nat  BY ClientAssumption
    <3> QED  BY <1>1, <2>2, <3>1 DEF Fault, TypeOK
  <2> QED  BY <1>1, <1>2, <2>1, <2>3 DEF PostTag, TypeOK
<1>4. CASE Fails(k)  BY <1>1, <1>3, <1>4, InvariantFails DEF TypeOK
<1>5. CASE AfterTag(k)
  <2>1. /\ pc' \in [Clients -> Calls] /\ job' \in [Clients -> Job] /\ ClientSound(k)'
        /\ \A o \in Clients \ {k} : pc'[o] = pc[o] /\ job'[o] = job[o]
    BY <1>1, <1>5, AfterTagIsSound
  <2>2. TypeOK'  BY <1>1, <1>3, <2>1 DEF TypeOK, Calls
  <2> QED  BY <1>1, <2>1, <2>2, StepOnSameRows
<1> QED  BY <1>3, <1>4, <1>5

LEMMA InvariantListField ==
    ASSUME ClientInvariant, NEW k \in Clients, ListField(k) PROVE ClientInvariant'
<1> DEFINE next == [job[k] EXCEPT !.todo = RequestTags(k), !.then = "Post"]
<1>1. /\ TypeOK /\ pc[k] = "ListField" /\ job[k] \in Job /\ ClientSound(k)
      /\ UNCHANGED <<server, goal, disturbed, faults>>
  BY DEF ClientInvariant, ListField, TypeOK
<1>2. CASE Fails(k)
  <2>1. rows' = rows /\ tags' \in SUBSET Tags /\ field' \in BOOLEAN /\ disturbed' = disturbed
        /\ goal' = goal /\ faults' = faults
    BY <1>1 DEF server, TypeOK
  <2> QED  BY <1>1, <1>2, <2>1, InvariantFails DEF TypeOK
<1>3. CASE Step(k, "ListTag", next)
  <2>1. /\ next \in Job /\ next.todo # <<>> /\ next.then = "Post" /\ next.found = job[k].found
    BY <1>1, TagsOfRequest DEF Job
  <2> HIDE DEF next
  <2>2. /\ pc' \in [Clients -> Calls] /\ job' \in [Clients -> Job]
        /\ pc'[k] = "ListTag" /\ job'[k] = next
        /\ \A o \in Clients \ {k} : pc'[o] = pc[o] /\ job'[o] = job[o]
    BY <1>1, <1>3, <2>1, StepOfOne DEF Calls
  <2>3. TypeOK'  BY <1>1, <2>2 DEF TypeOK, Calls, server
  <2>4. ClientSound(k)'
    BY <1>1, <2>1, <2>2
       DEF ClientSound, TagsThenList, FoundIsOwn, RowsAreAhead, BeforePost, server, RowsOf
  <2> QED  BY <1>1, <2>2, <2>3, <2>4, StepOnSameRows DEF server
<1> QED  BY <1>2, <1>3 DEF ListField

LEMMA InvariantRequestFails ==
    ASSUME ClientInvariant, NEW k \in Clients, RequestFails(k) PROVE ClientInvariant'
<1>1. TypeOK /\ UNCHANGED <<server, goal, disturbed>> /\ Fails(k) /\ Fault
  BY DEF ClientInvariant, RequestFails
<1>2. faults' \in 0..MaxFaults
  <2>1. MaxFaults \in Nat  BY ClientAssumption
  <2> QED  BY <1>1, <2>1 DEF Fault, TypeOK
<1> QED  BY <1>1, <1>2, InvariantFails DEF TypeOK, server

\* Users, and the administrator of NetBox.
LEMMA InvariantUsers ==
    ASSUME ClientInvariant, (\E k \in Clients : Release(k)) \/ CreateField \/ UNCHANGED vars
    PROVE  ClientInvariant'
<1>1. UNCHANGED <<tags, rows, pc, job, disturbed, faults>>
  BY DEF Release, CreateField, vars, server
<1>2. TypeOK'
  BY <1>1 DEF ClientInvariant, TypeOK, Release, CreateField, vars, server
<1>3. ASSUME NEW k \in Clients PROVE ClientSound(k)'
  BY <1>1 DEF ClientInvariant, ClientSound, TagsThenList, FoundIsOwn, RowsAreAhead, BeforePost,
              RowsOf, Rank, Listed
<1>4. RowsAreMarked'  BY <1>1 DEF ClientInvariant, RowsAreMarked
<1> QED  BY <1>2, <1>3, <1>4 DEF ClientInvariant

-----------------------------------------------------------------------------
(* A page.                                                                 *)

\* The row that a client keeps after a page.
FoundBy(k) ==
    LET matches == Matches(k, PageAt(job[k].offset))
    IN  IF job[k].found # NoRow \/ matches = {} THEN job[k].found
        ELSE CHOOSE r \in matches : \A s \in matches : r.at <= s.at

\* What a client knows after a page: it has found a row of its own, or all of its rows are on
\* later pages.
LEMMA PageFinds ==
    ASSUME ClientInvariant, NEW k \in Clients, pc[k] = "Page"
    PROVE  /\ FoundBy(k) \in Row \cup {NoRow}
           /\ FoundBy(k) # NoRow => FoundBy(k).owner = k
           /\ k \notin disturbed /\ FoundBy(k) = NoRow =>
                 \A r \in RowsOf(k) : job[k].offset + PageSize <= Rank(r)
<1> DEFINE page    == PageAt(job[k].offset)
           matches == Matches(k, page)
           found   == FoundBy(k)
<1> USE DEF ClientInvariant, ClientSound
<1>1. /\ job[k].found \in Row \cup {NoRow} /\ job[k].offset \in Nat /\ PageSize \in Nat
  BY ClientAssumption DEF TypeOK, Job
<1>2. Listed = rows /\ rows \in SUBSET Row /\ \A r : Rank(r) \in Nat
  BY AllRowsListed DEF TypeOK
<1>3. \A r \in matches : r \in rows /\ r.owner = k /\ r # NoRow
  <2>1. \A r \in rows : r # NoRow  BY DEF RowsAreMarked, NoRow
  <2> QED  BY <1>2, <2>1 DEF Matches, PageAt, RowsAreMarked
<1>4. CASE job[k].found # NoRow
  BY <1>1, <1>4 DEF FoundIsOwn, FoundBy
<1>5. CASE job[k].found = NoRow /\ matches # {}
  <2>1. \E r \in matches : \A s \in matches : r.at <= s.at
    <3>1. matches \in SUBSET Row  BY <1>2, <1>3
    <3> HIDE DEF matches
    <3> QED  BY <1>5, <3>1, FirstRow
  <2>2. found \in matches  BY <1>5, <2>1 DEF FoundBy
  <2> QED  BY <1>2, <1>3, <2>2
<1>6. CASE job[k].found = NoRow /\ matches = {}
  <2>1. found = NoRow  BY <1>6 DEF FoundBy
  <2>2. ASSUME k \notin disturbed, NEW r \in RowsOf(k)
        PROVE  job[k].offset + PageSize <= Rank(r)
    <3>1. r \in rows /\ r.fields[ClaimUIDField] = k  BY DEF RowsOf, RowsAreMarked
    <3>2. job[k].offset <= Rank(r)  BY <1>6, <2>2 DEF RowsAreAhead
    <3>3. r \notin page  BY <1>6, <3>1 DEF Matches
    <3>4. ~ (Rank(r) < job[k].offset + PageSize)  BY <1>2, <3>1, <3>2, <3>3 DEF PageAt
    <3> QED  BY <1>1, <1>2, <3>4
  <2> QED  BY <2>1, <2>2
<1> QED  BY <1>4, <1>5, <1>6

\* After the last page there are no later ones.
LEMMA LastPageIsLast ==
    ASSUME ClientInvariant, NEW k \in Clients, NEW offset \in Nat, ~HasNext(offset),
           \A r \in RowsOf(k) : offset + PageSize <= Rank(r)
    PROVE  RowsOf(k) = {}
<1> SUFFICES ASSUME NEW r \in RowsOf(k) PROVE FALSE  OBVIOUS
<1>1. /\ Listed = rows /\ rows \in SUBSET Row /\ IsFiniteSet(rows) /\ r \in rows
      /\ Rank(r) = Cardinality(Below(rows, r.at)) /\ Rank(r) \in Nat
  BY AllRowsListed DEF ClientInvariant, TypeOK, RowsAreMarked, RowsOf
<1>2. Rank(r) < Cardinality(rows)  BY <1>1, PositionIsInList
<1>3. Cardinality(rows) <= offset + PageSize
  <2>1. Cardinality(rows) \in Nat /\ PageSize \in Nat
    BY <1>1, FS_CardinalityType, ClientAssumption
  <2> QED  BY <1>1, <2>1 DEF HasNext
<1>4. offset + PageSize <= Rank(r)  OBVIOUS
<1>5. Cardinality(rows) \in Nat /\ PageSize \in Nat
  BY <1>1, FS_CardinalityType, ClientAssumption
<1> QED  BY <1>1, <1>2, <1>3, <1>4, <1>5

LEMMA InvariantPage ==
    ASSUME ClientInvariant, NEW k \in Clients, Page(k) PROVE ClientInvariant'
<1> DEFINE offset  == job[k].offset
           matches == Matches(k, PageAt(offset))
           found   == IF job[k].found # NoRow \/ matches = {} THEN job[k].found
                      ELSE CHOOSE r \in matches : \A s \in matches : r.at <= s.at
           read    == [job[k] EXCEPT !.offset = offset + PageSize, !.found = found]
<1>1. /\ TypeOK /\ pc[k] = "Page" /\ job[k] \in Job /\ offset \in Nat /\ PageSize \in Nat
      /\ UNCHANGED <<server, disturbed, faults>>
  BY ClientAssumption DEF ClientInvariant, Page, TypeOK, Job
<1>2. /\ found \in Row \cup {NoRow}
      /\ found # NoRow => found.owner = k
      /\ k \notin disturbed /\ found = NoRow =>
            \A r \in RowsOf(k) : offset + PageSize <= Rank(r)
  <2>1. found = FoundBy(k)  BY DEF FoundBy
  <2> HIDE DEF found
  <2> QED  BY <1>1, <2>1, PageFinds
<1>3. \/ HasNext(offset) /\ Step(k, "Page", read) /\ goal' = goal
      \/ /\ ~HasNext(offset) /\ found = NoRow
         /\ Step(k, "ListField", read) /\ goal' = goal
      \/ Completes(k, "gone") \/ Completes(k, "hold")
      \/ ~HasNext(offset) /\ found # NoRow /\ Step(k, "Delete", read) /\ goal' = goal
  BY DEF Page
<1> HIDE DEF found
<1>4. /\ read \in Job /\ read.offset = offset + PageSize /\ read.found = found
  <2>1. offset + PageSize \in Nat  BY <1>1
  <2> HIDE DEF offset
  <2> QED  BY <1>1, <1>2, <2>1 DEF Job
<1> HIDE DEF read
<1>5. ASSUME NEW call \in {"Page", "ListField", "Delete"}, Step(k, call, read), goal' = goal,
             call = "ListField" => found = NoRow /\ ~HasNext(offset),
             call = "Delete" => found # NoRow
      PROVE  ClientInvariant'
  <2>1. /\ pc' \in [Clients -> Calls] /\ job' \in [Clients -> Job]
        /\ pc'[k] = call /\ job'[k] = read
        /\ \A o \in Clients \ {k} : pc'[o] = pc[o] /\ job'[o] = job[o]
    BY <1>1, <1>4, <1>5, StepOfOne DEF Calls
  <2>2. TypeOK'  BY <1>1, <1>5, <2>1 DEF TypeOK, Calls, server
  <2>3. RowsOf(k)' = RowsOf(k) /\ \A r : Rank(r)' = Rank(r)
    BY <1>1 DEF RowsOf, Rank, Listed, server
  <2>4. call = "ListField" /\ k \notin disturbed => RowsOf(k) = {}
    <3> SUFFICES ASSUME call = "ListField", k \notin disturbed PROVE RowsOf(k) = {}  OBVIOUS
    <3>1. \A r \in RowsOf(k) : offset + PageSize <= Rank(r)  BY <1>2, <1>5
    <3> HIDE DEF offset
    <3> QED  BY <1>1, <1>5, <3>1, LastPageIsLast
  <2>5. TagsThenList(k)' /\ FoundIsOwn(k)'
    BY <1>2, <1>4, <1>5, <2>1 DEF TagsThenList, FoundIsOwn
  <2>6. RowsAreAhead(k)'
    <3>1. disturbed' = disturbed  BY <1>1
    <3>2. CASE call = "Page"
      BY <1>2, <1>4, <2>1, <2>3, <3>1, <3>2 DEF RowsAreAhead, BeforePost
    <3>3. CASE call = "ListField"
      BY <2>1, <2>3, <2>4, <3>1, <3>3 DEF RowsAreAhead, BeforePost
    <3>4. CASE call = "Delete"  BY <2>1, <3>4 DEF RowsAreAhead, BeforePost
    <3> QED  BY <1>5, <3>2, <3>3, <3>4
  <2> QED  BY <1>1, <2>1, <2>2, <2>5, <2>6, StepOnSameRows DEF server, ClientSound
<1>6. ASSUME NEW g \in {"gone", "hold"}, Completes(k, g) PROVE ClientInvariant'
  <2>1. goal' \in [Clients -> {"allocate", "hold", "release", "gone"}] /\ Fails(k)
    BY <1>1, <1>6 DEF Completes, TypeOK
  <2> QED  BY <1>1, <2>1, InvariantFails DEF TypeOK, server
<1> QED  BY <1>3, <1>5, <1>6

-----------------------------------------------------------------------------
(* Rows that come and go.                                                  *)

\* A provider's row: at a free address, with the ownership tag and the UID of its owner.
NewRow(x) ==
    /\ x \in Row
    /\ x.at \in Free
    /\ OwnershipTag \in x.tags
    /\ x.fields[ClaimUIDField] = x.owner

LEMMA InsertionIsMarked ==
    ASSUME ClientInvariant, NEW x, NewRow(x), rows' = rows \cup {x}
    PROVE  RowsAreMarked' /\ rows' \subseteq Row
<1>1. IsFiniteSet(rows')  BY FS_AddElement DEF ClientInvariant, RowsAreMarked
<1>2. \A r \in rows' : OwnershipTag \in r.tags /\ r.fields[ClaimUIDField] = r.owner
  BY DEF ClientInvariant, RowsAreMarked, NewRow
<1>3. \A r, s \in rows' : r.at = s.at => r = s
  BY DEF ClientInvariant, RowsAreMarked, NewRow, Free
<1> QED  BY <1>1, <1>2, <1>3 DEF ClientInvariant, TypeOK, RowsAreMarked, NewRow

\* Another owner's row leaves a reader's rows ahead of it.
LEMMA InsertionKeepsSound ==
    ASSUME ClientInvariant, NEW x, NewRow(x), rows' = rows \cup {x}, disturbed' = disturbed,
           NEW o \in Clients, o # x.owner, pc'[o] = pc[o], job'[o] = job[o]
    PROVE  ClientSound(o)'
<1>1. RowsAreMarked /\ RowsAreMarked' /\ IsFiniteSet(rows) /\ ClientSound(o)
      /\ job[o].offset \in Nat
  BY InsertionIsMarked DEF ClientInvariant, RowsAreMarked, TypeOK, Job
<1>2. \A r : /\ Rank(r) = Cardinality(Below(rows, r.at)) /\ Rank(r) \in Nat
             /\ Rank(r)' = Cardinality(Below(rows', r.at)) /\ Rank(r)' \in Nat
  <2>1. \A r : Rank(r) = Cardinality(Below(rows, r.at)) /\ Rank(r) \in Nat
    BY <1>1, AllRowsListed
  <2>2. \A r : Rank(r)' = Cardinality(Below(rows', r.at)) /\ Rank(r)' \in Nat
    <3>1. Listed' = rows'  BY <1>1 DEF Listed, RowsAreMarked
    <3>2. IsFiniteSet(rows')  BY <1>1 DEF RowsAreMarked
    <3>3. \A r : Rank(r)' = Cardinality(Below(rows', r.at))  BY <3>1 DEF Rank, Below
    <3> QED  BY <3>2, <3>3, BelowIsCounted
  <2> QED  BY <2>1, <2>2
<1>3. ASSUME NEW r PROVE Rank(r) <= Rank(r)'
  BY <1>1, <1>2, InsertionMovesOn
<1>4. RowsOf(o)' = RowsOf(o)  BY DEF RowsOf
<1>5. BeforePost(o)' <=> BeforePost(o)  BY DEF BeforePost
<1>6. RowsAreAhead(o)'
  <2>1. ASSUME pc[o] = "Page", o \notin disturbed, job[o].found = NoRow, NEW r \in RowsOf(o)
        PROVE  job[o].offset <= Rank(r)'
    <3>1. job[o].offset <= Rank(r)  BY <1>1, <2>1 DEF ClientSound, RowsAreAhead
    <3> QED  BY <1>1, <1>2, <1>3, <3>1
  <2> QED  BY <1>1, <1>4, <1>5, <2>1 DEF ClientSound, RowsAreAhead
<1> QED  BY <1>1, <1>6 DEF ClientSound, TagsThenList, FoundIsOwn

\* A deletion ahead of a reader does so too, and one behind it disturbs it.
LEMMA DeletionKeepsSound ==
    ASSUME ClientInvariant, NEW x, Removed(x),
           NEW o \in Clients, pc'[o] = pc[o], job'[o] = job[o]
    PROVE  ClientSound(o)' /\ RowsAreMarked'
<1>1. RowsAreMarked /\ IsFiniteSet(rows) /\ rows \in SUBSET Row /\ ClientSound(o)
      /\ job[o].offset \in Nat
  BY DEF ClientInvariant, RowsAreMarked, TypeOK, Job
<1>2. rows' = rows \ {x} /\ rows' \in SUBSET rows  BY DEF Removed
<1>3. RowsAreMarked'
  <2>1. IsFiniteSet(rows')  BY <1>1, <1>2, FS_Subset
  <2> QED  BY <1>1, <1>2, <2>1 DEF RowsAreMarked
<1>4. Listed = rows /\ \A r : Rank(r) = Cardinality(Below(rows, r.at)) /\ Rank(r) \in Nat
  BY <1>1, AllRowsListed
<1>5. \A r : Rank(r)' = Cardinality(Below(rows', r.at))
  <2>1. Listed' = rows'  BY <1>3 DEF Listed, RowsAreMarked
  <2> QED  BY <2>1 DEF Rank, Below
<1>6. RowsOf(o)' \in SUBSET RowsOf(o)  BY <1>2 DEF RowsOf
<1>7. BeforePost(o)' <=> BeforePost(o)  BY DEF BeforePost
<1>8. ASSUME o \notin disturbed', pc[o] = "Page", job[o].found = NoRow, NEW r \in RowsOf(o)'
      PROVE  job[o].offset <= Rank(r)'
  <2>1. o \notin disturbed  BY <1>8 DEF Removed
  <2>2. r \in RowsOf(o) /\ r \in rows /\ r # x  BY <1>2, <1>6 DEF RowsOf
  <2>3. job[o].offset <= Rank(r)  BY <1>1, <1>8, <2>1, <2>2 DEF ClientSound, RowsAreAhead
  <2>4. CASE x \in rows
    <3>1. r.at # x.at  BY <1>1, <2>2, <2>4 DEF RowsAreMarked
    <3>2. ~ (Rank(x) < job[o].offset)  BY <1>4, <1>8, <2>4 DEF Removed
    <3>3. job[o].offset <= Rank(x)  BY <1>1, <1>4, <3>2
    <3> QED  BY <1>1, <1>2, <1>4, <1>5, <2>2, <2>3, <2>4, <3>1, <3>3, DeletionMovesBack
  <2>5. CASE x \notin rows
    <3>1. rows' = rows  BY <1>2, <2>5
    <3> QED  BY <1>4, <1>5, <2>3, <3>1
  <2> QED  BY <2>4, <2>5
<1>9. RowsAreAhead(o)'
  <2>1. o \notin disturbed' => o \notin disturbed  BY DEF Removed
  <2> QED  BY <1>1, <1>6, <1>7, <1>8, <2>1 DEF ClientSound, RowsAreAhead
<1> QED  BY <1>1, <1>3, <1>9 DEF ClientSound, TagsThenList, FoundIsOwn

\* The row of an allocation is one of the claim's own.
LEMMA InvariantPost ==
    ASSUME ClientInvariant, NEW k \in Clients, Post(k) PROVE ClientInvariant'
<1>1. /\ TypeOK /\ UNCHANGED <<tags, field, disturbed>> /\ faults' \in 0..MaxFaults
      /\ goal' \in [Clients -> {"allocate", "hold", "release", "gone"}]
      /\ Fails(k)
  <2>1. MaxFaults \in Nat  BY ClientAssumption
  <2>2. TypeOK  BY DEF ClientInvariant
  <2>3. faults' \in 0..MaxFaults  BY <2>1, <2>2 DEF TypeOK, Post, Fault
  <2>4. goal' \in [Clients -> {"allocate", "hold", "release", "gone"}]
    BY <2>2 DEF TypeOK, Post, Completes
  <2> QED  BY <2>2, <2>3, <2>4 DEF Post, Completes
<1>2. /\ pc' \in [Clients -> Calls] /\ job' \in [Clients -> Job]
      /\ pc'[k] = "idle" /\ job'[k] = NoJob
      /\ \A o \in Clients \ {k} : pc'[o] = pc[o] /\ job'[o] = job[o]
  BY <1>1, NoJobIsJob, StepOfOne DEF Fails, Calls
<1>3. CASE rows' = rows
  BY <1>1, <1>3, InvariantFails DEF TypeOK
<1>4. CASE rows' # rows
  <2> DEFINE list == RequestTags(k)
             RowAt(p) == [at |-> p, owner |-> k, fields |-> RequestFields(k),
                          tags |-> {list[i] : i \in DOMAIN list}]
  <2>1. PICK p \in Free : rows' = rows \cup {RowAt(p)}  BY <1>4 DEF Post
  <2>2. NewRow(RowAt(p)) /\ RowAt(p).owner = k
    <3>1. p \in Positions /\ k \in Values  BY DEF Free, Values
    <3>2. /\ {list[i] : i \in DOMAIN list} \in SUBSET Tags
          /\ OwnershipTag \in {list[i] : i \in DOMAIN list}
      <4>1. list \in Seq(Tags) /\ \E i \in DOMAIN list : list[i] = OwnershipTag
        BY TagsOfRequest
      <4> HIDE DEF list
      <4>2. \A i \in DOMAIN list : list[i] \in Tags  BY <4>1
      <4> QED  BY <4>1, <4>2
    <3>3. RequestFields(k) \in [Fields -> Values] /\ RequestFields(k)[ClaimUIDField] = k
      BY FieldsOfRequest
    <3> HIDE DEF list
    <3> QED  BY <2>1, <3>1, <3>2, <3>3 DEF NewRow, Row
  <2> HIDE DEF RowAt
  <2>3. RowsAreMarked' /\ rows' \subseteq Row  BY <2>1, <2>2, InsertionIsMarked
  <2>4. ASSUME NEW o \in Clients \ {k} PROVE ClientSound(o)'
    <3>1. o # RowAt(p).owner  BY <2>2
    <3> QED  BY <1>1, <1>2, <2>1, <2>2, <3>1, InsertionKeepsSound
  <2>5. ClientSound(k)'  BY <1>2, IdleIsSound
  <2>6. TypeOK'  BY <1>1, <1>2, <2>3 DEF TypeOK, Calls
  <2> QED  BY <2>3, <2>4, <2>5, <2>6 DEF ClientInvariant
<1> QED  BY <1>3, <1>4

LEMMA InvariantDelete ==
    ASSUME ClientInvariant, NEW k \in Clients, Delete(k) PROVE ClientInvariant'
<1>1. /\ TypeOK /\ UNCHANGED <<tags, field>> /\ Removed(job[k].found)
      /\ faults' \in 0..MaxFaults
      /\ goal' \in [Clients -> {"allocate", "hold", "release", "gone"}]
      /\ Fails(k)
  <2>1. MaxFaults \in Nat  BY ClientAssumption
  <2>2. TypeOK  BY DEF ClientInvariant
  <2>3. faults' \in 0..MaxFaults  BY <2>1, <2>2 DEF TypeOK, Delete, Fault
  <2>4. goal' \in [Clients -> {"allocate", "hold", "release", "gone"}]
    BY <2>2 DEF TypeOK, Delete, Completes
  <2> QED  BY <2>2, <2>3, <2>4 DEF Delete, Completes
<1>2. /\ pc' \in [Clients -> Calls] /\ job' \in [Clients -> Job]
      /\ pc'[k] = "idle" /\ job'[k] = NoJob
      /\ \A o \in Clients \ {k} : pc'[o] = pc[o] /\ job'[o] = job[o]
  BY <1>1, NoJobIsJob, StepOfOne DEF Fails, Calls
<1>3. \A o \in Clients \ {k} : ClientSound(o)'  BY <1>1, <1>2, DeletionKeepsSound
<1>4. ClientSound(k)'  BY <1>2, IdleIsSound
<1>5. RowsAreMarked'
  <2>1. IsFiniteSet(rows')  BY <1>1, FS_Subset DEF Removed, ClientInvariant, RowsAreMarked
  <2> QED  BY <1>1, <2>1 DEF Removed, ClientInvariant, RowsAreMarked
<1>6. TypeOK'  BY <1>1, <1>2 DEF TypeOK, Calls, Removed
<1> QED  BY <1>3, <1>4, <1>5, <1>6 DEF ClientInvariant

\* Other clusters add and delete records of their own.
LEMMA InvariantForeign ==
    ASSUME ClientInvariant, ForeignInsert \/ ForeignDelete PROVE ClientInvariant'
<1>1. TypeOK  BY DEF ClientInvariant
<1>2. CASE ForeignInsert
  <2> DEFINE RowAt(p) == [at |-> p, owner |-> Foreign, tags |-> {OwnershipTag},
                          fields |-> [f \in Fields |-> IF f = ClaimUIDField THEN Foreign
                                                       ELSE NoValue]]
  <2>1. PICK p \in Free : rows' = rows \cup {RowAt(p)}  BY <1>2 DEF ForeignInsert
  <2>2. NewRow(RowAt(p)) /\ RowAt(p).owner = Foreign
    <3>1. p \in Positions /\ Foreign \in Values /\ NoValue \in Values
          /\ OwnershipTag \in Tags /\ ClaimUIDField \in Fields
      BY ClientAssumption DEF Free, Values
    <3> QED  BY <2>1, <3>1 DEF NewRow, Row
  <2> HIDE DEF RowAt
  <2>3. RowsAreMarked' /\ rows' \subseteq Row  BY <2>1, <2>2, InsertionIsMarked
  <2>4. UNCHANGED <<tags, field, goal, pc, job, disturbed, faults>>  BY <1>2 DEF ForeignInsert
  <2>5. \A o \in Clients : ClientSound(o)'
    BY <2>1, <2>2, <2>4, InsertionKeepsSound, ClientAssumption
  <2>6. TypeOK'  BY <1>1, <2>3, <2>4 DEF TypeOK
  <2> QED  BY <2>3, <2>5, <2>6 DEF ClientInvariant
<1>3. CASE ForeignDelete
  <2>1. PICK r \in ForeignRows : Removed(r)  BY <1>3 DEF ForeignDelete
  <2>2. UNCHANGED <<tags, field, goal, pc, job, faults>>  BY <1>3 DEF ForeignDelete
  <2>3. \A o \in Clients : ClientSound(o)'  BY <2>1, <2>2, DeletionKeepsSound
  <2>4. RowsAreMarked'
    <3>1. IsFiniteSet(rows')  BY <2>1, FS_Subset DEF Removed, ClientInvariant, RowsAreMarked
    <3> QED  BY <2>1, <3>1 DEF Removed, ClientInvariant, RowsAreMarked
  <2>5. TypeOK'  BY <1>1, <2>1, <2>2 DEF TypeOK, Removed
  <2> QED  BY <2>3, <2>4, <2>5 DEF ClientInvariant
<1> QED  BY <1>2, <1>3

-----------------------------------------------------------------------------
(* The theorems.                                                           *)

LEMMA InvariantInit == Init => ClientInvariant
<1> SUFFICES ASSUME Init PROVE ClientInvariant  OBVIOUS
<1>1. TypeOK
  <2>1. NoJob \in Job /\ MaxFaults \in Nat  BY NoJobIsJob, ClientAssumption
  <2> QED  BY <2>1 DEF Init, TypeOK
<1>2. RowsAreMarked  BY FS_EmptySet DEF Init, RowsAreMarked
<1>3. ASSUME NEW k \in Clients PROVE ClientSound(k)
  <2>1. pc[k] = "idle" /\ job[k].found = NoRow  BY <1>3, NoJobIsJob DEF Init
  <2> QED  BY <2>1 DEF ClientSound, TagsThenList, FoundIsOwn, RowsAreAhead, BeforePost
<1> QED  BY <1>1, <1>2, <1>3 DEF ClientInvariant

LEMMA InvariantStep == ClientInvariant /\ [Next]_vars => ClientInvariant'
<1> SUFFICES ASSUME ClientInvariant, [Next]_vars PROVE ClientInvariant'  OBVIOUS
<1>1. ASSUME NEW k \in Clients, ClientStep(k) \/ RequestFails(k) \/ Release(k)
      PROVE  ClientInvariant'
  <2>1. CASE Begin(k)  BY <2>1, InvariantBegin
  <2>2. CASE ListTag(k)  BY <2>2, InvariantListTag
  <2>3. CASE PostTag(k)  BY <2>3, InvariantPostTag
  <2>4. CASE Page(k)  BY <2>4, InvariantPage
  <2>5. CASE ListField(k)  BY <2>5, InvariantListField
  <2>6. CASE Post(k)  BY <2>6, InvariantPost
  <2>7. CASE Delete(k)  BY <2>7, InvariantDelete
  <2>8. CASE RequestFails(k)  BY <2>8, InvariantRequestFails
  <2>9. CASE Release(k)  BY <2>9, InvariantUsers
  <2> QED  BY <1>1, <2>1, <2>2, <2>3, <2>4, <2>5, <2>6, <2>7, <2>8, <2>9 DEF ClientStep
<1>2. CASE CreateField \/ UNCHANGED vars
  BY <1>2, InvariantUsers
<1>3. CASE ForeignInsert \/ ForeignDelete  BY <1>3, InvariantForeign
<1> QED  BY <1>1, <1>2, <1>3 DEF Next

\* A client knows its own rows exactly in every reachable state.
THEOREM ClientInvariantHolds == Spec => []ClientInvariant
<1> QED  BY InvariantInit, InvariantStep, PTL DEF Spec

\* Every variable keeps to its type.
THEOREM TypeCorrect == Spec => []TypeOK
<1>1. ClientInvariant => TypeOK  BY DEF ClientInvariant
<1> QED  BY <1>1, ClientInvariantHolds, PTL

\* For any page size and any rows of other clusters, the list that listAll reads page by page
\* (client.go) gives the answer an atomic lookup would give: a client that was not disturbed
\* has no record when it allocates, and releases its claim's own.
THEOREM LookupExact == Spec => []LookupIsExact
<1>1. ClientInvariant => LookupIsExact
  <2> SUFFICES ASSUME ClientInvariant, NEW k \in Clients \ disturbed
               PROVE  /\ BeforePost(k) => RowsOf(k) = {}
                      /\ pc[k] = "Delete" => job[k].found.owner = k
    BY DEF LookupIsExact
  <2>1. ClientSound(k)  BY DEF ClientInvariant
  <2> QED  BY <2>1 DEF ClientSound, RowsAreAhead, FoundIsOwn
<1> QED  BY <1>1, ClientInvariantHolds, PTL

\* DeleteIPAddress removes the row its claim owns, disturbed or not.
THEOREM OnlyOwnDeleted == Spec => OnlyOwnRowsDeleted
<1> DEFINE OwnDeleted == \A k \in Clients :
              pc[k] = "Delete" /\ pc'[k] # "Delete" => rows \ rows' \subseteq RowsOf(k)
<1>1. ClientInvariant /\ [Next]_vars => [OwnDeleted]_vars
  <2> SUFFICES ASSUME ClientInvariant, Next, NEW k \in Clients,
                      pc[k] = "Delete", pc'[k] # "Delete"
               PROVE  rows \ rows' \subseteq RowsOf(k)
    OBVIOUS
  <2>1. pc \in [Clients -> Calls] /\ ClientSound(k)  BY DEF ClientInvariant, TypeOK, Calls
  <2>2. CASE CreateField \/ ForeignInsert \/ ForeignDelete
    BY <2>2 DEF CreateField, ForeignInsert, ForeignDelete
  <2>3. ASSUME NEW o \in Clients, ClientStep(o) \/ RequestFails(o) \/ Release(o)
        PROVE  rows \ rows' \subseteq RowsOf(k)
    <3>1. CASE Delete(o)
      <4>1. o = k  BY <2>1, <3>1 DEF Delete, Completes, Fails, Step
      <4>2. job[k].found.owner = k  BY <2>1 DEF ClientSound, FoundIsOwn
      <4>3. rows' = rows \ {job[k].found}  BY <3>1, <4>1 DEF Delete, Removed
      <4> QED  BY <4>2, <4>3 DEF RowsOf
    <3>2. CASE ~Delete(o)
      <4>1. rows \ rows' = {}
        BY <2>3, <3>2
           DEF ClientStep, Begin, ListTag, PostTag, Page, ListField, Post, RequestFails, Release,
               server
      <4> QED  BY <4>1
    <3> QED  BY <3>1, <3>2
  <2> QED  BY <2>2, <2>3 DEF Next
<1>2. OnlyOwnRowsDeleted <=> [][OwnDeleted]_vars  BY DEF OnlyOwnRowsDeleted
<1> QED  BY <1>1, <1>2, ClientInvariantHolds, PTL DEF Spec

=============================================================================
