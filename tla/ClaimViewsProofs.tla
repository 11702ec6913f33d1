--------------------------- MODULE ClaimViewsProofs ---------------------------
(***************************************************************************)
(* ViewsInvariant holds in every behaviour of the claim controller: for    *)
(* any sets of claims, names and addresses, any pools, any number of       *)
(* faults and any cache lag.                                               *)
(*                                                                         *)
(* The informer's view changes in three ways: a write to the API adds an   *)
(* event to the watch, a delivered event moves the cache on, and a restart *)
(* lists the API again.                                                    *)
(***************************************************************************)
EXTENDS ClaimControllerProofs

(***************************************************************************)
(* Facts about the definitions.                                            *)
(***************************************************************************)

\* The order of a claim's phases.
LEMMA RankFacts ==
    ASSUME NEW obj \in ClaimObject
    PROVE  /\ Rank(obj) \in 0..3
           /\ (obj.phase = "absent") <=> Rank(obj) = 0
           /\ (obj.phase = "live") <=> Rank(obj) = 1
           /\ (obj.phase = "deleting") <=> Rank(obj) = 2
           /\ (obj.phase = "gone") <=> Rank(obj) = 3
BY DEF Rank, ClaimObject

\* The pending events are well formed, and the claims of a name are each other's others.
LEMMA WatchFacts ==
    ASSUME TypeOK
    PROVE  /\ Len(claimWatch) \in Nat
           /\ \A i \in 1..Len(claimWatch) :
                 claimWatch[i].claim \in Claims /\ claimWatch[i].object \in ClaimObject
<1> DEFINE E == [claim : Claims, object : ClaimObject]
<1>1. claimWatch \in Seq(E)
  BY DEF TypeOK
<1>2. Len(claimWatch) \in Nat /\ \A i \in 1..Len(claimWatch) : claimWatch[i] \in E
  <2> HIDE DEF E
  <2> QED
    BY <1>1
<1> QED
  BY <1>2

\* A write that changes a claim adds its event at the end of the watch.
LEMMA WatchAfterWrite ==
    ASSUME TypeOK, NEW c \in Claims, NEW obj \in ClaimObject, WriteClaim(c, obj), obj # claim[c]
    PROVE  /\ \A d \in Claims : claim'[d] = IF d = c THEN obj ELSE claim[d]
           /\ Len(claimWatch') = Len(claimWatch) + 1
           /\ \A i \in 1..Len(claimWatch) : claimWatch'[i] = claimWatch[i]
           /\ claimWatch'[Len(claimWatch) + 1].claim = c
           /\ claimWatch'[Len(claimWatch) + 1].object = obj
<1> DEFINE E == [claim : Claims, object : ClaimObject]
           e == [claim |-> c, object |-> obj]
<1>1. claimWatch \in Seq(E) /\ e \in E
  BY DEF TypeOK
<1>2. claimWatch' = Append(claimWatch, e)
  BY DEF WriteClaim
<1>3. /\ Len(claimWatch') = Len(claimWatch) + 1
      /\ \A i \in 1..Len(claimWatch) : claimWatch'[i] = claimWatch[i]
      /\ claimWatch'[Len(claimWatch) + 1] = e
  <2> HIDE DEF E, e
  <2> QED
    BY <1>1, <1>2
<1> QED
  BY <1>3 DEF WriteClaim, TypeOK

\* A delivered event is the first one; the others move up.
LEMMA WatchAfterSync ==
    ASSUME TypeOK, SyncClaim
    PROVE  /\ Len(claimWatch) = Len(claimWatch') + 1
           /\ Len(claimWatch') \in Nat
           /\ \A i \in 1..Len(claimWatch') : claimWatch'[i] = claimWatch[i + 1]
           /\ \A d \in Claims : claimCache'[d] = IF d = claimWatch[1].claim
                                                  THEN claimWatch[1].object ELSE claimCache[d]
<1> DEFINE E == [claim : Claims, object : ClaimObject]
<1>1. claimWatch \in Seq(E) /\ claimWatch # <<>> /\ claimWatch' = Tail(claimWatch)
  BY DEF TypeOK, SyncClaim
<1>2. /\ Len(claimWatch) = Len(claimWatch') + 1 /\ Len(claimWatch') \in Nat
      /\ \A i \in 1..Len(claimWatch') : claimWatch'[i] = claimWatch[i + 1]
      /\ Head(claimWatch) = claimWatch[1]
  <2> HIDE DEF E
  <2> QED
    BY <1>1
<1> QED
  BY <1>2 DEF SyncClaim, TypeOK

\* Of a claim that has not been created the informer has not heard.
LEMMA AbsentNotBegun ==
    ASSUME TypeOK, InformerKnows, NEW c \in Claims, claim[c].phase = "absent",
           NEW i \in 1..(Len(claimWatch) + 1)
    PROVE  ~Begun(c, i)
<1>1. Rank(claim[c]) = 0 /\ Rank(claimCache[c]) \in 0..3 /\ Rank(claimCache[c]) <= 0
  BY RankFacts DEF TypeOK, InformerKnows, CacheInOrder
<1>2. claimCache[c].phase = "absent"
  BY <1>1, RankFacts DEF TypeOK
<1>3. ASSUME NEW j \in 1..(i - 1), claimWatch[j].claim = c PROVE FALSE
  <2>1. j \in 1..Len(claimWatch)
    BY WatchFacts
  <2>2. /\ Rank(claimWatch[j].object) \in 0..3 /\ Rank(claimWatch[j].object) <= 0
        /\ claimWatch[j].object \in ClaimObject
    BY <1>1, <1>3, <2>1, WatchFacts, RankFacts DEF InformerKnows, CacheInOrder
  <2>3. claimWatch[j].object.phase = "absent"
    BY <2>2, RankFacts
  <2> QED
    BY <2>1, <2>3 DEF InformerKnows, NamesInTurn
<1> QED
  BY <1>2, <1>3 DEF Begun

(***************************************************************************)
(* The informer's view.                                                    *)
(***************************************************************************)

\* As long as neither API nor cache nor watch changes it stays.
LEMMA InformerUnmoved ==
    ASSUME UNCHANGED <<claim, claimCache, claimWatch>>
    PROVE  /\ InformerKnows => InformerKnows'
           /\ \A c : DeletionSeen(c)' <=> DeletionSeen(c)
<1>1. \A c : DeletionSeen(c)' <=> DeletionSeen(c)
  BY DEF DeletionSeen
<1>2. CacheInOrder => CacheInOrder'
  BY DEF CacheInOrder, Rank
<1>3. CopiesTrusted => CopiesTrusted'
  BY DEF CopiesTrusted, Held, Trusted, Exists
<1>4. \A c, i : Alone(c, i)' <=> Alone(c, i)
  BY DEF Alone, Begun, Ended, Others
<1>5. NamesInTurn => NamesInTurn'
  BY <1>4 DEF NamesInTurn, Ended, Others, Exists
<1>6. DeletionsBeforeFinalizers => DeletionsBeforeFinalizers'
  BY <1>1 DEF DeletionsBeforeFinalizers, Others, Rank
<1> QED
  BY <1>1, <1>2, <1>3, <1>5, <1>6 DEF InformerKnows

\* What the program must not do in a write: move a claim back in its life, take a name that
\* is in use, leave a claim without finalizer in deletion, set a finalizer while the informer
\* may show another claim of the name on its way out, or take one away, or a claim out of
\* deletion, before the cache shows the deletion.
SoundWrite(c, obj) ==
    /\ Rank(claim[c]) <= Rank(obj) /\ obj.phase # "absent" /\ Held(obj)
    /\ Exists(claim[c]) \/ \A d \in Others(c) : ~Exists(claim[d])
    /\ obj.finalizer => claim[c].finalizer \/ \A d \in Others(c) : ~DeletionSeen(d)
    /\ claim[c].finalizer /\ ~obj.finalizer => 2 <= Rank(claimCache[c])

\* A write keeps the informer's view in order.
LEMMA WriteInOrder ==
    ASSUME TypeOK, InformerKnows, NEW c \in Claims, NEW obj \in ClaimObject, WriteClaim(c, obj),
           SoundWrite(c, obj), obj # claim[c], UNCHANGED claimCache
    PROVE  CacheInOrder'
<1> DEFINE L == Len(claimWatch)
<1>1. \A d \in Claims : Rank(claim[d]) \in 0..3 /\ Rank(claimCache[d]) \in 0..3
  BY RankFacts DEF TypeOK
<1>2. Rank(obj) \in 0..3 /\ Rank(claim[c]) <= Rank(obj)
  BY RankFacts DEF SoundWrite
<1>3. \A d \in Claims : claim'[d] = IF d = c THEN obj ELSE claim[d]
  BY WatchAfterWrite
<1>4. \A d \in Claims : Rank(claim[d]) <= Rank(claim'[d]) /\ Rank(claim'[d]) \in 0..3
  BY <1>1, <1>2, <1>3
<1>5. /\ L \in Nat
      /\ \A i \in 1..L : Rank(claimWatch[i].object) \in 0..3 /\ claimWatch[i].claim \in Claims
  BY WatchFacts, RankFacts
<1>6. \A d \in Claims : Rank(claimCache[d]) <= Rank(claim'[d])
  BY <1>1, <1>4 DEF InformerKnows, CacheInOrder
<1>7. ASSUME NEW i \in 1..Len(claimWatch')
      PROVE  /\ Rank(claimCache[claimWatch'[i].claim]) <= Rank(claimWatch'[i].object)
             /\ Rank(claimWatch'[i].object) <= Rank(claim'[claimWatch'[i].claim])
  <2>1. CASE i \in 1..L
    <3>1. /\ Rank(claimCache[claimWatch[i].claim]) <= Rank(claimWatch[i].object)
          /\ Rank(claimWatch[i].object) <= Rank(claim[claimWatch[i].claim])
      BY <2>1 DEF InformerKnows, CacheInOrder
    <3> QED
      BY <1>1, <1>4, <1>5, <2>1, <3>1, WatchAfterWrite
  <2>2. CASE i = L + 1
    BY <1>1, <1>2, <1>3, <1>6, <2>2, WatchAfterWrite
  <2> QED
    BY <1>5, <2>1, <2>2, WatchAfterWrite
<1>8. ASSUME NEW i \in 1..Len(claimWatch'), NEW k \in 1..Len(claimWatch'), i < k,
             claimWatch'[i].claim = claimWatch'[k].claim
      PROVE  Rank(claimWatch'[i].object) <= Rank(claimWatch'[k].object)
  <2>1. claimWatch'[i] = claimWatch[i] /\ i \in 1..L
    BY <1>5, <1>8, WatchAfterWrite
  <2>2. CASE k \in 1..L
    BY <1>8, <2>1, <2>2, WatchAfterWrite DEF InformerKnows, CacheInOrder
  <2>3. CASE k = L + 1
    <3>1. claimWatch[i].claim = c /\ claimWatch'[k].object = obj
      BY <1>8, <2>1, <2>3, WatchAfterWrite
    <3>2. Rank(claimWatch[i].object) <= Rank(claim[c])
      BY <2>1, <3>1 DEF InformerKnows, CacheInOrder
    <3> QED
      BY <1>1, <1>2, <1>5, <2>1, <3>1, <3>2
  <2> QED
    BY <1>5, <2>2, <2>3, WatchAfterWrite
<1> QED
  BY <1>6, <1>7, <1>8 DEF CacheInOrder, Rank

\* A write keeps old copies trustworthy.
LEMMA WriteTrusted ==
    ASSUME TypeOK, InformerKnows, NEW c \in Claims, NEW obj \in ClaimObject, WriteClaim(c, obj),
           SoundWrite(c, obj), obj # claim[c], UNCHANGED claimCache
    PROVE  CopiesTrusted'
<1> DEFINE L == Len(claimWatch)
<1>1. /\ \A d \in Claims : claim'[d] = IF d = c THEN obj ELSE claim[d]
      /\ claim[c].finalizer => obj.finalizer \/ 2 <= Rank(claimCache[c])
      /\ Held(obj)
  BY WatchAfterWrite DEF SoundWrite
<1>2. claimCache[c] \in ClaimObject /\ Rank(claimCache[c]) \in 0..3
  BY RankFacts DEF TypeOK
<1>3. \A d \in Claims : Held(claim[d])'
  BY <1>1 DEF InformerKnows, CopiesTrusted, Held, Exists
<1>4. ASSUME NEW d \in Claims PROVE (Held(claimCache[d]) /\ Trusted(claimCache[d], d))'
  <2>1. Held(claimCache[d]) /\ Trusted(claimCache[d], d)
    BY DEF InformerKnows, CopiesTrusted
  <2>2. 2 <= Rank(claimCache[c]) => claimCache[c].phase # "live"
    BY <1>2, RankFacts
  <2> QED
    BY <1>1, <2>1, <2>2 DEF Trusted, Held, Exists
<1>5. ASSUME NEW i \in 1..Len(claimWatch')
      PROVE  (Held(claimWatch[i].object) /\ Trusted(claimWatch[i].object, claimWatch[i].claim))'
  <2>1. CASE i \in 1..L
    <3>1. /\ Held(claimWatch[i].object) /\ Trusted(claimWatch[i].object, claimWatch[i].claim)
          /\ claimWatch[i].claim \in Claims /\ claimWatch[i].object \in ClaimObject
          /\ claimWatch'[i] = claimWatch[i]
      BY <2>1, WatchFacts, WatchAfterWrite DEF InformerKnows, CopiesTrusted
    <3>2. claimWatch[i].claim = c /\ 2 <= Rank(claimCache[c]) => claimWatch[i].object.phase # "live"
      <4>1. Rank(claimCache[claimWatch[i].claim]) <= Rank(claimWatch[i].object)
        BY <2>1 DEF InformerKnows, CacheInOrder
      <4>2. /\ Rank(claimWatch[i].object) \in 0..3
            /\ claimWatch[i].object.phase = "live" <=> Rank(claimWatch[i].object) = 1
        BY <3>1, RankFacts
      <4> QED
        BY <1>2, <4>1, <4>2
    <3> QED
      BY <1>1, <3>1, <3>2 DEF Trusted, Held, Exists
  <2>2. CASE i = L + 1
    BY <1>1, <2>2, WatchAfterWrite DEF Trusted, Held, Exists
  <2> QED
    BY <2>1, <2>2, WatchAfterWrite, WatchFacts
<1> QED
  BY <1>3, <1>4, <1>5 DEF CopiesTrusted

\* A write leaves the informer's knowledge of what comes before older events as it was.
LEMMA KnownAfterWrite ==
    ASSUME TypeOK, NEW c \in Claims, NEW obj \in ClaimObject, WriteClaim(c, obj), obj # claim[c],
           UNCHANGED claimCache
    PROVE  /\ \A d \in Claims, i \in 1..(Len(claimWatch) + 1) :
                 (Begun(d, i)' <=> Begun(d, i)) /\ (Ended(d, i)' <=> Ended(d, i))
           /\ \A d \in Claims : /\ Ended(d, Len(claimWatch) + 1) => Ended(d, Len(claimWatch) + 1)'
                                /\ d # c /\ Begun(d, Len(claimWatch) + 1)' => Begun(d, Len(claimWatch) + 1)
<1> DEFINE L == Len(claimWatch)
<1>0. L \in Nat /\ L' = L + 1 /\ \A i \in 1..L : claimWatch'[i] = claimWatch[i]
  BY WatchFacts, WatchAfterWrite
<1>1. ASSUME NEW d \in Claims, NEW i \in 1..(L + 1)
      PROVE  (Begun(d, i)' <=> Begun(d, i)) /\ (Ended(d, i)' <=> Ended(d, i))
  <2>1. \A j \in 1..(i - 1) : claimWatch'[j] = claimWatch[j]
    BY <1>0
  <2> QED
    BY <2>1 DEF Begun, Ended
<1>2. ASSUME NEW d \in Claims, Ended(d, L + 1) PROVE Ended(d, L + 1)'
  <2>1. CASE claimCache[d].phase = "gone"
    BY <2>1 DEF Ended
  <2>2. CASE \E j \in 1..L : claimWatch[j].claim = d /\ claimWatch[j].object.phase = "gone"
    <3>1. PICK j \in 1..L : claimWatch[j].claim = d /\ claimWatch[j].object.phase = "gone"
      BY <2>2
    <3>2. j \in 1..(L' + 1 - 1) /\ claimWatch'[j] = claimWatch[j]
      BY <1>0
    <3> QED
      BY <3>1, <3>2 DEF Ended
  <2>3. L + 1 - 1 = L
    BY <1>0
  <2> QED
    BY <1>2, <2>1, <2>2, <2>3 DEF Ended
<1>3. ASSUME NEW d \in Claims, d # c, Begun(d, L + 1)' PROVE Begun(d, L + 1)
  <2>1. CASE claimCache[d].phase # "absent"
    BY <2>1 DEF Begun
  <2>2. CASE \E j \in 1..(L' + 1 - 1) : claimWatch'[j].claim = d
    <3>1. PICK j \in 1..(L' + 1 - 1) : claimWatch'[j].claim = d
      BY <2>2
    <3>2. j # L + 1
      BY <1>3, <3>1, WatchAfterWrite
    <3>3. j \in 1..(L + 1 - 1) /\ claimWatch[j].claim = d
      BY <1>0, <3>1, <3>2
    <3> QED
      BY <3>3 DEF Begun
  <2> QED
    BY <1>3, <2>1, <2>2 DEF Begun
<1> QED
  BY <1>1, <1>2, <1>3

\* A write keeps the names in turn.
LEMMA WriteInTurn ==
    ASSUME TypeOK, InformerKnows, NEW c \in Claims, NEW obj \in ClaimObject, WriteClaim(c, obj),
           SoundWrite(c, obj), obj # claim[c], UNCHANGED claimCache
    PROVE  NamesInTurn'
<1> DEFINE L == Len(claimWatch)
<1>0. /\ L \in Nat /\ Len(claimWatch') = L + 1
      /\ \A d \in Claims : claim'[d] = IF d = c THEN obj ELSE claim[d]
      /\ obj.phase # "absent"
      /\ NamesInTurn
  BY WatchFacts, WatchAfterWrite DEF SoundWrite, InformerKnows
<1>1. \A k \in Claims : \A d \in Others(k) : d \in Claims /\ d # k /\ k \in Others(d) /\ Others(k)' = Others(k)
  BY DEF Others
<1>2. \A d \in Others(c) : ~Exists(claim[d])
  BY <1>0 DEF SoundWrite, NamesInTurn
<1>3. ASSUME Exists(obj), NEW d \in Others(c), Begun(d, L + 1) PROVE Ended(d, L + 1)
  <2>1. d \in Claims /\ claim[d] \in ClaimObject /\ ~Exists(claim[d])
    BY <1>1, <1>2 DEF TypeOK
  <2>2. L + 1 \in 1..(L + 1)
    BY <1>0
  <2>3. claim[d].phase # "absent"
    BY <1>3, <2>1, <2>2, AbsentNotBegun
  <2>4. claim[d].phase = "gone"
    BY <2>1, <2>3 DEF Exists, ClaimObject
  <2> QED
    BY <1>0, <2>1, <2>4 DEF NamesInTurn
<1>4. ASSUME NEW k \in Claims, Exists(claim'[k])
      PROVE  (\A d \in Others(k) : ~Exists(claim'[d])) /\ Alone(k, L + 1)'
  <2>1. CASE k = c
    <3>1. \A d \in Others(k) : ~Exists(claim'[d])
      BY <1>0, <1>1, <1>2, <2>1
    <3>2. \A d \in Others(k) : Begun(d, L + 1)' => Ended(d, L + 1)'
      BY <1>0, <1>1, <1>3, <1>4, <2>1, KnownAfterWrite
    <3> QED
      BY <3>1, <3>2, <1>1 DEF Alone, Others
  <2>2. CASE k # c
    <3>1. Exists(claim[k])
      BY <1>0, <1>4, <2>2
    <3>2. c \notin Others(k)
      BY <1>1, <1>2, <3>1, <2>2 DEF Others
    <3>3. (\A d \in Others(k) : ~Exists(claim[d])) /\ Alone(k, L + 1)
      BY <1>0, <3>1 DEF NamesInTurn
    <3>4. \A d \in Others(k) : Begun(d, L + 1)' => Ended(d, L + 1)'
      BY <1>1, <3>2, <3>3, KnownAfterWrite DEF Alone
    <3> QED
      BY <1>0, <1>1, <3>2, <3>3, <3>4 DEF Alone, Others
  <2> QED
    BY <2>1, <2>2
<1>5. ASSUME NEW k \in Claims, claim'[k].phase = "gone" PROVE Ended(k, L + 1)'
  <2>1. CASE k = c
    <3>1. L + 1 \in 1..(L' + 1 - 1) /\ claimWatch'[L + 1].claim = c /\ claimWatch'[L + 1].object.phase = "gone"
      BY <1>0, <1>5, <2>1, WatchAfterWrite
    <3> QED
      BY <2>1, <3>1 DEF Ended
  <2>2. CASE k # c
    BY <1>0, <1>5, <2>2, KnownAfterWrite DEF NamesInTurn
  <2> QED
    BY <2>1, <2>2
<1>6. ASSUME NEW k \in Claims, NEW i \in 1..(L + 1), Alone(k, i) PROVE Alone(k, i)'
  BY <1>1, <1>6, KnownAfterWrite DEF Alone, Others
<1>7. ASSUME NEW k \in Claims, Exists(claimCache[k]) PROVE Alone(k, 1)'
  <2>1. Alone(k, 1) /\ 1 \in 1..(L + 1)
    BY <1>0, <1>7 DEF NamesInTurn
  <2> QED
    BY <2>1, <1>6
<1>8. ASSUME NEW i \in 1..(L + 1)
      PROVE  /\ claimWatch'[i].object.phase # "absent"
             /\ Exists(claimWatch'[i].object) => Alone(claimWatch[i].claim, i)'
  <2>1. CASE i \in 1..L
    <3>1. /\ claimWatch'[i] = claimWatch[i] /\ claimWatch[i].claim \in Claims
          /\ claimWatch[i].object.phase # "absent"
          /\ Exists(claimWatch[i].object) => Alone(claimWatch[i].claim, i)
      BY <1>0, <2>1, WatchFacts, WatchAfterWrite DEF NamesInTurn
    <3>2. ASSUME NEW k \in Claims, k = claimWatch'[i].claim, Alone(k, i) PROVE Alone(claimWatch[i].claim, i)'
      BY <1>6, <3>2
    <3> QED
      BY <3>1, <3>2
  <2>2. CASE i = L + 1
    <3>1. claimWatch'[i].claim = c /\ claimWatch'[i].object = obj
      BY <2>2, WatchAfterWrite
    <3>2. Exists(obj) => Alone(c, L + 1)
      BY <1>3 DEF Alone
    <3>3. Exists(obj) => Alone(c, i)'
      BY <1>6, <3>2, <2>2
    <3> QED
      BY <1>0, <2>2, <3>1, <3>3
  <2> QED
    BY <1>0, <2>1, <2>2
<1> QED
  BY <1>0, <1>1, <1>4, <1>5, <1>7, <1>8 DEF NamesInTurn, Exists, Others

\* A write puts no finalizer on a claim while another of its name may be seen on its way out.
LEMMA WriteDeletions ==
    ASSUME TypeOK, InformerKnows, NEW c \in Claims, NEW obj \in ClaimObject, WriteClaim(c, obj),
           SoundWrite(c, obj), obj # claim[c], UNCHANGED claimCache
    PROVE  /\ DeletionsBeforeFinalizers'
           /\ \A k \in Claims : DeletionSeen(k)' => DeletionSeen(k) \/ (k = c /\ obj.phase = "deleting")
<1> DEFINE L == Len(claimWatch)
<1>0. /\ L \in Nat /\ Len(claimWatch') = L + 1
      /\ \A d \in Claims : claim'[d] = IF d = c THEN obj ELSE claim[d]
      /\ claim[c] \in ClaimObject /\ claimCache[c] \in ClaimObject
  BY WatchFacts, WatchAfterWrite DEF TypeOK
<1>1. \A k \in Claims : \A d \in Others(k) : d \in Claims /\ d # k /\ k \in Others(d)
  BY DEF Others
<1>2. ASSUME NEW k \in Claims, DeletionSeen(k)' PROVE DeletionSeen(k) \/ (k = c /\ obj.phase = "deleting")
  <2>1. CASE claimCache[k].phase = "deleting"
    BY <2>1 DEF DeletionSeen
  <2>2. CASE \E i \in 1..Len(claimWatch') : /\ claimWatch'[i].claim = k
                                             /\ claimWatch'[i].object.phase = "deleting"
    BY <1>0, <2>2, WatchAfterWrite DEF DeletionSeen
  <2> QED
    BY <1>2, <2>1, <2>2 DEF DeletionSeen
<1>3. ASSUME NEW k \in Claims, DeletionSeen(k)
      PROVE  /\ \A d \in Others(k) : ~claim'[d].finalizer
             /\ Rank(claimCache[k]) < 2 => claim'[k].phase = "deleting"
  <2>1. /\ \A d \in Others(k) : ~claim[d].finalizer
        /\ Rank(claimCache[k]) < 2 => claim[k].phase = "deleting"
    BY <1>3 DEF InformerKnows, DeletionsBeforeFinalizers
  <2>2. \A d \in Others(k) : ~claim'[d].finalizer
    BY <1>0, <1>1, <1>3, <2>1 DEF SoundWrite
  <2>3. ASSUME Rank(claimCache[k]) < 2, k = c PROVE obj.phase = "deleting"
    <3>1. claim[c].phase = "deleting" /\ claim[c].finalizer
      BY <2>1, <2>3 DEF InformerKnows, CopiesTrusted, Held
    <3>2. obj.finalizer
      <4>1. Rank(claimCache[c]) \in 0..3
        BY <1>0, RankFacts
      <4> QED
        BY <2>3, <3>1, <4>1 DEF SoundWrite
    <3>3. Exists(obj)
      BY <3>2 DEF SoundWrite, Held
    <3>4. Rank(claim[c]) = 2 /\ Rank(obj) \in 0..3 /\ Rank(claim[c]) <= Rank(obj)
      BY <1>0, <3>1, RankFacts DEF SoundWrite
    <3> QED
      BY <3>3, <3>4, RankFacts DEF Exists
  <2> QED
    BY <1>0, <2>1, <2>2, <2>3
<1>4. ASSUME obj.phase = "deleting"
      PROVE  /\ \A d \in Others(c) : ~claim'[d].finalizer
             /\ claim'[c].phase = "deleting"
  <2>1. \A d \in Others(c) : ~Exists(claim[d]) /\ Held(claim[d])
    BY <1>1 DEF SoundWrite, InformerKnows, NamesInTurn, CopiesTrusted
  <2> QED
    BY <1>0, <1>1, <1>4, <2>1 DEF Held
<1>5. DeletionsBeforeFinalizers'
  BY <1>2, <1>3, <1>4 DEF DeletionsBeforeFinalizers, Others, Rank
<1> QED
  BY <1>2, <1>5

\* A sound write keeps what the informer knows.
LEMMA WriteKeepsViews ==
    ASSUME TypeOK, InformerKnows, NEW c \in Claims, NEW obj \in ClaimObject, WriteClaim(c, obj),
           SoundWrite(c, obj), UNCHANGED claimCache
    PROVE  /\ InformerKnows'
           /\ \A d \in Claims : claim'[d] = IF d = c THEN obj ELSE claim[d]
           /\ \A k \in Claims : DeletionSeen(k)' => DeletionSeen(k) \/ (k = c /\ obj.phase = "deleting")
<1>1. CASE obj = claim[c]
  <2>1. UNCHANGED <<claim, claimCache, claimWatch>> /\ claim' = [claim EXCEPT ![c] = obj]
    BY <1>1 DEF WriteClaim, TypeOK
  <2> QED
    BY <1>1, <2>1, InformerUnmoved
<1>2. CASE obj # claim[c]
  BY <1>2, WatchAfterWrite, WriteInOrder, WriteTrusted, WriteInTurn, WriteDeletions DEF InformerKnows
<1> QED
  BY <1>1, <1>2

(***************************************************************************)
(* A delivered event.                                                      *)
(***************************************************************************)

\* A delivered event takes nothing from what the informer knows and adds nothing.
LEMMA KnownAfterSync ==
    ASSUME TypeOK, InformerKnows, SyncClaim
    PROVE  /\ \A d \in Claims, i \in 1..(Len(claimWatch') + 1) :
                 (Begun(d, i)' => Begun(d, i + 1)) /\ (Ended(d, i + 1) => Ended(d, i)')
           /\ \A d \in Claims : /\ Begun(d, Len(claimWatch) + 1)' => Begun(d, Len(claimWatch) + 1)
                                /\ Ended(d, Len(claimWatch) + 1) => Ended(d, Len(claimWatch) + 1)'
           /\ \A d \in Claims : DeletionSeen(d)' => DeletionSeen(d)
           /\ \A d \in Claims : Rank(claimCache[d]) <= Rank(claimCache'[d])
<1> DEFINE e == claimWatch[1]
<1>0. /\ Len(claimWatch') \in Nat /\ Len(claimWatch) = Len(claimWatch') + 1 /\ 1 \in 1..Len(claimWatch)
      /\ \A i \in 1..Len(claimWatch') : claimWatch'[i] = claimWatch[i + 1] /\ i + 1 \in 1..Len(claimWatch)
      /\ \A d \in Claims : claimCache'[d] = IF d = e.claim THEN e.object ELSE claimCache[d]
      /\ e.claim \in Claims /\ e.object \in ClaimObject /\ e.object.phase # "absent"
  BY WatchFacts, WatchAfterSync DEF InformerKnows, NamesInTurn
<1>1. ASSUME NEW d \in Claims PROVE Rank(claimCache[d]) <= Rank(claimCache'[d])
  <2>1. Rank(claimCache[e.claim]) <= Rank(e.object) /\ Rank(claimCache[d]) \in 0..3
    BY <1>0, RankFacts DEF TypeOK, InformerKnows, CacheInOrder
  <2> QED
    BY <1>0, <2>1
<1>2. ASSUME NEW d \in Claims, NEW i \in 1..(Len(claimWatch') + 1), Begun(d, i)' PROVE Begun(d, i + 1)
  <2>1. CASE claimCache'[d].phase # "absent"
    <3>1. d = e.claim => 1 \in 1..(i + 1 - 1) /\ claimWatch[1].claim = d
      BY <1>0
    <3> QED
      BY <1>0, <2>1, <3>1 DEF Begun
  <2>2. CASE \E j \in 1..(i - 1) : claimWatch'[j].claim = d
    <3>1. PICK j \in 1..(i - 1) : claimWatch'[j].claim = d
      BY <2>2
    <3>2. j + 1 \in 1..(i + 1 - 1) /\ claimWatch[j + 1].claim = d
      BY <1>0, <3>1
    <3> QED
      BY <3>2 DEF Begun
  <2> QED
    BY <1>2, <2>1, <2>2 DEF Begun
<1>3. ASSUME NEW d \in Claims, NEW i \in 1..(Len(claimWatch') + 1), Ended(d, i + 1) PROVE Ended(d, i)'
  <2>1. ASSUME claimCache[d].phase = "gone" PROVE claimCache'[d].phase = "gone"
    <3>1. claimCache[d] \in ClaimObject /\ claimCache'[d] \in ClaimObject
      BY <1>0 DEF TypeOK
    <3> QED
      BY <1>1, <2>1, <3>1, RankFacts
  <2>2. ASSUME NEW j \in 1..i, claimWatch[j].claim = d, claimWatch[j].object.phase = "gone"
        PROVE  Ended(d, i)'
    <3>1. CASE j = 1
      BY <1>0, <2>2, <3>1 DEF Ended
    <3>2. CASE j # 1
      <4>1. j - 1 \in 1..(i - 1) /\ j - 1 \in 1..Len(claimWatch') /\ claimWatch'[j - 1] = claimWatch[j]
        <5>1. j - 1 \in 1..(i - 1) /\ j - 1 \in 1..Len(claimWatch') /\ (j - 1) + 1 = j
          BY <1>0, <3>2
        <5> QED
          BY <1>0, <5>1
      <4> QED
        BY <2>2, <4>1 DEF Ended
    <3> QED
      BY <3>1, <3>2
  <2>3. i + 1 - 1 = i
    OBVIOUS
  <2> QED
    BY <1>3, <2>1, <2>2, <2>3 DEF Ended
<1>4. ASSUME NEW d \in Claims, DeletionSeen(d)' PROVE DeletionSeen(d)
  BY <1>0, <1>4 DEF DeletionSeen
<1>5. ASSUME NEW d \in Claims
      PROVE  /\ Begun(d, Len(claimWatch) + 1)' => Begun(d, Len(claimWatch) + 1)
             /\ Ended(d, Len(claimWatch) + 1) => Ended(d, Len(claimWatch) + 1)'
  <2>1. PICK i \in 1..(Len(claimWatch') + 1) : i = Len(claimWatch')+ 1 /\ i + 1 = Len(claimWatch) + 1
    BY <1>0
  <2>2. (Begun(d, i)' <=> Begun(d, Len(claimWatch) + 1)') /\ (Ended(d, i)' <=> Ended(d, Len(claimWatch) + 1)')
    BY <2>1 DEF Begun, Ended
  <2> QED
    BY <1>2, <1>3, <2>1, <2>2
<1> QED
  BY <1>1, <1>2, <1>3, <1>4, <1>5

\* A delivered event keeps what the informer knows.
LEMMA SyncKeepsViews ==
    ASSUME TypeOK, InformerKnows, SyncClaim
    PROVE  InformerKnows'
<1> DEFINE e == claimWatch[1]
<1>0. /\ Len(claimWatch') \in Nat /\ Len(claimWatch) = Len(claimWatch') + 1 /\ 1 \in 1..Len(claimWatch)
      /\ \A i \in 1..Len(claimWatch') : claimWatch'[i] = claimWatch[i + 1] /\ i + 1 \in 1..Len(claimWatch)
      /\ \A d \in Claims : claimCache'[d] = IF d = e.claim THEN e.object ELSE claimCache[d]
      /\ e.claim \in Claims /\ e.object \in ClaimObject /\ e.object.phase # "absent"
      /\ UNCHANGED claim
  BY WatchFacts, WatchAfterSync DEF InformerKnows, NamesInTurn, SyncClaim
<1>1. CacheInOrder /\ CopiesTrusted /\ NamesInTurn /\ DeletionsBeforeFinalizers
  BY DEF InformerKnows
<1>2. CacheInOrder'
  <2>1. \A d \in Claims : Rank(claimCache'[d]) <= Rank(claim[d])
    BY <1>0, <1>1 DEF CacheInOrder
  <2>2. ASSUME NEW i \in 1..Len(claimWatch')
        PROVE  /\ Rank(claimCache'[claimWatch'[i].claim]) <= Rank(claimWatch'[i].object)
               /\ Rank(claimWatch'[i].object) <= Rank(claim[claimWatch'[i].claim])
    <3>1. i + 1 \in 1..Len(claimWatch) /\ claimWatch'[i] = claimWatch[i + 1] /\ 1 < i + 1
      BY <1>0
    <3>2. claimWatch[i + 1].claim \in Claims
      BY <3>1, WatchFacts
    <3>3. /\ Rank(claimCache[claimWatch[i + 1].claim]) <= Rank(claimWatch[i + 1].object)
          /\ Rank(claimWatch[i + 1].object) <= Rank(claim[claimWatch[i + 1].claim])
      BY <1>1, <3>1 DEF CacheInOrder
    <3>4. claimWatch[i + 1].claim = e.claim => Rank(e.object) <= Rank(claimWatch[i + 1].object)
      BY <1>0, <1>1, <3>1 DEF CacheInOrder
    <3> QED
      BY <1>0, <3>1, <3>2, <3>3, <3>4
  <2>3. ASSUME NEW i \in 1..Len(claimWatch'), NEW k \in 1..Len(claimWatch'), i < k,
               claimWatch'[i].claim = claimWatch'[k].claim
        PROVE  Rank(claimWatch'[i].object) <= Rank(claimWatch'[k].object)
    <3>1. /\ i + 1 \in 1..Len(claimWatch) /\ claimWatch'[i] = claimWatch[i + 1]
          /\ k + 1 \in 1..Len(claimWatch) /\ claimWatch'[k] = claimWatch[k + 1]
          /\ i + 1 < k + 1
      BY <1>0, <2>3
    <3> QED
      BY <1>1, <2>3, <3>1 DEF CacheInOrder
  <2> QED
    BY <1>0, <2>1, <2>2, <2>3 DEF CacheInOrder, Rank
<1>3. CopiesTrusted'
  <2>1. Held(e.object) /\ Trusted(e.object, e.claim)
    BY <1>0, <1>1 DEF CopiesTrusted
  <2>2. \A d \in Claims : Held(claim[d])'
    BY <1>0, <1>1 DEF CopiesTrusted, Held, Exists
  <2>3. ASSUME NEW d \in Claims PROVE (Held(claimCache[d]) /\ Trusted(claimCache[d], d))'
    BY <1>0, <1>1, <2>1 DEF CopiesTrusted, Trusted, Held, Exists
  <2>4. ASSUME NEW i \in 1..Len(claimWatch')
        PROVE  (Held(claimWatch[i].object) /\ Trusted(claimWatch[i].object, claimWatch[i].claim))'
    <3>1. Held(claimWatch[i + 1].object) /\ Trusted(claimWatch[i + 1].object, claimWatch[i + 1].claim)
      BY <1>0, <1>1 DEF CopiesTrusted
    <3> QED
      BY <1>0, <3>1 DEF Trusted, Held, Exists
  <2> QED
    BY <2>2, <2>3, <2>4 DEF CopiesTrusted
<1>4. NamesInTurn'
  <2>1. \A k \in Claims : \A d \in Others(k) : d \in Claims /\ d # k /\ k \in Others(d) /\ Others(k)' = Others(k)
    BY DEF Others
  <2>2. ASSUME NEW k \in Claims, NEW i \in 1..(Len(claimWatch') + 1), Alone(k, i + 1) PROVE Alone(k, i)'
    BY <2>1, <2>2, KnownAfterSync DEF Alone, Others
  <2>3. ASSUME NEW k \in Claims
        PROVE  /\ Exists(claim'[k]) => \A d \in Others(k) : ~Exists(claim'[d])
               /\ Exists(claim'[k]) => Alone(k, Len(claimWatch) + 1)'
               /\ claim'[k].phase = "gone" => Ended(k, Len(claimWatch) + 1)'
    <3>1. /\ Exists(claim[k]) => \A d \in Others(k) : ~Exists(claim[d])
          /\ Exists(claim[k]) => Alone(k, Len(claimWatch) + 1)
          /\ claim[k].phase = "gone" => Ended(k, Len(claimWatch) + 1)
      BY <1>1 DEF NamesInTurn
    <3>2. Alone(k, Len(claimWatch) + 1) => Alone(k, Len(claimWatch) + 1)'
      BY <2>1, KnownAfterSync DEF Alone, Others
    <3> QED
      BY <1>0, <3>1, <3>2, KnownAfterSync
  <2>4. ASSUME NEW k \in Claims, Exists(claimCache'[k]) PROVE Alone(k, 1)'
    <3>1. \A d \in Claims : /\ Begun(d, 1) <=> claimCache[d].phase # "absent"
                            /\ Begun(d, 1)' <=> claimCache'[d].phase # "absent"
                            /\ Ended(d, 1) <=> claimCache[d].phase = "gone"
                            /\ Ended(d, 1)' <=> claimCache'[d].phase = "gone"
      BY DEF Begun, Ended
    <3>2. CASE k = e.claim
      <4>1. Alone(k, 1)
        BY <1>0, <1>1, <2>4, <3>2 DEF NamesInTurn
      <4>2. \A d \in Others(k) : claimCache'[d] = claimCache[d]
        BY <1>0, <2>1, <3>2
      <4> QED
        BY <2>1, <3>1, <4>1, <4>2 DEF Alone, Others
    <3>3. CASE k # e.claim
      <4>1. Exists(claimCache[k]) /\ Alone(k, 1)
        BY <1>0, <1>1, <2>4, <3>3 DEF NamesInTurn
      <4>2. ASSUME e.claim \in Others(k) PROVE e.object.phase = "gone"
        <5>1. Exists(e.object) => Alone(e.claim, 1)
          BY <1>0, <1>1 DEF NamesInTurn
        <5>2. k \in Others(e.claim) /\ Begun(k, 1) /\ ~Ended(k, 1)
          BY <2>1, <3>1, <4>1, <4>2 DEF Exists
        <5> QED
          BY <1>0, <5>1, <5>2 DEF Alone, Exists, ClaimObject
      <4> QED
        BY <1>0, <2>1, <3>1, <4>1, <4>2 DEF Alone, Others
    <3> QED
      BY <3>2, <3>3
  <2>5. ASSUME NEW i \in 1..Len(claimWatch')
        PROVE  /\ claimWatch'[i].object.phase # "absent"
               /\ Exists(claimWatch'[i].object) => Alone(claimWatch[i].claim, i)'
    <3>1. /\ i + 1 \in 1..Len(claimWatch) /\ claimWatch'[i] = claimWatch[i + 1]
          /\ claimWatch[i + 1].claim \in Claims
          /\ i \in 1..(Len(claimWatch') + 1)
      BY <1>0, WatchFacts
    <3>2. /\ claimWatch[i + 1].object.phase # "absent"
          /\ Exists(claimWatch[i + 1].object) => Alone(claimWatch[i + 1].claim, i + 1)
      BY <1>1, <3>1 DEF NamesInTurn
    <3>3. ASSUME NEW k \in Claims, k = claimWatch'[i].claim, Alone(k, i + 1)
          PROVE  Alone(claimWatch[i].claim, i)'
      BY <2>2, <3>1, <3>3
    <3> QED
      BY <3>1, <3>2, <3>3
  <2> QED
    BY <2>3, <2>4, <2>5 DEF NamesInTurn, Exists, Others
<1>5. DeletionsBeforeFinalizers'
  <2>1. ASSUME NEW c \in Claims, DeletionSeen(c)'
        PROVE  /\ \A d \in Others(c) : ~claim'[d].finalizer
               /\ Rank(claimCache'[c]) < 2 => claim'[c].phase = "deleting"
    <3>1. /\ \A d \in Others(c) : ~claim[d].finalizer
          /\ Rank(claimCache[c]) < 2 => claim[c].phase = "deleting"
      BY <1>1, <2>1, KnownAfterSync DEF DeletionsBeforeFinalizers
    <3>2. Rank(claimCache'[c]) < 2 => Rank(claimCache[c]) < 2
      <4>1. Rank(claimCache[c]) <= Rank(claimCache'[c]) /\ claimCache[c] \in ClaimObject
            /\ claimCache'[c] \in ClaimObject
        BY <1>0, KnownAfterSync DEF TypeOK
      <4> QED
        BY <4>1, RankFacts
    <3> QED
      BY <1>0, <3>1, <3>2
  <2> QED
    BY <2>1 DEF DeletionsBeforeFinalizers, Others, Rank
<1> QED
  BY <1>2, <1>3, <1>4, <1>5 DEF InformerKnows

\* A restart: the cache is as new as the API.
LEMMA RestartKeepsViews ==
    ASSUME TypeOK, InformerKnows, Restart
    PROVE  InformerKnows'
<1>1. UNCHANGED claim /\ claimCache' = claim /\ Len(claimWatch') = 0
  BY DEF Restart
<1>2. CacheInOrder /\ CopiesTrusted /\ NamesInTurn /\ \A c \in Claims : claim[c] \in ClaimObject
  BY DEF InformerKnows, TypeOK
<1>3. CacheInOrder'
  <2>1. \A c \in Claims : Rank(claim[c]) \in 0..3
    BY <1>2, RankFacts
  <2> QED
    BY <1>1, <2>1 DEF CacheInOrder, Rank
<1>4. CopiesTrusted'
  BY <1>1, <1>2 DEF CopiesTrusted, Held, Trusted, Exists
<1>5. \A c \in Claims : \A d \in Others(c) : Exists(claim[c]) => claim[d].phase = "absent" \/ claim[d].phase = "gone"
  BY <1>2 DEF NamesInTurn, Others, ClaimObject, Exists
<1>6. ASSUME NEW d \in Claims, NEW i \in 1..1
      PROVE  (Begun(d, i)' <=> claim[d].phase # "absent") /\ (Ended(d, i)' <=> claim[d].phase = "gone")
  BY <1>1 DEF Begun, Ended
<1>7. ASSUME NEW c \in Claims, Exists(claim[c]), NEW i \in 1..1 PROVE Alone(c, i)'
  BY <1>5, <1>6, <1>7 DEF Alone, Others
<1>8. NamesInTurn'
  <2>1. Len(claimWatch') + 1 \in 1..1 /\ 1 \in 1..1
    BY <1>1
  <2> QED
    BY <1>1, <1>2, <1>6, <1>7, <2>1 DEF NamesInTurn, Exists, Others
<1>9. DeletionsBeforeFinalizers'
  <2>1. \A c \in Claims : DeletionSeen(c)' <=> claim[c].phase = "deleting"
    BY <1>1 DEF DeletionSeen
  <2>2. ASSUME NEW c \in Claims, claim[c].phase = "deleting" PROVE \A d \in Others(c) : ~claim[d].finalizer
    BY <1>2, <1>5, <2>2 DEF CopiesTrusted, Held, Exists, Others
  <2> QED
    BY <1>1, <2>1, <2>2 DEF DeletionsBeforeFinalizers, Others, Rank
<1> QED
  BY <1>3, <1>4, <1>8, <1>9 DEF InformerKnows

(***************************************************************************)
(* The worker.                                                             *)
(***************************************************************************)

\* An idle worker knows nothing.
LEMMA IdleKnows == ASSUME pc' = "idle" PROVE WorkerKnows' /\ WorkerKnowsNamesakes'
BY DEF WorkerKnows, WorkerKnowsNamesakes, EnsureCalls, ReleaseCalls, ReleaseWindow

\* Steps in the middle of a reconcile.
LEMMA MidReconcileViews ==
    ASSUME ViewsInvariant, TypeOK', MidReconcile
    PROVE  ViewsInvariant'
<1>0. TypeOK /\ InformerKnows /\ WorkerKnows /\ WorkerKnowsNamesakes
  BY DEF ViewsInvariant
<1>1. /\ pc # "idle" /\ pc # "PatchClaim" /\ pc' # "idle"
      /\ UNCHANGED <<claim, claimWatch, claimCache>>
      /\ job'.claim = job.claim /\ job'.snap = job.snap
      /\ pc' # "PatchClaim" => job'.want = job.want
      /\ job'.want.finalizer = job.want.finalizer \/ (pc \in ReleaseWindow /\ ~job'.want.finalizer)
  BY <1>0, MidReconcileFacts
<1>2. InformerKnows' /\ \A c : DeletionSeen(c)' <=> DeletionSeen(c)
  BY <1>0, <1>1, InformerUnmoved
<1>3. WorkerKnows'
  <2>1. /\ pc' \in EnsureCalls => pc \in EnsureCalls \/ (pc = "FetchPool" /\ job.snap.phase # "deleting")
        /\ pc' \in ReleaseCalls => pc \in ReleaseCalls \/ (pc = "FetchPool" /\ job.snap.phase = "deleting")
    BY <1>0, MidReconcileCalls
  <2>2. /\ job.snap.finalizer /\ job.want.finalizer /\ Exists(job.snap)
        /\ pc \in EnsureCalls => job.snap.phase = "live"
        /\ pc \in ReleaseCalls => job.snap.phase = "deleting"
        /\ Held(job.snap) /\ Trusted(job.snap, job.claim)
        /\ Rank(job.snap) <= Rank(claimCache[job.claim])
    BY <1>0, <1>1 DEF WorkerKnows
  <2>3. pc' \in EnsureCalls => job.snap.phase = "live"
    BY <2>1, <2>2 DEF Exists
  <2>4. pc' \in ReleaseCalls => job.snap.phase = "deleting"
    BY <2>1, <2>2
  <2>5. ~job'.want.finalizer => job.snap.phase = "deleting"
    BY <1>1, <2>2 DEF ReleaseCalls
  <2>6. Held(job.snap)' /\ Trusted(job.snap, job.claim)' /\ Exists(job.snap)'
        /\ (Rank(job.snap) <= Rank(claimCache[job.claim]))'
    BY <1>1, <2>2 DEF Held, Trusted, Exists, Rank
  <2> QED
    BY <1>1, <2>2, <2>3, <2>4, <2>5, <2>6 DEF WorkerKnows, EnsureCalls, ReleaseCalls
<1>4. WorkerKnowsNamesakes'
  BY <1>0, <1>1, <1>2 DEF WorkerKnowsNamesakes, Name, Others
<1> QED
  BY <1>2, <1>3, <1>4 DEF ViewsInvariant

\* A reconcile starts on the cached copy of a claim.
LEMMA ReconcileViews ==
    ASSUME ViewsInvariant, TypeOK', NEW n \in Names, Reconcile(n)
    PROVE  ViewsInvariant'
<1> USE DEF kubernetes, claims, addresses, netbox, external, caches
<1>0. TypeOK /\ InformerKnows /\ WorkerKnows /\ WorkerKnowsNamesakes
  BY DEF ViewsInvariant
<1>1. UNCHANGED <<claim, claimWatch, claimCache>> /\ pc = "idle"
  BY DEF Reconcile
<1>2. InformerKnows' /\ \A c : DeletionSeen(c)' <=> DeletionSeen(c)
  BY <1>0, <1>1, InformerUnmoved
<1>3. CASE pc' = "idle"
  BY <1>2, <1>3, IdleKnows DEF ViewsInvariant
<1>4. ASSUME NEW c \in Cached(n), ReconcileClaim(c), pc' # "idle" PROVE ViewsInvariant'
  <2>1. c \in Claims /\ NameOf[c] = n /\ claimCache[c] \in ClaimObject /\ Exists(claimCache[c])
    BY <1>0 DEF TypeOK, Cached
  <2>2. /\ job'.claim = c /\ job'.snap = claimCache[c] /\ job'.want.finalizer
        /\ pc' = "PatchClaim" \/ (pc' = "FetchPool" /\ claimCache[c].finalizer)
    BY <1>0, <1>1, <1>4, <2>1, ReadFacts DEF ReconcileClaim, AddFinalizer, Proceed
  <2>3. Rank(claimCache[c]) \in 0..3
    BY <2>1, RankFacts
  <2>4. Held(claimCache[c]) /\ Trusted(claimCache[c], c)
    BY <1>0, <2>1 DEF InformerKnows, CopiesTrusted
  <2>5. WorkerKnows'
    <3>1. Held(job.snap)' /\ Trusted(job.snap, job.claim)' /\ Exists(job.snap)'
          /\ (Rank(job.snap) <= Rank(claimCache[job.claim]))'
      BY <1>1, <2>1, <2>2, <2>3, <2>4 DEF Held, Trusted, Exists, Rank
    <3> QED
      BY <2>2, <3>1 DEF WorkerKnows, EnsureCalls, ReleaseCalls, ReleaseWindow
  <2>6. ASSUME claimCache[c].phase = "deleting" PROVE \A d \in Others(c) : ~claim[d].finalizer
    <3>1. DeletionSeen(c)
      BY <2>6 DEF DeletionSeen
    <3> QED
      BY <1>0, <2>1, <3>1 DEF InformerKnows, DeletionsBeforeFinalizers
  <2>7. ASSUME NEW d \in Claims, NameOf[d] = n, d # c \/ claimCache[c].phase = "live", DeletionSeen(d)
        PROVE  claim[d].phase = "deleting"
    <3>1. Rank(claimCache[d]) < 2 => claim[d].phase = "deleting"
      BY <1>0, <2>7 DEF InformerKnows, DeletionsBeforeFinalizers
    <3>2. CASE d = c
      <4>1. Rank(claimCache[c]) = 1
        BY <2>1, <2>7, <3>2, RankFacts
      <4> QED
        BY <3>1, <3>2, <4>1
    <3>3. CASE d # c
      <4>1. d \in Others(c) /\ Alone(c, 1)
        BY <1>0, <2>1, <2>7, <3>3 DEF Others, InformerKnows, NamesInTurn
      <4>2. claimCache[d].phase = "absent" \/ claimCache[d].phase = "gone"
        BY <4>1 DEF Alone, Begun, Ended
      <4>3. claimCache[d].phase # "gone"
        <5>1. SUFFICES ASSUME claimCache[d].phase = "gone" PROVE FALSE
          OBVIOUS
        <5>2. PICK i \in 1..Len(claimWatch) : claimWatch[i].claim = d /\ claimWatch[i].object.phase = "deleting"
          BY <2>7, <5>1 DEF DeletionSeen
        <5>3. Rank(claimCache[d]) = 3 /\ Rank(claimWatch[i].object) = 2
          BY <1>0, <2>7, <5>1, <5>2, WatchFacts, RankFacts DEF TypeOK
        <5>4. Rank(claimCache[d]) <= Rank(claimWatch[i].object)
          BY <1>0, <5>2 DEF InformerKnows, CacheInOrder
        <5> QED
          BY <5>3, <5>4
      <4>4. Rank(claimCache[d]) = 0
        BY <1>0, <2>7, <4>2, <4>3, RankFacts DEF TypeOK
      <4> QED
        BY <3>1, <4>4
    <3> QED
      BY <3>2, <3>3
  <2>8. WorkerKnowsNamesakes'
    BY <1>1, <1>2, <2>1, <2>2, <2>6, <2>7 DEF WorkerKnowsNamesakes, Name, Others
  <2> QED
    BY <1>2, <2>5, <2>8 DEF ViewsInvariant
<1> QED
  BY <1>1, <1>3, <1>4 DEF Reconcile, ReconcileClaim, AddFinalizer, Proceed

\* What the deferred patch, or the part of its requests that goes through, makes of the claim
\* it reaches, which may be a later one than the claim in hand: it stays at least as far in its life, the finalizer is only set for a claim
\* that is live, and only taken away from the claim that was released.
LEMMA PatchFacts ==
    ASSUME ViewsInvariant, pc = "PatchClaim", NEW c \in Namesakes, NEW done \in SUBSET Requests
    PROVE  /\ c \in Claims /\ Exists(claim[c])
           /\ Merged(claim[c], done) \in ClaimObject /\ Merged(claim[c], done).phase = claim[c].phase
           /\ Merged(claim[c], done).finalizer /\ ~claim[c].finalizer =>
                 \A d \in Others(c) : ~DeletionSeen(d)
           /\ claim[c].finalizer /\ ~Merged(claim[c], done).finalizer =>
                 c = job.claim /\ job.snap.phase = "deleting" /\ ~job.want.finalizer
<1>0. TypeOK /\ InformerKnows /\ WorkerKnows /\ WorkerKnowsNamesakes
  BY DEF ViewsInvariant
<1>1. /\ job.claim \in Claims /\ job.snap \in ClaimObject /\ job.want \in ClaimObject
      /\ c \in Claims /\ Exists(claim[c]) /\ NameOf[c] = Name
  BY <1>0 DEF TypeOK, Job, Namesakes
<1>2. Merged(claim[c], done) \in ClaimObject
  BY <1>0, <1>1, EndingTypes
<1>3. /\ Merged(claim[c], done).phase = claim[c].phase
      /\ Merged(claim[c], done).finalizer # claim[c].finalizer =>
            job.snap.finalizer # job.want.finalizer /\ Merged(claim[c], done).finalizer = job.want.finalizer
  BY DEF Merged
<1>4. ASSUME Merged(claim[c], done).finalizer, ~claim[c].finalizer, NEW d \in Others(c) PROVE ~DeletionSeen(d)
  <2>1. job.snap.phase = "live"
    BY <1>0, <1>1, <1>3, <1>4 DEF WorkerKnows, Held, Exists
  <2>2. d \in Claims /\ NameOf[d] = Name /\ ~Exists(claim[d])
    BY <1>0, <1>1 DEF Others, InformerKnows, NamesInTurn
  <2> QED
    BY <1>0, <2>1, <2>2 DEF WorkerKnowsNamesakes, Exists
<1>5. ASSUME claim[c].finalizer, ~Merged(claim[c], done).finalizer
      PROVE  c = job.claim /\ job.snap.phase = "deleting" /\ ~job.want.finalizer
  <2>1. ~job.want.finalizer /\ job.snap.phase = "deleting"
    BY <1>0, <1>1, <1>2, <1>3, <1>5 DEF WorkerKnows, ClaimObject
  <2>2. c \notin Others(job.claim)
    BY <1>0, <1>5, <2>1 DEF WorkerKnowsNamesakes
  <2> QED
    BY <1>1, <2>1, <2>2 DEF Others, Name
<1> QED
  BY <1>1, <1>2, <1>3, <1>4, <1>5

\* The write of the deferred patch is sound, whichever of its requests go through.
LEMMA PatchIsSound ==
    ASSUME ViewsInvariant, pc = "PatchClaim", NEW c \in Namesakes, NEW done \in SUBSET Requests
    PROVE  /\ Collected(Merged(claim[c], done)) \in ClaimObject
           /\ SoundWrite(c, Collected(Merged(claim[c], done)))
<1> DEFINE old == claim[c]
           merged == Merged(old, done)
           new == Collected(merged)
<1>0. TypeOK /\ InformerKnows /\ WorkerKnows
  BY DEF ViewsInvariant
<1>1. /\ c \in Claims /\ Exists(old) /\ old \in ClaimObject /\ Held(old)
      /\ merged \in ClaimObject /\ merged.phase = old.phase
      /\ job.claim \in Claims /\ job.snap \in ClaimObject
  BY <1>0, PatchFacts DEF TypeOK, Job, InformerKnows, CopiesTrusted
<1>2. new \in ClaimObject
  BY <1>0, <1>1, EndingTypes, ObjectTypes
<1>3. new = merged \/ (new = Fresh("gone") /\ old.phase = "deleting" /\ ~merged.finalizer)
  BY <1>1 DEF Collected
<1>4. Rank(old) <= Rank(new) /\ new.phase # "absent" /\ Held(new)
  <2>1. CASE new = merged
    <3>1. Held(merged)
      BY <1>1, <2>1 DEF Held, Collected, Fresh, Exists
    <3>2. Rank(merged) = Rank(old) /\ Rank(old) \in 0..3
      BY <1>1, RankFacts DEF Rank
    <3> QED
      BY <1>1, <2>1, <3>1, <3>2 DEF Exists
  <2>2. CASE new = Fresh("gone")
    <3>1. Rank(new) = 3 /\ Rank(old) \in 0..3
      BY <1>1, <2>2, RankFacts DEF Rank, Fresh
    <3> QED
      BY <2>2, <3>1 DEF Held, Fresh, Exists
  <2> QED
    BY <1>3, <2>1, <2>2
<1>5. new.finalizer => old.finalizer \/ \A d \in Others(c) : ~DeletionSeen(d)
  BY <1>3, PatchFacts DEF Fresh
<1>6. old.finalizer /\ ~new.finalizer => 2 <= Rank(claimCache[c])
  <2>1. SUFFICES ASSUME old.finalizer, ~new.finalizer PROVE 2 <= Rank(claimCache[c])
    OBVIOUS
  <2>2. ~merged.finalizer
    BY <1>3, <2>1
  <2>3. c = job.claim /\ job.snap.phase = "deleting"
    BY <2>1, <2>2, PatchFacts
  <2>4. Rank(job.snap) = 2 /\ Rank(job.snap) <= Rank(claimCache[c]) /\ Rank(claimCache[c]) \in 0..3
    BY <1>0, <1>1, <2>3, RankFacts DEF WorkerKnows, TypeOK
  <2> QED
    BY <2>4
<1>7. SoundWrite(c, new)
  BY <1>1, <1>4, <1>5, <1>6 DEF SoundWrite
<1> QED
  BY <1>2, <1>7

\* The deferred patch.
LEMMA PatchViews ==
    ASSUME ViewsInvariant, TypeOK', PatchClaim
    PROVE  ViewsInvariant'
<1> USE DEF kubernetes, claims, addresses, netbox, external, caches
<1>1. TypeOK /\ InformerKnows /\ pc = "PatchClaim" /\ pc' = "idle" /\ UNCHANGED claimCache
  BY DEF ViewsInvariant, PatchClaim, Finish
<1>2. WorkerKnows' /\ WorkerKnowsNamesakes'
  BY <1>1, IdleKnows
<1>3. InformerKnows'
  <2>1. CASE UNCHANGED claims
    BY <1>1, <2>1, InformerUnmoved
  <2>2. ASSUME NEW c \in Namesakes, NEW done \in SUBSET Requests,
               WriteClaim(c, Collected(Merged(claim[c], done)))
        PROVE  InformerKnows'
    BY <1>1, <2>2, PatchIsSound, PatchFacts, WriteKeepsViews
  <2> QED
    BY <2>1, <2>2 DEF PatchClaim
<1> QED
  BY <1>2, <1>3 DEF ViewsInvariant

(***************************************************************************)
(* Everybody else.                                                         *)
(***************************************************************************)

\* A step that leaves the claims and the caches, and either leaves the worker or ends its
\* reconcile.
LEMMA ApartViews ==
    ASSUME ViewsInvariant, TypeOK', UNCHANGED <<claim, claimWatch, claimCache>>,
           pc' = "idle" \/ UNCHANGED <<pc, job>>
    PROVE  ViewsInvariant'
<1>1. InformerKnows' /\ \A c : DeletionSeen(c)' <=> DeletionSeen(c)
  BY InformerUnmoved DEF ViewsInvariant
<1>2. CASE pc' = "idle"
  BY <1>1, <1>2, IdleKnows DEF ViewsInvariant
<1>3. CASE UNCHANGED <<pc, job>>
  <2>1. WorkerKnows'
    BY <1>3 DEF ViewsInvariant, WorkerKnows, Held, Trusted, Exists, Rank, EnsureCalls, ReleaseCalls,
       ReleaseWindow
  <2>2. WorkerKnowsNamesakes'
    BY <1>1, <1>3 DEF ViewsInvariant, WorkerKnowsNamesakes, Others, Name
  <2> QED
    BY <1>1, <2>1, <2>2 DEF ViewsInvariant
<1> QED
  BY <1>2, <1>3

\* A restart.
LEMMA CrashViews ==
    ASSUME ViewsInvariant, TypeOK', Crash
    PROVE  ViewsInvariant'
BY RestartKeepsViews, IdleKnows DEF ViewsInvariant, Crash, Restart

\* A delivered event, also in the middle of a reconcile.
LEMMA SyncViews ==
    ASSUME ViewsInvariant, TypeOK', SyncClaim
    PROVE  ViewsInvariant'
<1> USE DEF kubernetes, claims, addresses, netbox, external, caches
<1>0. TypeOK /\ InformerKnows /\ WorkerKnows /\ WorkerKnowsNamesakes
  BY DEF ViewsInvariant
<1>1. UNCHANGED <<claim, pc, job>>
  BY DEF SyncClaim
<1>2. InformerKnows'
  BY <1>0, SyncKeepsViews
<1>3. WorkerKnows'
  <2>1. ASSUME pc # "idle" PROVE (Rank(job.snap) <= Rank(claimCache[job.claim]))'
    <3>1. job.claim \in Claims /\ job.snap \in ClaimObject /\ claimCache[job.claim] \in ClaimObject
          /\ claimCache'[job.claim] \in ClaimObject
      BY <1>0, <1>1, <2>1 DEF TypeOK, Job
    <3>2. Rank(job.snap) <= Rank(claimCache[job.claim]) /\ Rank(claimCache[job.claim]) <= Rank(claimCache'[job.claim])
      BY <1>0, <2>1, <3>1, KnownAfterSync DEF WorkerKnows
    <3>3. Rank(job.snap) <= Rank(claimCache'[job.claim])
      BY <3>1, <3>2, RankFacts
    <3> QED
      BY <1>1, <3>3 DEF Rank
  <2> QED
    BY <1>0, <1>1, <2>1 DEF WorkerKnows, Held, Trusted, Exists
<1>4. WorkerKnowsNamesakes'
  BY <1>0, <1>1, KnownAfterSync DEF WorkerKnowsNamesakes, Others, Name
<1> QED
  BY <1>2, <1>3, <1>4 DEF ViewsInvariant

\* Users create a claim under a name that is free, without a finalizer, and delete a claim
\* that is live.
LEMMA UserViews ==
    ASSUME ViewsInvariant, TypeOK', NEW c \in Claims, CreateClaim(c) \/ DeleteClaim(c)
    PROVE  ViewsInvariant'
<1> USE DEF kubernetes, claims, addresses, netbox, external, caches
<1>0. TypeOK /\ InformerKnows /\ WorkerKnows /\ WorkerKnowsNamesakes
      /\ claim[c] \in ClaimObject /\ Held(claim[c])
  BY DEF ViewsInvariant, TypeOK, InformerKnows, CopiesTrusted
<1>1. UNCHANGED <<claimCache, pc, job>>
  BY DEF CreateClaim, DeleteClaim
<1>2. PICK obj \in ClaimObject :
        /\ WriteClaim(c, obj) /\ SoundWrite(c, obj)
        /\ obj.finalizer <=> claim[c].finalizer
        /\ claim[c].phase # "deleting"
  <2>1. CASE CreateClaim(c)
    <3>1. /\ claim[c].phase = "absent" /\ WriteClaim(c, Fresh("live"))
          /\ \A d \in Others(c) : ~Exists(claim[d])
      BY <2>1 DEF CreateClaim, Others
    <3>2. Fresh("live") \in ClaimObject
      BY ObjectTypes
    <3>3. Rank(claim[c]) <= Rank(Fresh("live"))
      BY <3>1 DEF Rank, Fresh
    <3>4. ~claim[c].finalizer
      BY <1>0, <3>1 DEF Held, Exists
    <3>5. SoundWrite(c, Fresh("live"))
      BY <3>1, <3>3, <3>4 DEF SoundWrite, Fresh, Held, Exists
    <3> QED
      BY <3>1, <3>2, <3>4, <3>5 DEF Fresh
  <2>2. CASE DeleteClaim(c)
    <3> DEFINE marked == [claim[c] EXCEPT !.phase = "deleting"]
    <3>1. claim[c].phase = "live" /\ WriteClaim(c, Collected(marked)) /\ Exists(claim[c])
      BY <2>2 DEF DeleteClaim, Exists
    <3>2. marked \in ClaimObject /\ marked.phase = "deleting" /\ marked.finalizer = claim[c].finalizer
      BY <1>0 DEF ClaimObject
    <3>3. Collected(marked) \in ClaimObject
      BY <3>2, ObjectTypes
    <3>4. Rank(claim[c]) <= Rank(Collected(marked))
      BY <3>1, <3>2 DEF Rank, Collected, Fresh
    <3>5. /\ Collected(marked).finalizer <=> claim[c].finalizer
          /\ Collected(marked).phase # "absent" /\ Held(Collected(marked))
      BY <3>2 DEF Collected, Fresh, Held, Exists
    <3>6. SoundWrite(c, Collected(marked))
      BY <3>1, <3>4, <3>5 DEF SoundWrite
    <3> QED
      BY <3>1, <3>3, <3>5, <3>6
  <2> QED
    BY <2>1, <2>2
<1>3. /\ InformerKnows'
      /\ \A d \in Claims : claim'[d] = IF d = c THEN obj ELSE claim[d]
      /\ \A k \in Claims : DeletionSeen(k)' => DeletionSeen(k) \/ (k = c /\ obj.phase = "deleting")
  BY <1>0, <1>1, <1>2, WriteKeepsViews
<1>4. WorkerKnows'
  <2>1. pc # "idle" => job.claim \in Claims
    BY <1>0 DEF TypeOK
  <2> QED
    BY <1>0, <1>1, <1>2, <1>3, <2>1 DEF WorkerKnows, Held, Trusted, Exists, Rank
<1>5. WorkerKnowsNamesakes'
  <2>1. \A d \in Claims : claim'[d].finalizer => claim[d].finalizer
    BY <1>2, <1>3
  <2>2. \A d \in Claims : DeletionSeen(d)' /\ (DeletionSeen(d) => claim[d].phase = "deleting")
                              => claim'[d].phase = "deleting"
    BY <1>2, <1>3
  <2> QED
    BY <1>0, <1>1, <2>1, <2>2 DEF WorkerKnowsNamesakes, Others, Name
<1> QED
  BY <1>3, <1>4, <1>5 DEF ViewsInvariant

\* The initial states satisfy the invariant.
LEMMA InitViews == Init => ViewsInvariant
<1> SUFFICES ASSUME Init PROVE ViewsInvariant
  OBVIOUS
<1>1. TypeOK
  BY InitTypes
<1>2. /\ \A c \in Claims : claim[c] = Fresh("absent") /\ claimCache[c] = Fresh("absent")
      /\ Len(claimWatch) = 0 /\ pc = "idle"
  BY DEF Init
<1>3. CacheInOrder /\ CopiesTrusted
  BY <1>2 DEF CacheInOrder, CopiesTrusted, Held, Trusted, Rank, Fresh
<1>4. NamesInTurn /\ DeletionsBeforeFinalizers
  BY <1>2 DEF NamesInTurn, DeletionsBeforeFinalizers, DeletionSeen, Fresh, Exists
<1>5. WorkerKnows /\ WorkerKnowsNamesakes
  BY <1>2 DEF WorkerKnows, WorkerKnowsNamesakes, EnsureCalls, ReleaseCalls, ReleaseWindow
<1> QED
  BY <1>1, <1>3, <1>4, <1>5 DEF ViewsInvariant, InformerKnows

\* Every step keeps the invariant.
LEMMA NextViews == ViewsInvariant /\ [Next]_vars => ViewsInvariant'
<1> SUFFICES ASSUME ViewsInvariant, [Next]_vars PROVE ViewsInvariant'
  OBVIOUS
<1> USE DEF kubernetes, claims, addresses, netbox, external, caches
<1>1. TypeOK'
  BY NextTypes DEF ViewsInvariant
<1>2. CASE \E n \in Names : Reconcile(n)
  BY <1>1, <1>2, ReconcileViews
<1>3. CASE MidReconcile
  BY <1>1, <1>3, MidReconcileViews
<1>4. CASE PatchClaim
  BY <1>1, <1>4, PatchViews
<1>5. CASE CallFails /\ pc = "PatchClaim"
  <2>1. UNCHANGED <<claim, claimWatch, claimCache>> /\ pc' = "idle"
    BY <1>5 DEF CallFails, Finish
  <2> QED
    BY <1>1, <2>1, ApartViews
<1>6. CASE Crash
  BY <1>1, <1>6, CrashViews
<1>7. CASE SyncClaim
  BY <1>1, <1>7, SyncViews
<1>8. CASE SyncAddress \/ Resync \/ LateAllocation \/ ChangePool \/ ChangeCluster \/ UNCHANGED vars
  <2>1. UNCHANGED <<claim, claimWatch, claimCache, pc, job>>
    BY <1>8 DEF SyncAddress, Resync, LateAllocation, ChangePool, ChangeCluster, vars
  <2> QED
    BY <1>1, <2>1, ApartViews
<1>9. CASE \E c \in Claims : CreateClaim(c) \/ DeleteClaim(c)
  BY <1>1, <1>9, UserViews
<1> QED
  BY <1>2, <1>3, <1>4, <1>5, <1>6, <1>7, <1>8, <1>9 DEF Next, WorkerStep, FaultStep, Environment,
     MidReconcile

\* However late the informer is, whatever fails and whoever has had the name before: what the
\* worker reads of a claim is never wrong about a finalizer it shows on a live claim, and the
\* deferred patch takes a finalizer off only the claim that the worker has released.
THEOREM ViewsInvariantHolds == Spec => []ViewsInvariant
  BY InitViews, NextViews, PTL DEF Spec

=============================================================================
