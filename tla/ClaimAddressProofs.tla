-------------------------- MODULE ClaimAddressProofs --------------------------
(***************************************************************************)
(* The IPAddress objects: AddressInvariant is inductive under              *)
(* AddressFaults, for any names, any pools and any number of the faults it *)
(* admits, late allocations included.                                      *)
(***************************************************************************)
EXTENDS ClaimViewsProofs

(***************************************************************************)
(* The informer of IPAddresses.                                            *)
(***************************************************************************)

\* The pending events are well formed.
LEMMA AddressWatchFacts ==
    ASSUME TypeOK
    PROVE  /\ Len(addressWatch) \in Nat
           /\ \A i \in 1..Len(addressWatch) :
                 addressWatch[i].name \in Names /\ addressWatch[i].object \in AddressObject
           /\ \A n \in Names : \A i \in EventsOf(n) : i \in 1..Len(addressWatch)
<1> DEFINE E == [name : Names, object : AddressObject]
<1>1. addressWatch \in Seq(E)
  BY DEF TypeOK
<1>2. Len(addressWatch) \in Nat /\ \A i \in 1..Len(addressWatch) : addressWatch[i] \in E
  <2> HIDE DEF E
  <2> QED
    BY <1>1
<1> QED
  BY <1>2 DEF EventsOf

\* A write that changes an object adds its event at the end of the watch.
LEMMA AddressWatchAfterWrite ==
    ASSUME TypeOK, NEW n \in Names, NEW obj \in AddressObject, WriteAddress(n, obj),
           obj # ipAddress[n], UNCHANGED addressCache
    PROVE  LET L == Len(addressWatch)
           IN  /\ \A m \in Names : ipAddress'[m] = IF m = n THEN obj ELSE ipAddress[m]
               /\ \A i \in 1..L : addressWatch'[i] = addressWatch[i]
               /\ addressWatch'[L + 1].object = obj
               /\ \A m \in Names : EventsOf(m)' = IF m = n THEN EventsOf(m) \cup {L + 1} ELSE EventsOf(m)
               /\ \A m \in Names : Copies(m)' = IF m = n THEN Copies(m) \cup {obj} ELSE Copies(m)
<1> DEFINE E == [name : Names, object : AddressObject]
           e == [name |-> n, object |-> obj]
           L == Len(addressWatch)
<1>1. addressWatch \in Seq(E) /\ e \in E
  BY DEF TypeOK
<1>2. addressWatch' = Append(addressWatch, e)
  BY DEF WriteAddress
<1>3. /\ L \in Nat /\ Len(addressWatch') = L + 1
      /\ \A i \in 1..L : addressWatch'[i] = addressWatch[i]
      /\ addressWatch'[L + 1] = e
  <2> HIDE DEF E, e
  <2> QED
    BY <1>1, <1>2
<1>4. \A m \in Names : EventsOf(m)' = IF m = n THEN EventsOf(m) \cup {L + 1} ELSE EventsOf(m)
  <2> SUFFICES ASSUME NEW m \in Names
               PROVE  EventsOf(m)' = IF m = n THEN EventsOf(m) \cup {L + 1} ELSE EventsOf(m)
    OBVIOUS
  <2>1. ASSUME NEW i PROVE i \in EventsOf(m)' <=> i \in EventsOf(m) \/ (m = n /\ i = L + 1)
    BY <1>3 DEF EventsOf
  <2>2. ASSUME NEW i PROVE i \in EventsOf(m) => i \in 1..L
    BY DEF EventsOf
  <2> QED
    BY <2>1, <2>2
<1>5. \A m \in Names : Copies(m)' = IF m = n THEN Copies(m) \cup {obj} ELSE Copies(m)
  <2> SUFFICES ASSUME NEW m \in Names
               PROVE  Copies(m)' = IF m = n THEN Copies(m) \cup {obj} ELSE Copies(m)
    OBVIOUS
  <2>1. \A i \in EventsOf(m) : addressWatch'[i] = addressWatch[i]
    BY <1>3 DEF EventsOf
  <2>2. EventsOf(m)' = IF m = n THEN EventsOf(m) \cup {L + 1} ELSE EventsOf(m)
    BY <1>4
  <2> QED
    BY <1>3, <2>1, <2>2 DEF Copies
<1> QED
  BY <1>3, <1>4, <1>5 DEF WriteAddress, TypeOK

\* A delivered event is the first one; the others move up.
LEMMA AddressWatchAfterSync ==
    ASSUME TypeOK, SyncAddress
    PROVE  LET e == addressWatch[1]
           IN  /\ e.name \in Names /\ e.object \in AddressObject /\ 1 \in EventsOf(e.name)
               /\ \A n \in Names : addressCache'[n] = IF n = e.name THEN e.object ELSE addressCache[n]
               /\ \A n \in Names : \A i \in EventsOf(n)' :
                     i \in Nat /\ i + 1 \in EventsOf(n) /\ 1 < i + 1 /\ addressWatch'[i] = addressWatch[i + 1]
               /\ \A n \in Names : \A i \in EventsOf(n) :
                     i \in Nat /\ (i = 1 => n = e.name) /\ (i # 1 => i - 1 \in EventsOf(n)'
                                                /\ addressWatch'[i - 1] = addressWatch[i])
               /\ \A n \in Names : Copies(n)' \subseteq Copies(n)
<1> DEFINE E == [name : Names, object : AddressObject]
           e == addressWatch[1]
<1>1. addressWatch \in Seq(E) /\ addressWatch # <<>> /\ addressWatch' = Tail(addressWatch)
  BY DEF TypeOK, SyncAddress
<1>2. /\ Len(addressWatch) = Len(addressWatch') + 1 /\ Len(addressWatch') \in Nat
      /\ \A i \in 1..Len(addressWatch') : addressWatch'[i] = addressWatch[i + 1]
      /\ Head(addressWatch) = e
  <2> HIDE DEF E
  <2> QED
    BY <1>1
<1>3. 1 \in 1..Len(addressWatch) /\ e.name \in Names /\ e.object \in AddressObject
  <2>1. 1 \in 1..Len(addressWatch)
    BY <1>2
  <2> QED
    BY <2>1, AddressWatchFacts
<1>4. \A n \in Names : addressCache'[n] = IF n = e.name THEN e.object ELSE addressCache[n]
  BY <1>2, <1>3 DEF SyncAddress, TypeOK
<1>5. ASSUME NEW n \in Names, NEW i \in EventsOf(n)'
      PROVE  i \in Nat /\ i + 1 \in EventsOf(n) /\ 1 < i + 1 /\ addressWatch'[i] = addressWatch[i + 1]
  <2>1. i \in 1..Len(addressWatch') /\ addressWatch'[i].name = n
    BY <1>5 DEF EventsOf
  <2> QED
    BY <1>2, <2>1 DEF EventsOf
<1>6. ASSUME NEW n \in Names, NEW i \in EventsOf(n)
      PROVE  /\ i \in Nat /\ (i = 1 => n = e.name)
             /\ i # 1 => i - 1 \in EventsOf(n)' /\ addressWatch'[i - 1] = addressWatch[i]
  <2>1. i \in 1..Len(addressWatch) /\ addressWatch[i].name = n
    BY <1>6 DEF EventsOf
  <2>2. ASSUME i # 1 PROVE i - 1 \in 1..Len(addressWatch') /\ addressWatch'[i - 1] = addressWatch[i]
    <3>1. i - 1 \in 1..Len(addressWatch') /\ (i - 1) + 1 = i
      BY <1>2, <2>1, <2>2
    <3> QED
      BY <1>2, <3>1
  <2> QED
    BY <2>1, <2>2 DEF EventsOf
<1>7. ASSUME NEW n \in Names PROVE Copies(n)' \subseteq Copies(n)
  <2>1. addressCache'[n] \in Copies(n)
    <3>1. 1 \in EventsOf(e.name)
      BY <1>3 DEF EventsOf
    <3> QED
      BY <1>4, <3>1 DEF Copies
  <2>2. \A i \in EventsOf(n)' : addressWatch'[i].object \in Copies(n)
    BY <1>5 DEF Copies
  <2> QED
    BY <2>1, <2>2 DEF Copies
<1>8. 1 \in EventsOf(e.name)
  BY <1>3 DEF EventsOf
<1> QED
  BY <1>3, <1>4, <1>5, <1>6, <1>7, <1>8

\* As long as neither API nor cache nor watch changes the informer's view stays; the claims in
\* the cache may get further in their life.
LEMMA AddressesUnmoved ==
    ASSUME UNCHANGED <<ipAddress, addressCache, addressWatch>>
    PROVE  /\ \A n \in Names : EventsOf(n)' = EventsOf(n) /\ Copies(n)' = Copies(n)
           /\ WatchReachesAPI => WatchReachesAPI'
           /\ DeletionIsLast => DeletionIsLast'
           /\ AddressesInTurn => AddressesInTurn'
           /\ UNCHANGED claimCache /\ CopiesAgree => CopiesAgree'
<1>1. \A n \in Names : EventsOf(n)' = EventsOf(n) /\ Copies(n)' = Copies(n)
  BY DEF EventsOf, Copies
<1>2. WatchReachesAPI => WatchReachesAPI'
  BY <1>1 DEF WatchReachesAPI
<1>3. DeletionIsLast => DeletionIsLast'
  BY <1>1 DEF DeletionIsLast, Found
<1>4. AddressesInTurn => AddressesInTurn'
  BY <1>1 DEF AddressesInTurn, Found
<1>5. UNCHANGED claimCache /\ CopiesAgree => CopiesAgree'
  BY <1>1 DEF CopiesAgree, Found, NotFound, Rank
<1> QED
  BY <1>1, <1>2, <1>3, <1>4, <1>5

\* Copies stay in agreement when there are fewer of them and the claims in the cache get
\* further in their life.
LEMMA FewerCopies ==
    ASSUME TypeOK, TypeOK', CopiesAgree, UNCHANGED ipAddress,
           \A n \in Names : Copies(n)' \subseteq Copies(n),
           \A c \in Claims : Rank(claimCache[c]) <= Rank(claimCache'[c])
    PROVE  CopiesAgree'
<1> SUFFICES ASSUME NEW n \in Names, NEW obj \in Copies(n)', obj # NotFound
             PROVE  /\ Found(obj)
                    /\ Found(ipAddress[n]) => obj.address = ipAddress[n].address
                    /\ ipAddress[n].protected => obj.protected
                    /\ obj.owner \in Claims
                    /\ obj.owner = ipAddress[n].owner \/ 2 <= Rank(claimCache'[obj.owner])
  BY DEF CopiesAgree, Found, NotFound, Rank
<1>1. /\ Found(obj)
      /\ Found(ipAddress[n]) => obj.address = ipAddress[n].address
      /\ ipAddress[n].protected => obj.protected
      /\ obj.owner \in Claims
      /\ obj.owner = ipAddress[n].owner \/ 2 <= Rank(claimCache[obj.owner])
  BY DEF CopiesAgree
<1>2. 2 <= Rank(claimCache[obj.owner]) => 2 <= Rank(claimCache'[obj.owner])
  <2>1. claimCache[obj.owner] \in ClaimObject /\ claimCache'[obj.owner] \in ClaimObject
    BY <1>1 DEF TypeOK
  <2>2. Rank(claimCache[obj.owner]) \in 0..3 /\ Rank(claimCache'[obj.owner]) \in 0..3
    BY <2>1, RankFacts
  <2> QED
    BY <1>1, <2>2
<1> QED
  BY <1>1, <1>2

\* What the program must not do in a write: publish an address that another object has, write
\* where the informer may still have to learn of a deletion, change what is published, or take
\* it away before the cache shows the object and the deletion of its owner.
SoundAddressWrite(n, obj) ==
    /\ Found(obj) => \A m \in Names \ {n} : ipAddress[m].address # obj.address
    /\ \/ /\ ipAddress[n] = NotFound /\ addressCache[n] = NotFound /\ EventsOf(n) = {}
          /\ Found(obj) /\ obj.owner \in Claims
       \/ /\ Found(ipAddress[n]) /\ ipAddress[n].owner \in Claims
          /\ obj = [ipAddress[n] EXCEPT !.protected = FALSE]
       \/ /\ Found(ipAddress[n]) /\ Found(addressCache[n])
          /\ 2 <= Rank(claimCache[ipAddress[n].owner])
          /\ obj = NotFound

\* A sound write keeps what the informer knows.
LEMMA AddressWriteKeepsViews ==
    ASSUME TypeOK, InformerKnowsAddresses, NEW n \in Names, NEW obj \in AddressObject,
           WriteAddress(n, obj), SoundAddressWrite(n, obj), obj # ipAddress[n],
           UNCHANGED <<addressCache, claimCache>>
    PROVE  InformerKnowsAddresses'
<1> DEFINE L == Len(addressWatch)
           new == ipAddress'
<1>0. /\ L \in Nat
      /\ \A m \in Names : new[m] = IF m = n THEN obj ELSE ipAddress[m]
      /\ \A i \in 1..L : addressWatch'[i] = addressWatch[i]
      /\ addressWatch'[L + 1].object = obj
      /\ \A m \in Names : EventsOf(m)' = IF m = n THEN EventsOf(m) \cup {L + 1} ELSE EventsOf(m)
      /\ \A m \in Names : Copies(m)' = IF m = n THEN Copies(m) \cup {obj} ELSE Copies(m)
      /\ \A m \in Names : \A i \in EventsOf(m) : i \in 1..L
  BY AddressWatchFacts, AddressWatchAfterWrite
<1>1. /\ ipAddress[n] \in AddressObject
      /\ WatchReachesAPI /\ DeletionIsLast /\ CopiesAgree /\ AddressesInTurn
  BY DEF TypeOK, InformerKnowsAddresses
<1>2. WatchReachesAPI'
  <2>1. ASSUME NEW m \in Names
        PROVE  \/ EventsOf(m)' = {} /\ addressCache[m] = new[m]
               \/ \E i \in EventsOf(m)' : /\ addressWatch'[i].object = new[m]
                                         /\ \A j \in EventsOf(m)' : j <= i
    <3>1. CASE m = n
      <4>1. L + 1 \in EventsOf(n)' /\ \A j \in EventsOf(n)' : j <= L + 1
        BY <1>0
      <4> QED
        BY <1>0, <3>1, <4>1
    <3>2. CASE m # n
      <4>1. \/ EventsOf(m) = {} /\ addressCache[m] = ipAddress[m]
            \/ \E i \in EventsOf(m) : /\ addressWatch[i].object = ipAddress[m]
                                     /\ \A j \in EventsOf(m) : j <= i
        BY <1>1 DEF WatchReachesAPI
      <4>2. \A i \in EventsOf(m) : addressWatch'[i] = addressWatch[i]
        BY <1>0
      <4> QED
        BY <1>0, <3>2, <4>1, <4>2
    <3> QED
      BY <3>1, <3>2
  <2> QED
    BY <2>1 DEF WatchReachesAPI
<1>3. DeletionIsLast'
  <2>1. ASSUME NEW m \in Names, NEW i \in EventsOf(m)', ~Found(addressWatch'[i].object)
        PROVE  ~Found(new[m]) /\ Found(addressCache[m]) /\ \A j \in EventsOf(m)' : j <= i
    <3>1. ASSUME i \in EventsOf(m)
          PROVE  /\ ~Found(ipAddress[m]) /\ Found(addressCache[m])
                 /\ \A j \in EventsOf(m) : j <= i
      BY <1>0, <1>1, <2>1, <3>1 DEF DeletionIsLast
    <3>2. CASE m # n
      BY <1>0, <3>1, <3>2
    <3>3. CASE m = n /\ i = L + 1
      <4>1. ~Found(obj)
        BY <1>0, <2>1, <3>3
      <4>2. Found(addressCache[n])
        BY <1>1, <4>1 DEF SoundAddressWrite, Found, AddressObject
      <4> QED
        BY <1>0, <3>3, <4>1, <4>2
    <3>4. CASE m = n /\ i # L + 1
      <4>1. i \in EventsOf(n) /\ ~Found(ipAddress[n])
        BY <1>0, <2>1, <3>1, <3>4
      <4> QED
        BY <4>1 DEF SoundAddressWrite
    <3> QED
      BY <3>2, <3>3, <3>4
  <2> QED
    BY <2>1 DEF DeletionIsLast, Found
<1>4. CopiesAgree'
  <2> DEFINE Agrees(o, m) == /\ Found(o)
                             /\ Found(new[m]) => o.address = new[m].address
                             /\ new[m].protected => o.protected
                             /\ o.owner \in Claims
                             /\ o.owner = new[m].owner \/ 2 <= Rank(claimCache[o.owner])
  <2>1. ASSUME NEW m \in Names, NEW o \in Copies(m)', o # NotFound PROVE Agrees(o, m)
    <3>1. ASSUME o \in Copies(m)
          PROVE  /\ Found(o)
                 /\ Found(ipAddress[m]) => o.address = ipAddress[m].address
                 /\ ipAddress[m].protected => o.protected
                 /\ o.owner \in Claims
                 /\ o.owner = ipAddress[m].owner \/ 2 <= Rank(claimCache[o.owner])
      BY <1>1, <2>1, <3>1 DEF CopiesAgree
    <3>2. CASE m # n
      BY <1>0, <3>1, <3>2
    <3>3. CASE m = n /\ o = obj
      <4>1. Found(obj) /\ obj.owner \in Claims
        BY <1>1, <2>1, <3>3 DEF SoundAddressWrite, Found, AddressObject
      <4> QED
        BY <1>0, <3>3, <4>1
    <3>4. CASE m = n /\ o # obj
      <4>1. o \in Copies(n) /\ new[n] = obj
        BY <1>0, <2>1, <3>4
      <4>2. CASE addressCache[n] = NotFound /\ EventsOf(n) = {}
        BY <2>1, <4>1, <4>2 DEF Copies
      <4>3. CASE Found(ipAddress[n]) /\ obj = [ipAddress[n] EXCEPT !.protected = FALSE]
        <5>1. obj.owner = ipAddress[n].owner /\ obj.address = ipAddress[n].address /\ ~obj.protected
          BY <1>1, <4>3 DEF AddressObject
        <5> QED
          BY <3>1, <3>4, <4>1, <4>3, <5>1
      <4>4. CASE 2 <= Rank(claimCache[ipAddress[n].owner]) /\ obj = NotFound
        <5>1. ~Found(obj) /\ ~obj.protected
          BY <4>4 DEF NotFound, Found
        <5> QED
          BY <3>1, <3>4, <4>1, <4>4, <5>1
      <4> QED
        BY <4>2, <4>3, <4>4 DEF SoundAddressWrite
    <3> QED
      BY <3>2, <3>3, <3>4
  <2> QED
    BY <2>1 DEF CopiesAgree, Found, NotFound, Rank
<1>5. AddressesInTurn'
  <2>1. ASSUME NEW m \in Names, NEW p \in Names, m # p, NEW i \in EventsOf(m)',
               Found(addressWatch'[i].object),
               \/ addressCache[p].address = addressWatch'[i].object.address
               \/ \E k \in EventsOf(p)' :
                     k < i /\ addressWatch'[k].object.address = addressWatch'[i].object.address
        PROVE  \E j \in EventsOf(p)' : j < i /\ ~Found(addressWatch'[j].object)
    <3>1. \A k \in EventsOf(p)' : k < i => k \in EventsOf(p) /\ k \in 1..L
      BY <1>0
    <3>2. CASE i \in EventsOf(m)
      <4>1. \/ addressCache[p].address = addressWatch[i].object.address
            \/ \E k \in EventsOf(p) :
                  k < i /\ addressWatch[k].object.address = addressWatch[i].object.address
        BY <1>0, <2>1, <3>1, <3>2
      <4>2. \E j \in EventsOf(p) : j < i /\ ~Found(addressWatch[j].object)
        BY <1>0, <1>1, <2>1, <3>2, <4>1 DEF AddressesInTurn
      <4> QED
        BY <1>0, <4>2
    <3>3. CASE m = n /\ i = L + 1
      <4>1. Found(obj) /\ addressWatch'[i].object = obj /\ ipAddress[p].address # obj.address
        BY <1>0, <2>1, <3>3 DEF SoundAddressWrite
      <4>2. PICK o \in Copies(p) : o.address = obj.address
        BY <1>0, <2>1, <3>1, <4>1 DEF Copies
      <4>3. o # NotFound /\ o # ipAddress[p]
        BY <4>1, <4>2 DEF Found, NotFound
      <4>4. ~Found(ipAddress[p])
        BY <1>1, <4>1, <4>2, <4>3 DEF CopiesAgree
      <4>5. ~(EventsOf(p) = {} /\ addressCache[p] = ipAddress[p])
        BY <4>2, <4>3 DEF Copies
      <4>6. PICK j \in EventsOf(p) : addressWatch[j].object = ipAddress[p]
        BY <1>1, <4>5 DEF WatchReachesAPI
      <4>7. j \in EventsOf(p)' /\ j < i /\ ~Found(addressWatch'[j].object)
        BY <1>0, <3>3, <4>4, <4>6
      <4> QED
        BY <4>7
    <3> QED
      BY <1>0, <3>2, <3>3
  <2>2. \A m, p \in Names : m # p /\ Found(addressCache[m]) => addressCache[m].address # addressCache[p].address
    BY <1>1 DEF AddressesInTurn
  <2> QED
    BY <2>1, <2>2 DEF AddressesInTurn, Found
<1> QED
  BY <1>2, <1>3, <1>4, <1>5 DEF InformerKnowsAddresses

\* A delivered event keeps what the informer knows.
LEMMA AddressSyncKeepsViews ==
    ASSUME TypeOK, TypeOK', InformerKnowsAddresses, SyncAddress
    PROVE  InformerKnowsAddresses'
<1> USE DEF kubernetes, claims, addresses, netbox, external, caches
<1> DEFINE e == addressWatch[1]
<1>0. /\ e.name \in Names /\ e.object \in AddressObject /\ 1 \in EventsOf(e.name)
      /\ \A n \in Names : addressCache'[n] = IF n = e.name THEN e.object ELSE addressCache[n]
      /\ \A n \in Names : \A i \in EventsOf(n)' :
            i \in Nat /\ i + 1 \in EventsOf(n) /\ 1 < i + 1 /\ addressWatch'[i] = addressWatch[i + 1]
      /\ \A n \in Names : \A i \in EventsOf(n) :
            i \in Nat /\ (i = 1 => n = e.name) /\ (i # 1 => i - 1 \in EventsOf(n)'
                                       /\ addressWatch'[i - 1] = addressWatch[i])
      /\ \A n \in Names : Copies(n)' \subseteq Copies(n)
      /\ UNCHANGED <<ipAddress, claimCache>>
  BY AddressWatchAfterSync DEF SyncAddress
<1>1. WatchReachesAPI /\ DeletionIsLast /\ CopiesAgree /\ AddressesInTurn
  BY DEF InformerKnowsAddresses
<1>2. WatchReachesAPI'
  <2>1. ASSUME NEW n \in Names
        PROVE  \/ EventsOf(n)' = {} /\ addressCache'[n] = ipAddress[n]
               \/ \E i \in EventsOf(n)' : /\ addressWatch'[i].object = ipAddress[n]
                                         /\ \A j \in EventsOf(n)' : j <= i
    <3>1. CASE EventsOf(n) = {} /\ addressCache[n] = ipAddress[n]
      <4>1. n # e.name /\ EventsOf(n)' = {}
        BY <1>0, <3>1
      <4> QED
        BY <1>0, <3>1, <4>1
    <3>2. ASSUME NEW i \in EventsOf(n), addressWatch[i].object = ipAddress[n], \A j \in EventsOf(n) : j <= i
          PROVE  \/ EventsOf(n)' = {} /\ addressCache'[n] = ipAddress[n]
                 \/ \E k \in EventsOf(n)' : /\ addressWatch'[k].object = ipAddress[n]
                                           /\ \A j \in EventsOf(n)' : j <= k
      <4>1. CASE i = 1
        <5>1. n = e.name /\ EventsOf(n)' = {}
          BY <1>0, <3>2, <4>1
        <5> QED
          BY <1>0, <3>2, <4>1, <5>1
      <4>2. CASE i # 1
        <5>1. i - 1 \in EventsOf(n)' /\ addressWatch'[i - 1].object = ipAddress[n]
          BY <1>0, <3>2, <4>2
        <5>2. \A j \in EventsOf(n)' : j <= i - 1
          BY <1>0, <3>2
        <5> QED
          BY <5>1, <5>2
      <4> QED
        BY <4>1, <4>2
    <3> QED
      BY <1>1, <3>1, <3>2 DEF WatchReachesAPI
  <2> QED
    BY <1>0, <2>1 DEF WatchReachesAPI
<1>3. DeletionIsLast'
  <2>1. ASSUME NEW n \in Names, NEW i \in EventsOf(n)', ~Found(addressWatch'[i].object)
        PROVE  ~Found(ipAddress[n]) /\ Found(addressCache'[n]) /\ \A j \in EventsOf(n)' : j <= i
    <3>1. i \in Nat /\ i + 1 \in EventsOf(n) /\ addressWatch'[i] = addressWatch[i + 1] /\ 1 < i + 1
      BY <1>0
    <3>2. ~Found(ipAddress[n]) /\ Found(addressCache[n]) /\ \A j \in EventsOf(n) : j <= i + 1
      BY <1>1, <2>1, <3>1 DEF DeletionIsLast
    <3>3. n = e.name => Found(e.object)
      BY <1>0, <1>1, <3>1 DEF DeletionIsLast
    <3>4. \A j \in EventsOf(n)' : j <= i
      <4> SUFFICES ASSUME NEW j \in EventsOf(n)' PROVE j <= i
        OBVIOUS
      <4>1. j \in Nat /\ j + 1 <= i + 1
        BY <1>0, <3>2
      <4> QED
        BY <3>1, <4>1
    <3> QED
      BY <1>0, <3>2, <3>3, <3>4
  <2> QED
    BY <1>0, <2>1 DEF DeletionIsLast, Found
<1>4. CopiesAgree'
  <2>1. \A c \in Claims : Rank(claimCache[c]) <= Rank(claimCache'[c])
    <3> SUFFICES ASSUME NEW c \in Claims PROVE Rank(claimCache[c]) <= Rank(claimCache'[c])
      OBVIOUS
    <3>1. claimCache[c] \in ClaimObject /\ claimCache'[c] = claimCache[c]
      BY <1>0 DEF TypeOK
    <3> QED
      BY <3>1, RankFacts
  <2> QED
    BY <1>0, <1>1, <2>1, FewerCopies
<1>5. AddressesInTurn'
  <2>1. ASSUME NEW m \in Names, NEW p \in Names, m # p, Found(addressCache'[m])
        PROVE  addressCache'[m].address # addressCache'[p].address
    <3>0. ASSUME NEW k \in Names, k # e.name, Found(e.object) PROVE addressCache[k].address # e.object.address
      BY <1>0, <1>1, <3>0 DEF AddressesInTurn
    <3>1. CASE m = e.name
      BY <1>0, <2>1, <3>0, <3>1
    <3>2. CASE p = e.name
      BY <1>0, <2>1, <3>0, <3>2 DEF Found
    <3>3. CASE m # e.name /\ p # e.name
      BY <1>0, <1>1, <2>1, <3>3 DEF AddressesInTurn
    <3> QED
      BY <3>1, <3>2, <3>3
  <2>2. ASSUME NEW m \in Names, NEW p \in Names, m # p, NEW i \in EventsOf(m)',
               Found(addressWatch'[i].object),
               \/ addressCache'[p].address = addressWatch'[i].object.address
               \/ \E k \in EventsOf(p)' :
                     k < i /\ addressWatch'[k].object.address = addressWatch'[i].object.address
        PROVE  \E j \in EventsOf(p)' : j < i /\ ~Found(addressWatch'[j].object)
    <3>1. i \in Nat /\ i + 1 \in EventsOf(m) /\ addressWatch'[i] = addressWatch[i + 1] /\ 1 < i + 1
      BY <1>0
    <3>2. ASSUME NEW k \in EventsOf(p)', k < i,
                 addressWatch'[k].object.address = addressWatch'[i].object.address
          PROVE  /\ k + 1 \in EventsOf(p) /\ k + 1 < i + 1 /\ 1 < k + 1
                 /\ addressWatch[k + 1].object.address = addressWatch[i + 1].object.address
      <4>1. k \in Nat /\ k + 1 \in EventsOf(p) /\ 1 < k + 1 /\ addressWatch'[k] = addressWatch[k + 1]
        BY <1>0
      <4> QED
        BY <3>1, <3>2, <4>1
    <3>3. CASE p = e.name /\ e.object.address = addressWatch[i + 1].object.address
      <4>1. \/ addressCache[p].address = addressWatch[i + 1].object.address
            \/ \E k \in EventsOf(p) :
                  k < i + 1 /\ addressWatch[k].object.address = addressWatch[i + 1].object.address
        BY <1>0, <3>1, <3>3
      <4>2. PICK j \in EventsOf(p) : j < i + 1 /\ ~Found(addressWatch[j].object)
        BY <1>1, <2>2, <3>1, <4>1 DEF AddressesInTurn
      <4>3. j # 1
        BY <2>2, <3>1, <3>3, <4>2 DEF Found
      <4> QED
        BY <1>0, <3>1, <4>2, <4>3
    <3>4. CASE ~(p = e.name /\ e.object.address = addressWatch[i + 1].object.address)
      <4>1. \/ p # e.name /\ addressCache[p].address = addressWatch[i + 1].object.address
            \/ \E k \in EventsOf(p)' :
                  k < i /\ addressWatch'[k].object.address = addressWatch'[i].object.address
        BY <1>0, <2>2, <3>1, <3>4
      <4>2. \/ addressCache[p].address = addressWatch[i + 1].object.address
            \/ \E k \in EventsOf(p) :
                  k < i + 1 /\ addressWatch[k].object.address = addressWatch[i + 1].object.address
        BY <3>2, <4>1
      <4>3. PICK j \in EventsOf(p) : j < i + 1 /\ ~Found(addressWatch[j].object)
        BY <1>1, <2>2, <3>1, <4>2 DEF AddressesInTurn
      <4>4. j # 1
        <5>1. SUFFICES ASSUME j = 1 PROVE FALSE
          OBVIOUS
        <5>2. p = e.name /\ \A k \in EventsOf(p) : k <= 1
          BY <1>0, <1>1, <4>3, <5>1 DEF DeletionIsLast
        <5>3. PICK k \in EventsOf(p)' :
                 k < i /\ addressWatch'[k].object.address = addressWatch'[i].object.address
          BY <4>1, <5>2
        <5>4. k \in Nat /\ k + 1 \in EventsOf(p) /\ 1 < k + 1
          BY <1>0, <5>2
        <5> QED
          BY <5>2, <5>4
      <4> QED
        BY <1>0, <3>1, <4>3, <4>4
    <3> QED
      BY <3>3, <3>4
  <2> QED
    BY <2>1, <2>2 DEF AddressesInTurn, Found
<1> QED
  BY <1>2, <1>3, <1>4, <1>5 DEF InformerKnowsAddresses

\* A restart: the cache is as new as the API.
LEMMA AddressRestartKeepsViews ==
    ASSUME TypeOK, ObjectsOwned, PublishedAddressesDiffer, Restart
    PROVE  InformerKnowsAddresses' /\ CreatedIsSeen'
<1>1. UNCHANGED ipAddress /\ addressCache' = ipAddress /\ Len(addressWatch') = 0
  BY DEF Restart
<1>2. \A n \in Names : EventsOf(n)' = {} /\ Copies(n)' = {ipAddress[n]}
  BY <1>1 DEF EventsOf, Copies
<1>3. WatchReachesAPI' /\ DeletionIsLast'
  BY <1>1, <1>2 DEF WatchReachesAPI, DeletionIsLast
<1>4. CopiesAgree'
  BY <1>1, <1>2 DEF CopiesAgree, ObjectsOwned, Found, NotFound
<1>5. AddressesInTurn' /\ CreatedIsSeen'
  BY <1>1, <1>2 DEF AddressesInTurn, CreatedIsSeen, PublishedAddressesDiffer, Found
<1> QED
  BY <1>3, <1>4, <1>5 DEF InformerKnowsAddresses

\* When the informer has nothing to hear of a name its cache shows the object as it is, and an
\* object that the cache does not show, and that no call has just created, does not exist.
LEMMA CacheTells ==
    ASSUME TypeOK, InformerKnowsAddresses, CreatedIsSeen, NEW n \in Names
    PROVE  /\ addressWatch = <<>> => EventsOf(n) = {}
           /\ EventsOf(n) = {} => addressCache[n] = ipAddress[n]
           /\ ~Found(addressCache[n]) /\ ~Hidden(n) =>
                 ~Found(ipAddress[n]) /\ EventsOf(n) = {}
           /\ ~Found(addressCache[n]) /\ Found(ipAddress[n]) => addressWatch # <<>>
<1>1. addressWatch = <<>> => EventsOf(n) = {}
  BY DEF EventsOf
<1>2. WatchReachesAPI /\ DeletionIsLast
  BY DEF InformerKnowsAddresses
<1>3. EventsOf(n) = {} => addressCache[n] = ipAddress[n]
  BY <1>2 DEF WatchReachesAPI
<1>4. ASSUME ~Found(addressCache[n]), ~Hidden(n) PROVE ~Found(ipAddress[n]) /\ EventsOf(n) = {}
  <2>1. ~Found(ipAddress[n])
    BY <1>4 DEF CreatedIsSeen
  <2>2. \A i \in EventsOf(n) : addressWatch[i].object # ipAddress[n]
    BY <1>2, <1>4, <2>1 DEF DeletionIsLast
  <2> QED
    BY <1>2, <2>1, <2>2 DEF WatchReachesAPI
<1> QED
  BY <1>1, <1>3, <1>4

(***************************************************************************)
(* Whose the objects are.                                                  *)
(***************************************************************************)

\* The object of a name belongs to the only claim of that name that has the finalizer; when the
\* worker releases that name, to the claim it releases, whose deletion the cache has seen.
LEMMA OwnerFacts ==
    ASSUME AddressInvariant, NEW n \in Names, ipAddress[n] # NotFound
    PROVE  /\ Found(ipAddress[n]) /\ ipAddress[n].owner \in Claims /\ NameOf[ipAddress[n].owner] = n
           /\ claim[ipAddress[n].owner].finalizer
           /\ \A c \in Claims : NameOf[c] = n /\ Exists(claim[c]) => c = ipAddress[n].owner
           /\ pc # "idle" /\ job.snap.phase = "deleting" /\ Name = n =>
                 ipAddress[n].owner = job.claim
<1> DEFINE o == ipAddress[n].owner
<1>0. /\ TypeOK /\ InformerKnows /\ WorkerKnowsNamesakes
      /\ Found(ipAddress[n]) /\ o \in Claims /\ NameOf[o] = n /\ claim[o].finalizer
  BY DEF AddressInvariant, ViewsInvariant, ObjectsOwned
<1>1. Exists(claim[o]) /\ \A d \in Others(o) : ~Exists(claim[d])
  BY <1>0 DEF InformerKnows, CopiesTrusted, Held, NamesInTurn
<1>2. \A c \in Claims : NameOf[c] = n /\ Exists(claim[c]) => c = o
  BY <1>0, <1>1 DEF Others
<1>3. ASSUME pc # "idle", job.snap.phase = "deleting", Name = n PROVE o = job.claim
  BY <1>0, <1>3 DEF WorkerKnowsNamesakes, Others, Name
<1> QED
  BY <1>0, <1>2, <1>3

\* A claim that the worker releases is on its way out, and the cache has seen it.
LEMMA ReleasedFacts ==
    ASSUME ViewsInvariant, pc # "idle", job.snap.phase = "deleting"
    PROVE  /\ job.claim \in Claims
           /\ 2 <= Rank(claimCache[job.claim])
           /\ claim[job.claim].phase # "live"
<1>1. /\ job.claim \in Claims /\ job.snap \in ClaimObject
      /\ claimCache[job.claim] \in ClaimObject /\ claim[job.claim] \in ClaimObject
  BY DEF ViewsInvariant, TypeOK, Job
<1>2. /\ Rank(job.snap) <= Rank(claimCache[job.claim])
      /\ Rank(claimCache[job.claim]) <= Rank(claim[job.claim])
  BY <1>1 DEF ViewsInvariant, WorkerKnows, InformerKnows, CacheInOrder
<1>3. Rank(job.snap) = 2 /\ Rank(claimCache[job.claim]) \in 0..3 /\ Rank(claim[job.claim]) \in 0..3
  BY <1>1, RankFacts
<1>4. 2 <= Rank(claimCache[job.claim]) /\ Rank(claim[job.claim]) # 1
  BY <1>2, <1>3
<1> QED
  BY <1>1, <1>4, RankFacts

\* A claim that the worker allocates for has the finalizer.
LEMMA ServedFacts ==
    ASSUME ViewsInvariant, pc \in EnsureCalls
    PROVE  job.claim \in Claims /\ job.snap.phase = "live" /\ claim[job.claim].finalizer
BY DEF ViewsInvariant, TypeOK, WorkerKnows, Trusted, EnsureCalls

(***************************************************************************)
(* What stays when the objects stay.                                       *)
(***************************************************************************)

\* Claims keep their finalizers, no record goes, and the worker does not forget in the middle
\* of a release what it has to take away.
LEMMA ObjectsUnmoved ==
    ASSUME AddressInvariant, UNCHANGED ipAddress,
           \A c \in Claims : claim[c].finalizer => claim'[c].finalizer
    PROVE  /\ PublishedAddressesDiffer'
           /\ (pc = "DeleteAddress" => UNCHANGED pc /\ Name' = Name) => ObjectsOwned'
           /\ /\ records \subseteq records'
              /\ pc \in ReleaseWindow =>
                    (pc' \in ReleaseWindow /\ Name' = Name) \/ ~Found(ipAddress[Name])
              => PublishedAddressIsReserved'
           /\ records \subseteq records' /\ UNCHANGED claim => ReadyIsTrue'
<1>1. /\ PublishedAddressesDiffer /\ ObjectsOwned /\ PublishedAddressIsReserved /\ ReadyIsTrue
      /\ TypeOK
  BY DEF AddressInvariant, ViewsInvariant
<1>2. PublishedAddressesDiffer'
  BY <1>1 DEF PublishedAddressesDiffer, Found
<1>3. ASSUME pc = "DeleteAddress" => UNCHANGED pc /\ Name' = Name PROVE ObjectsOwned'
  BY <1>1, <1>3 DEF ObjectsOwned, Found, NotFound
<1>4. ASSUME records \subseteq records' PROVE \A n \in Names : Reserved(ipAddress[n]) => Reserved(ipAddress[n])'
  BY <1>4 DEF Reserved
<1>5. ASSUME records \subseteq records',
             pc \in ReleaseWindow =>
                (pc' \in ReleaseWindow /\ Name' = Name) \/ ~Found(ipAddress[Name])
      PROVE  PublishedAddressIsReserved'
  <2>1. ASSUME NEW n \in Names, Found(ipAddress[n]), ~(pc' \in ReleaseWindow /\ Name' = n)
        PROVE  Reserved(ipAddress[n])'
    BY <1>1, <1>4, <1>5, <2>1 DEF PublishedAddressIsReserved
  <2> QED
    BY <2>1 DEF PublishedAddressIsReserved, Found, ReleaseWindow
<1>6. ASSUME records \subseteq records', UNCHANGED claim PROVE ReadyIsTrue'
  BY <1>1, <1>6 DEF ReadyIsTrue, Reserved
<1> QED
  BY <1>2, <1>3, <1>5, <1>6

\* What is hidden from the worker stays hidden, or is seen by now.
LEMMA SeenUnmoved ==
    ASSUME CreatedIsSeen, UNCHANGED <<ipAddress, addressCache>>,
           \A n \in Names : Found(ipAddress[n]) /\ Hidden(n) =>
               \/ Hidden(n)'
               \/ /\ Found(addressCache[n])
                  /\ \A m \in Names \ {n} : addressCache[m].address # ipAddress[n].address
    PROVE  CreatedIsSeen'
BY DEF CreatedIsSeen, Found

\* An idle worker knows nothing.
LEMMA IdleKnowsNothing ==
    ASSUME pc' = "idle"
    PROVE  WorkerKnowsObject' /\ WorkerKnowsRelease' /\ WorkerKnowsOwner'
BY DEF WorkerKnowsObject, WorkerKnowsRelease, WorkerKnowsOwner, ReportsAddress

\* A worker that stays where it is knows what it knew.
LEMMA WaitingKnows ==
    ASSUME AddressInvariant, UNCHANGED <<ipAddress, pc, job>>, records \subseteq records',
           pc # "idle" => addressCache'[Name] = addressCache[Name] \/ EventsOf(Name) # {},
           pc # "idle" /\ EventsOf(Name) = {} => EventsOf(Name)' = {},
           pc # "idle" => Copies(Name)' \subseteq Copies(Name),
           addressWatch = <<>> => addressWatch' = <<>>,
           \A c \in Claims : claim[c].phase = "deleting" => claim'[c].phase = "deleting"
    PROVE  WorkerKnowsObject' /\ WorkerKnowsRelease' /\ WorkerKnowsOwner'
<1>1. /\ WorkerKnowsObject /\ WorkerKnowsRelease /\ WorkerKnowsOwner
      /\ pc # "idle" => job.claim \in Claims
  BY DEF AddressInvariant, ViewsInvariant, TypeOK
<1>2. Reserved(job.address) => Reserved(job.address)'
  BY DEF Reserved
<1>3. Name' = Name /\ (ReportsAddress' <=> ReportsAddress)
  BY DEF Name, ReportsAddress
<1>4. WorkerKnowsObject'
  BY <1>1, <1>2, <1>3 DEF WorkerKnowsObject, Found, NotFound
<1>5. WorkerKnowsRelease'
  BY <1>1, <1>3 DEF WorkerKnowsRelease, Found
<1>6. WorkerKnowsOwner'
  BY <1>1, <1>3 DEF WorkerKnowsOwner
<1> QED
  BY <1>4, <1>5, <1>6

(***************************************************************************)
(* Everybody but the worker in the middle of a reconcile.                  *)
(***************************************************************************)

\* A step that leaves the objects and what is known of them, and either leaves the worker or
\* ends its reconcile.
LEMMA StandingAddresses ==
    ASSUME AddressInvariant, ViewsInvariant',
           UNCHANGED <<ipAddress, addressCache, addressWatch>>,
           \A c \in Claims : Rank(claimCache[c]) <= Rank(claimCache'[c]),
           \A c \in Claims : claim[c].finalizer => claim'[c].finalizer,
           records \subseteq records', RecordsDiffer', ReadyIsTrue',
           \/ /\ UNCHANGED <<pc, job>>
              /\ \A c \in Claims : claim[c].phase = "deleting" => claim'[c].phase = "deleting"
           \/ pc = "PatchClaim" /\ pc' = "idle"
    PROVE  AddressInvariant'
<1>0. /\ TypeOK /\ TypeOK' /\ InformerKnowsAddresses /\ CreatedIsSeen
      /\ pc # "idle" => Name \in Names
  BY EndingTypes DEF AddressInvariant, ViewsInvariant
<1>1. \A n \in Names : EventsOf(n)' = EventsOf(n) /\ Copies(n)' = Copies(n)
  BY AddressesUnmoved
<1>2. InformerKnowsAddresses'
  BY <1>0, <1>1, AddressesUnmoved, FewerCopies DEF InformerKnowsAddresses
<1>3. CreatedIsSeen'
  <2>1. \A n \in Names : Hidden(n) => Hidden(n)'
    BY DEF Hidden, Name
  <2> QED
    BY <1>0, <2>1, SeenUnmoved
<1>4. PublishedAddressesDiffer' /\ ObjectsOwned' /\ PublishedAddressIsReserved'
  <2>1. pc = "DeleteAddress" => UNCHANGED pc /\ Name' = Name
    BY DEF Name
  <2>2. pc \in ReleaseWindow => pc' \in ReleaseWindow /\ Name' = Name
    BY DEF Name, ReleaseWindow
  <2> QED
    BY <2>1, <2>2, ObjectsUnmoved
<1>5. WorkerKnowsObject' /\ WorkerKnowsRelease' /\ WorkerKnowsOwner'
  <2>1. CASE pc' = "idle"
    BY <2>1, IdleKnowsNothing
  <2>2. CASE UNCHANGED <<pc, job>> /\ pc' # "idle"
    <3>1. /\ addressCache'[Name] = addressCache[Name]
          /\ EventsOf(Name)' = EventsOf(Name)
          /\ Copies(Name)' = Copies(Name)
      <4>1. EventsOf(Name)' = EventsOf(Name)
        BY <2>2 DEF EventsOf, Name
      <4>2. Copies(Name)' = Copies(Name)
        BY <2>2, <4>1 DEF Copies, Name
      <4> QED
        BY <4>1, <4>2
    <3>2. \A c \in Claims : claim[c].phase = "deleting" => claim'[c].phase = "deleting"
      BY <2>2
    <3> QED
      BY <2>2, <3>1, <3>2, WaitingKnows
  <2> QED
    BY <2>1, <2>2
<1> QED
  BY <1>2, <1>3, <1>4, <1>5 DEF AddressInvariant

\* A delivered event of an IPAddress.
LEMMA SyncAddresses ==
    ASSUME AddressInvariant, ViewsInvariant', SyncAddress
    PROVE  AddressInvariant'
<1> USE DEF kubernetes, claims, addresses, netbox, external, caches
<1> DEFINE e == addressWatch[1]
<1>0. /\ TypeOK /\ TypeOK' /\ InformerKnowsAddresses /\ CreatedIsSeen /\ PublishedAddressesDiffer
      /\ UNCHANGED <<ipAddress, claim, claimCache, records, pc, job>>
      /\ addressWatch # <<>>
  BY DEF AddressInvariant, ViewsInvariant, SyncAddress
<1>1. /\ e.name \in Names /\ e.object \in AddressObject /\ 1 \in EventsOf(e.name)
      /\ \A n \in Names : addressCache'[n] = IF n = e.name THEN e.object ELSE addressCache[n]
      /\ \A n \in Names : \A i \in EventsOf(n)' : i + 1 \in EventsOf(n)
      /\ \A n \in Names : Copies(n)' \subseteq Copies(n)
  BY <1>0, AddressWatchAfterSync
<1>2. InformerKnowsAddresses'
  BY <1>0, AddressSyncKeepsViews
<1>3. CreatedIsSeen'
  <2>1. ASSUME NEW n \in Names, Found(ipAddress[n]), ~Hidden(n)'
        PROVE  /\ Found(addressCache'[n])
               /\ \A m \in Names \ {n} : addressCache'[m].address # ipAddress[n].address
    <3>1. CASE addressWatch' = <<>>
      <4>1. \A m \in Names : addressCache'[m] = ipAddress[m]
        <5>1. \A m \in Names : EventsOf(m)' = {}
          BY <3>1 DEF EventsOf
        <5> QED
          BY <1>0, <1>2, <5>1 DEF InformerKnowsAddresses, WatchReachesAPI
      <4> QED
        BY <1>0, <2>1, <4>1 DEF PublishedAddressesDiffer
    <3>2. CASE addressWatch' # <<>>
      <4>1. ~Hidden(n)
        BY <1>0, <2>1, <3>2 DEF Hidden, Name
      <4>2. Found(addressCache[n]) /\ \A m \in Names \ {n} : addressCache[m].address # ipAddress[n].address
        BY <1>0, <2>1, <4>1 DEF CreatedIsSeen
      <4>3. addressCache[n].address = ipAddress[n].address
        BY <1>0, <2>1, <4>2 DEF InformerKnowsAddresses, CopiesAgree, Copies, Found, NotFound
      <4>4. CASE n = e.name
        <5>1. Found(e.object)
          BY <1>0, <1>1, <2>1, <4>4 DEF InformerKnowsAddresses, DeletionIsLast
        <5> QED
          BY <1>1, <4>2, <4>4, <5>1
      <4>5. CASE n # e.name
        <5>1. SUFFICES ASSUME e.object.address = ipAddress[n].address PROVE FALSE
          BY <1>1, <4>2, <4>5
        <5>2. Found(e.object) /\ addressCache[n].address = e.object.address
          BY <2>1, <4>3, <5>1 DEF Found
        <5>3. PICK j \in EventsOf(n) : j < 1
          BY <1>0, <1>1, <4>5, <5>2 DEF InformerKnowsAddresses, AddressesInTurn
        <5> QED
          BY <1>0, <5>3, AddressWatchFacts
      <4> QED
        BY <4>4, <4>5
    <3> QED
      BY <3>1, <3>2
  <2> QED
    BY <1>0, <2>1 DEF CreatedIsSeen, Found
<1>4. PublishedAddressesDiffer' /\ ObjectsOwned' /\ PublishedAddressIsReserved' /\ ReadyIsTrue'
  <2>1. pc = "DeleteAddress" => UNCHANGED pc /\ Name' = Name
    BY <1>0 DEF Name
  <2>2. pc \in ReleaseWindow => pc' \in ReleaseWindow /\ Name' = Name
    BY <1>0 DEF Name, ReleaseWindow
  <2> QED
    BY <1>0, <2>1, <2>2, ObjectsUnmoved
<1>5. WorkerKnowsObject' /\ WorkerKnowsRelease' /\ WorkerKnowsOwner'
  <2>1. CASE pc' = "idle"
    BY <2>1, IdleKnowsNothing
  <2>2. CASE pc # "idle"
    <3> DEFINE n == Name
    <3>1. n \in Names
      BY <1>0, <2>2, EndingTypes
    <3>2. addressCache'[Name] = addressCache[Name] \/ EventsOf(Name) # {}
      BY <1>1, <3>1
    <3>3. EventsOf(n)' = EventsOf(Name)' /\ Copies(n)' = Copies(Name)'
      OBVIOUS
    <3>4. ASSUME NEW m \in Names, m = Name, EventsOf(m) = {} PROVE EventsOf(m)' = {}
      BY <1>1, <3>4
    <3>5. ASSUME NEW m \in Names, m = Name
          PROVE  (EventsOf(m)' = {} <=> EventsOf(Name)' = {}) /\ Copies(m)' = Copies(Name)'
      <4>1. Name' = m
        BY <1>0, <3>5 DEF Name
      <4> QED
        BY <4>1 DEF EventsOf, Copies
    <3>6. EventsOf(Name) = {} => EventsOf(Name)' = {}
      BY <3>1, <3>4, <3>5
    <3>7. Copies(Name)' \subseteq Copies(Name)
      BY <1>1, <3>1, <3>5
    <3> QED
      BY <1>0, <2>2, <3>2, <3>6, <3>7, WaitingKnows
  <2> QED
    BY <1>0, <2>1, <2>2
<1>6. RecordsDiffer'
  BY <1>0 DEF AddressInvariant, RecordsDiffer
<1> QED
  BY <1>2, <1>3, <1>4, <1>5, <1>6 DEF AddressInvariant

\* A restart, which AddressFaults keeps out of the middle of a release.
LEMMA CrashAddresses ==
    ASSUME AddressInvariant, ViewsInvariant', AddressFaults, Crash
    PROVE  AddressInvariant'
<1> USE DEF kubernetes, claims, addresses, netbox, external, caches
<1>1. /\ UNCHANGED <<claim, ipAddress, records>> /\ pc' = "idle" /\ pc \notin ReleaseWindow
      /\ TypeOK /\ ObjectsOwned /\ PublishedAddressesDiffer /\ RecordsDiffer
  BY DEF AddressInvariant, ViewsInvariant, Crash, Restart, Fault, AddressFaults
<1>2. InformerKnowsAddresses' /\ CreatedIsSeen'
  BY <1>1, AddressRestartKeepsViews DEF Crash
<1>3. PublishedAddressesDiffer' /\ ObjectsOwned' /\ PublishedAddressIsReserved' /\ ReadyIsTrue'
  <2>1. pc # "DeleteAddress"
    BY <1>1 DEF ReleaseWindow
  <2> QED
    BY <1>1, <2>1, ObjectsUnmoved
<1>4. RecordsDiffer'
  BY <1>1 DEF RecordsDiffer
<1> QED
  BY <1>1, <1>2, <1>3, <1>4, IdleKnowsNothing DEF AddressInvariant

\* NetBox applies a late request with an address that is free.
LEMMA AllocatedDiffers ==
    ASSUME RecordsDiffer, NEW prefix, NEW a \in Available(prefix), NEW c, NEW p,
           records' = records \cup {Marked(c, a, p)}
    PROVE  RecordsDiffer'
BY DEF RecordsDiffer, Available, Marked

LEMMA LateAllocationAddresses ==
    ASSUME AddressInvariant, ViewsInvariant', LateAllocation
    PROVE  AddressInvariant'
<1> USE DEF kubernetes, claims, addresses, netbox, external, caches
<1>1. UNCHANGED <<claim, claimCache, ipAddress, addressCache, addressWatch, pc, job>>
  BY DEF LateAllocation
<1>2. records \subseteq records' /\ RecordsDiffer'
  <2>1. RecordsDiffer
    BY DEF AddressInvariant
  <2>2. PICK p \in posts : \/ \E a \in Available(p.prefix) : records' = records \cup {Marked(p.owner, a, p.pool)}
                           \/ UNCHANGED records
    BY DEF LateAllocation
  <2>3. UNCHANGED records => RecordsDiffer'
    BY <2>1 DEF RecordsDiffer
  <2> QED
    BY <2>1, <2>2, <2>3, AllocatedDiffers
<1>3. ReadyIsTrue'
  BY <1>1, <1>2, ObjectsUnmoved
<1>4. \A c \in Claims : Rank(claimCache[c]) <= Rank(claimCache'[c])
  BY <1>1, RankFacts DEF AddressInvariant, ViewsInvariant, TypeOK
<1> QED
  BY <1>1, <1>2, <1>3, <1>4, StandingAddresses

\* Users create claims without a finalizer or a status, and delete claims.
LEMMA UserAddresses ==
    ASSUME AddressInvariant, ViewsInvariant', NEW c \in Claims, CreateClaim(c) \/ DeleteClaim(c)
    PROVE  AddressInvariant'
<1> USE DEF kubernetes, claims, addresses, netbox, external, caches
<1>0. /\ TypeOK /\ InformerKnows /\ ReadyIsTrue /\ RecordsDiffer
      /\ claim[c] \in ClaimObject /\ Held(claim[c])
  BY DEF AddressInvariant, ViewsInvariant, TypeOK, InformerKnows, CopiesTrusted
<1>1. UNCHANGED <<ipAddress, addressCache, addressWatch, claimCache, records, pc, job>>
  BY DEF CreateClaim, DeleteClaim
<1>2. /\ \A d \in Claims : d # c => claim'[d] = claim[d]
      /\ claim[c].phase # "deleting"
      /\ claim[c].finalizer => claim'[c].finalizer
      /\ claim'[c].phase = "live" => claim'[c].ready # "allocated" /\ ~claim'[c].addressRef
  <2>1. CASE CreateClaim(c)
    BY <1>0, <2>1 DEF CreateClaim, WriteClaim, Fresh, Held, Exists, TypeOK
  <2>2. CASE DeleteClaim(c)
    <3>1. [claim[c] EXCEPT !.phase = "deleting"].finalizer = claim[c].finalizer
          /\ [claim[c] EXCEPT !.phase = "deleting"].phase = "deleting"
      BY <1>0 DEF ClaimObject
    <3> QED
      BY <1>0, <2>2, <3>1 DEF DeleteClaim, WriteClaim, Collected, Fresh, TypeOK
  <2> QED
    BY <2>1, <2>2
<1>3. ReadyIsTrue'
  BY <1>0, <1>1, <1>2 DEF ReadyIsTrue, Reserved
<1>4. RecordsDiffer'
  BY <1>0, <1>1 DEF RecordsDiffer
<1>5. \A d \in Claims : Rank(claimCache[d]) <= Rank(claimCache'[d])
  BY <1>0, <1>1, RankFacts DEF TypeOK
<1> QED
  BY <1>1, <1>2, <1>3, <1>4, <1>5, StandingAddresses

\* The deferred patch reports only an address that the claim has, and takes the finalizer off
\* only when the claim has none.
LEMMA PatchAddresses ==
    ASSUME AddressInvariant, ViewsInvariant', PatchClaim
    PROVE  AddressInvariant'
<1> USE DEF kubernetes, claims, addresses, netbox, external, caches
<1>0. /\ ViewsInvariant /\ TypeOK /\ ReadyIsTrue /\ RecordsDiffer /\ PublishedAddressIsReserved
      /\ WorkerKnowsObject /\ WorkerKnowsRelease
      /\ pc = "PatchClaim" /\ job.claim \in Claims /\ job.snap \in ClaimObject /\ job.want \in ClaimObject
      /\ Name \in Names
  BY EndingTypes DEF AddressInvariant, ViewsInvariant, PatchClaim, TypeOK, Job
<1>1. pc' = "idle" /\ UNCHANGED <<ipAddress, addressCache, addressWatch, claimCache, records>>
  BY DEF PatchClaim, Finish
<1>2. RecordsDiffer' /\ records \subseteq records'
  BY <1>0, <1>1 DEF RecordsDiffer
<1>3. \A d \in Claims : Rank(claimCache[d]) <= Rank(claimCache'[d])
  BY <1>0, <1>1, RankFacts DEF TypeOK
<1>4. ~(pc = "DeleteAddress") /\ ~(pc \in ReleaseWindow)
  BY <1>0 DEF ReleaseWindow
\* The claim that is written, and what it looked like before.
<1>5. ASSUME NEW c \in Namesakes, NEW done \in SUBSET Requests,
             NEW obj \in ClaimObject, WriteClaim(c, obj),
             claim[c].finalizer /\ ~obj.finalizer => ~Merged(claim[c], done).finalizer,
             obj.phase = "live" => claim[c].phase = "live",
             obj.phase = "live" /\ obj.ready = "allocated" =>
                claim[c].ready = "allocated" \/ ReportsAddress,
             obj.phase = "live" /\ obj.addressRef => claim[c].addressRef \/ ReportsAddress
      PROVE  AddressInvariant'
  <2>1. c \in Claims /\ NameOf[c] = Name /\ Exists(claim[c])
    BY <1>0, PatchFacts DEF Namesakes
  <2>2. \A d \in Claims : claim'[d] = IF d = c THEN obj ELSE claim[d]
    BY <1>0, <1>5, <2>1 DEF WriteClaim, TypeOK
  <2>3. ASSUME claim[c].finalizer, ~obj.finalizer PROVE \A n \in Names : Found(ipAddress[n]) => ipAddress[n].owner # c
    <3>1. c = job.claim /\ ~job.want.finalizer
      BY <1>0, <1>5, <2>3, PatchFacts
    <3>2. ~Found(ipAddress[Name])
      BY <1>0, <3>1 DEF WorkerKnowsRelease
    <3> QED
      BY <2>1, <3>2, OwnerFacts DEF Found, NotFound
  <2>4. ASSUME obj.phase = "live", obj.ready = "allocated" \/ obj.addressRef
        PROVE  ipAddress[Name].owner = c /\ Reserved(ipAddress[Name])
    <3>1. CASE claim[c].ready = "allocated" \/ claim[c].addressRef
      BY <1>0, <1>5, <2>1, <2>4, <3>1 DEF ReadyIsTrue
    <3>2. CASE ReportsAddress
      <4>1. ipAddress[Name].owner = job.claim /\ ipAddress[Name] # NotFound
        BY <1>0, <3>2, NoClaimAssumption DEF WorkerKnowsObject, NotFound
      <4>2. Found(ipAddress[Name]) /\ ipAddress[Name].owner = c
        BY <1>0, <2>1, <4>1, OwnerFacts
      <4> QED
        BY <1>0, <1>4, <4>2 DEF PublishedAddressIsReserved
    <3> QED
      BY <1>5, <2>4, <3>1, <3>2
  <2>5. ReadyIsTrue'
    <3>1. ASSUME NEW d \in Claims, claim'[d].phase = "live",
                 claim'[d].ready = "allocated" \/ claim'[d].addressRef
          PROVE  ipAddress[NameOf[d]].owner = d /\ Reserved(ipAddress[NameOf[d]])
      BY <1>0, <2>1, <2>2, <2>4, <3>1 DEF ReadyIsTrue
    <3> QED
      BY <1>1, <3>1 DEF ReadyIsTrue, Reserved
  <2>6. ASSUME NEW n \in Names, Found(ipAddress[n]) PROVE claim'[ipAddress[n].owner].finalizer
    <3>1. ipAddress[n].owner \in Claims /\ claim[ipAddress[n].owner].finalizer
      BY <2>6, OwnerFacts DEF Found, NotFound
    <3> QED
      BY <2>2, <2>3, <2>6, <3>1
  <2>7. InformerKnowsAddresses' /\ CreatedIsSeen'
    <3>1. InformerKnowsAddresses /\ CreatedIsSeen
      BY DEF AddressInvariant
    <3>2. \A n \in Names : Hidden(n) => Hidden(n)'
      BY <1>0, <1>1 DEF Hidden
    <3> QED
      BY <1>1, <3>1, <3>2, AddressesUnmoved, SeenUnmoved DEF InformerKnowsAddresses
  <2>8. ObjectsOwned'
    BY <1>0, <1>1, <2>6 DEF AddressInvariant, ObjectsOwned, Found, NotFound
  <2>9. PublishedAddressesDiffer' /\ PublishedAddressIsReserved'
    BY <1>0, <1>1, <1>4 DEF AddressInvariant, PublishedAddressesDiffer, PublishedAddressIsReserved,
       Reserved, Found, ReleaseWindow
  <2> QED
    BY <1>1, <1>2, <2>5, <2>7, <2>8, <2>9, IdleKnowsNothing DEF AddressInvariant
<1>6. CASE UNCHANGED claims
  <2>1. ReadyIsTrue'
    BY <1>0, <1>1, <1>6 DEF ReadyIsTrue, Reserved
  <2> QED
    BY <1>0, <1>1, <1>2, <1>3, <1>6, <2>1, StandingAddresses
<1>7. ASSUME NEW c \in Namesakes, NEW done \in SUBSET Requests,
             WriteClaim(c, Collected(Merged(claim[c], done)))
      PROVE  AddressInvariant'
  <2> DEFINE merged == Merged(claim[c], done)
             new == Collected(merged)
  <2>1. /\ c \in Claims /\ claim[c] \in ClaimObject /\ new \in ClaimObject
        /\ merged.phase = claim[c].phase /\ merged \in ClaimObject
    BY <1>0, PatchIsSound, PatchFacts DEF TypeOK
  <2>2. /\ merged.ready = "allocated" => claim[c].ready = "allocated" \/ ReportsAddress
        /\ merged.addressRef => claim[c].addressRef \/ ReportsAddress
    BY <1>0, <2>1 DEF Merged, ReportsAddress, ClaimObject
  <2>3. /\ new.finalizer <=> merged.finalizer
        /\ new.phase = "live" => new = merged
    BY DEF Collected, Fresh
  <2> HIDE DEF new, merged
  <2> QED
    BY <1>5, <1>7, <2>1, <2>2, <2>3 DEF new, merged
<1> QED
  BY <1>6, <1>7 DEF PatchClaim

\* A reconcile starts on the cached copy of a claim.
LEMMA ReconcileAddresses ==
    ASSUME AddressInvariant, ViewsInvariant', NEW n \in Names, Reconcile(n)
    PROVE  AddressInvariant'
<1> USE DEF kubernetes, claims, addresses, netbox, external, caches
<1>0. /\ TypeOK /\ InformerKnows /\ InformerKnowsAddresses /\ CreatedIsSeen /\ ReadyIsTrue /\ RecordsDiffer
      /\ UNCHANGED <<ipAddress, addressCache, addressWatch, claim, claimCache, records>>
      /\ pc = "idle" /\ LagIsBounded
  BY DEF AddressInvariant, ViewsInvariant, Reconcile
<1>1. /\ ReadyIsTrue' /\ RecordsDiffer'
      /\ \A c \in Claims : Rank(claimCache[c]) <= Rank(claimCache'[c])
  BY <1>0, RankFacts, ObjectsUnmoved DEF RecordsDiffer, TypeOK
<1>2. CASE UNCHANGED <<pc, job>>
  BY <1>0, <1>1, <1>2, StandingAddresses
<1>3. ASSUME NEW c \in Cached(n), ReconcileClaim(c), ~UNCHANGED <<pc, job>> PROVE AddressInvariant'
  <2>1. c \in Claims /\ NameOf[c] = n /\ claimCache[c] \in ClaimObject /\ Exists(claimCache[c])
    BY <1>0 DEF TypeOK, Cached
  <2>2. /\ job'.claim = c /\ job'.snap = claimCache[c] /\ job'.want.finalizer
        /\ job'.want.ready = claimCache[c].ready /\ job'.want.addressRef = claimCache[c].addressRef
        /\ pc' = "PatchClaim" \/ (pc' = "FetchPool" /\ job'.want = claimCache[c])
    <3> DEFINE marked == [Read(c) EXCEPT !.want.finalizer = TRUE]
    <3>1. /\ Read(c).claim = c /\ Read(c).snap = claimCache[c] /\ Read(c).want = claimCache[c]
          /\ Read(c) \in Job
          /\ marked.claim = c /\ marked.snap = claimCache[c] /\ marked.want.finalizer
      BY <1>0, <2>1, ReadFacts
    <3>2. marked.want.ready = claimCache[c].ready /\ marked.want.addressRef = claimCache[c].addressRef
      BY <2>1, <3>1 DEF Job, ClaimObject
    <3>3. \/ pc' = "PatchClaim" /\ job' = marked
          \/ pc' = "FetchPool" /\ job' = Read(c) /\ claimCache[c].finalizer
      BY <1>3 DEF ReconcileClaim, AddFinalizer, Proceed
    <3> QED
      BY <3>1, <3>2, <3>3
  <2>3. MaxLag = 0 => addressWatch = <<>> /\ Len(claimWatch) = 0
    <3> DEFINE E == [name : Names, object : AddressObject]
    <3>1. addressWatch \in Seq(E) /\ (MaxLag = 0 => Len(addressWatch) = 0)
      BY <1>0, AddressWatchFacts DEF TypeOK, LagIsBounded
    <3>2. Len(addressWatch) = 0 => addressWatch = <<>>
      <4> HIDE DEF E
      <4> QED
        BY <3>1
    <3> QED
      BY <1>0, <3>1, <3>2, WatchFacts DEF LagIsBounded
  <2>4. InformerKnowsAddresses' /\ \A m \in Names : EventsOf(m)' = EventsOf(m) /\ Copies(m)' = Copies(m)
    BY <1>0, AddressesUnmoved DEF InformerKnowsAddresses
  <2>5. CreatedIsSeen'
    <3>1. \A m \in Names : Hidden(m) => Hidden(m)'
      BY <1>0, <2>2, <2>3 DEF Hidden
    <3> QED
      BY <1>0, <3>1, SeenUnmoved
  <2>6. PublishedAddressesDiffer' /\ ObjectsOwned' /\ PublishedAddressIsReserved'
    <3>1. pc # "DeleteAddress" /\ pc \notin ReleaseWindow
      BY <1>0 DEF ReleaseWindow
    <3> QED
      BY <1>0, <3>1, ObjectsUnmoved
  <2>7. WorkerKnowsObject'
    <3>1. Name' = n /\ ~ReportsAddress'
      BY <2>1, <2>2 DEF Name, ReportsAddress
    <3>2. ASSUME NEW obj \in Copies(Name)', obj.owner = c, claimCache[c].phase = "live"
          PROVE  ipAddress[n].owner = c
      <4>1. obj \in Copies(n)
        <5>1. Copies(Name)' = Copies(n)'
          BY <3>1 DEF Copies, EventsOf
        <5> QED
          BY <2>4, <5>1
      <4>2. obj # NotFound
        BY <2>1, <3>2, NoClaimAssumption DEF NotFound
      <4>3. ~(2 <= Rank(claimCache[c]))
        BY <2>1, <3>2, RankFacts
      <4> QED
        BY <1>0, <3>2, <4>1, <4>2, <4>3 DEF InformerKnowsAddresses, CopiesAgree
    <3> QED
      BY <1>0, <2>2, <3>1, <3>2 DEF WorkerKnowsObject
  <2>8. WorkerKnowsRelease'
    BY <2>2 DEF WorkerKnowsRelease
  <2>9. WorkerKnowsOwner'
    <3>1. ASSUME MaxLag = 0, claimCache[c].phase = "deleting" PROVE claim[c].phase = "deleting"
      <4>1. Rank(claimCache[c]) <= Rank(claim[c]) /\ claim[c] \in ClaimObject
        BY <1>0, <2>1 DEF InformerKnows, CacheInOrder, TypeOK
      <4>2. claim[c].phase # "gone"
        BY <1>0, <2>1, <2>3, <3>1 DEF InformerKnows, NamesInTurn, Ended
      <4>3. Rank(claimCache[c]) = 2 /\ Rank(claim[c]) \in 0..3 /\ Rank(claim[c]) # 3
        BY <2>1, <3>1, <4>1, <4>2, RankFacts
      <4>4. Rank(claim[c]) = 2
        BY <4>1, <4>3
      <4> QED
        BY <4>1, <4>4, RankFacts
    <3> QED
      BY <1>0, <2>2, <2>3, <3>1 DEF WorkerKnowsOwner
  <2> QED
    BY <1>1, <2>4, <2>5, <2>6, <2>7, <2>8, <2>9 DEF AddressInvariant
<1> QED
  BY <1>2, <1>3 DEF Reconcile

(***************************************************************************)
(* The worker in the middle of a reconcile.                                *)
(***************************************************************************)

\* What the worker keeps knowing, whatever call it makes.
LEMMA MidKeeps ==
    ASSUME AddressInvariant, MidReconcile
    PROVE  /\ TypeOK /\ pc # "idle" /\ pc # "PatchClaim" /\ pc' # "idle"
           /\ job \in Job /\ job.claim \in Claims /\ Name \in Names /\ Name' = Name
           /\ UNCHANGED <<claim, claimCache, addressCache>>
           /\ job'.claim = job.claim /\ job'.snap = job.snap /\ job.want = job.snap
           /\ pc' # "PatchClaim" => job'.want = job'.snap
           /\ pc' = "PatchClaim" /\ ~job'.want.finalizer => pc \in ReleaseWindow
           /\ \A n \in Names : Hidden(n) => pc = "PollCache" /\ n = Name
<1>1. TypeOK /\ WorkerKnowsObject /\ WorkerKnows
  BY DEF AddressInvariant, ViewsInvariant
<1>2. /\ pc # "idle" /\ pc # "PatchClaim" /\ pc' # "idle" /\ job.claim \in Claims
      /\ UNCHANGED <<claim, claimCache, addressCache>>
      /\ job'.claim = job.claim /\ job'.snap = job.snap
      /\ pc' # "PatchClaim" => job'.want = job.want
      /\ job'.want.finalizer = job.want.finalizer \/ (pc \in ReleaseWindow /\ ~job'.want.finalizer)
  BY <1>1, MidReconcileFacts
<1>3. job.want = job.snap /\ job.want.finalizer
  BY <1>1, <1>2 DEF WorkerKnowsObject, WorkerKnows
<1>4. Name \in Names /\ Name' = Name /\ job \in Job
  BY <1>1, <1>2, EndingTypes DEF Name, TypeOK
<1>5. \A n \in Names : Hidden(n) => pc = "PollCache" /\ n = Name
  BY <1>2 DEF Hidden
<1> QED
  BY <1>1, <1>2, <1>3, <1>4, <1>5

\* And when the call leaves the objects and the pending events alone.
LEMMA QuietKeeps ==
    ASSUME AddressInvariant, MidReconcile, UNCHANGED <<ipAddress, addressWatch>>
    PROVE  /\ EventsOf(Name)' = EventsOf(Name)
           /\ Copies(Name)' = Copies(Name)
           /\ job'.snap.phase = "live" =>
                 \A obj \in Copies(Name)' : obj.owner = job'.claim => ipAddress'[Name].owner = job'.claim
           /\ MaxLag = 0 /\ job'.snap.phase = "deleting" => claim'[job'.claim].phase = "deleting"
<1>1. EventsOf(Name)' = EventsOf(Name) /\ Copies(Name)' = Copies(Name)
  <2>1. EventsOf(Name)' = EventsOf(Name)
    BY MidKeeps DEF EventsOf
  <2> QED
    BY <2>1, MidKeeps DEF Copies
<1>2. WorkerKnowsObject /\ WorkerKnowsOwner
  BY DEF AddressInvariant
<1> QED
  BY <1>1, <1>2, MidKeeps DEF WorkerKnowsObject, WorkerKnowsOwner

\* A call that leaves the objects alone keeps the invariant, if the worker knows what it must
\* afterwards.
LEMMA QuietAddresses ==
    ASSUME AddressInvariant, ViewsInvariant', MidReconcile, UNCHANGED <<ipAddress, addressWatch>>,
           records \subseteq records', RecordsDiffer',
           WorkerKnowsObject', WorkerKnowsRelease', WorkerKnowsOwner',
           pc # "DeleteAddress",
           pc \in ReleaseWindow => pc' \in ReleaseWindow \/ ~Found(ipAddress[Name]),
           pc = "PollCache" => pc' = "PatchClaim" /\ (Found(addressCache[Name]) \/ MaxLag = 0)
    PROVE  AddressInvariant'
<1>0. /\ TypeOK /\ InformerKnowsAddresses /\ CreatedIsSeen
      /\ UNCHANGED <<claim, claimCache, addressCache>> /\ Name' = Name /\ Name \in Names
      /\ \A n \in Names : Hidden(n) => pc = "PollCache" /\ n = Name
  BY MidKeeps DEF AddressInvariant
<1>1. InformerKnowsAddresses'
  BY <1>0, AddressesUnmoved DEF InformerKnowsAddresses
<1>2. PublishedAddressesDiffer' /\ ObjectsOwned' /\ PublishedAddressIsReserved' /\ ReadyIsTrue'
  BY <1>0, ObjectsUnmoved
<1>3. CreatedIsSeen'
  <2>1. ASSUME NEW n \in Names, Found(ipAddress[n]), Hidden(n)
        PROVE  \/ Hidden(n)'
               \/ /\ Found(addressCache[n])
                  /\ \A m \in Names \ {n} : addressCache[m].address # ipAddress[n].address
    <3>1. pc = "PollCache" /\ n = Name /\ pc' = "PatchClaim"
      BY <1>0, <2>1
    <3>2. CASE Found(addressCache[n])
      <4>1. addressCache[n].address = ipAddress[n].address
        BY <1>0, <2>1, <3>2 DEF InformerKnowsAddresses, CopiesAgree, Copies, Found, NotFound
      <4> QED
        BY <1>0, <3>2, <4>1 DEF InformerKnowsAddresses, AddressesInTurn
    <3>3. CASE ~Found(addressCache[n])
      <4>1. MaxLag = 0 /\ addressWatch # <<>>
        BY <1>0, <2>1, <3>1, <3>3, CacheTells
      <4> QED
        BY <3>1, <4>1 DEF Hidden
    <3> QED
      BY <3>2, <3>3
  <2> QED
    BY <1>0, <2>1, SeenUnmoved
<1> QED
  BY <1>1, <1>2, <1>3 DEF AddressInvariant

\* The reconcile ends, without a word of an address unless the wait for the cache was over, and
\* with the finalizer unless the object is gone.
LEMMA EndKnows ==
    ASSUME AddressInvariant, MidReconcile, UNCHANGED <<ipAddress, addressWatch>>,
           pc' = "PatchClaim",
           ReportsAddress' => ipAddress[Name].owner = job.claim,
           pc \in ReleaseWindow => job'.want.finalizer \/ ~Found(ipAddress[Name])
    PROVE  WorkerKnowsObject' /\ WorkerKnowsRelease' /\ WorkerKnowsOwner'
<1>1. WorkerKnowsObject'
  BY MidKeeps, QuietKeeps DEF WorkerKnowsObject
<1>2. WorkerKnowsRelease'
  BY MidKeeps DEF WorkerKnowsRelease, Found
<1>3. WorkerKnowsOwner'
  BY QuietKeeps DEF WorkerKnowsOwner
<1> QED
  BY <1>1, <1>2, <1>3

\* What the ends of a reconcile report.
LEMMA EndFacts ==
    ASSUME AddressInvariant, MidReconcile
    PROVE  /\ \A reason \in ReadyReasons \ {"allocated"} :
                 Return(setClaimReady(reason)) \/ ReturnError(setClaimReady(reason)) =>
                    pc' = "PatchClaim" /\ ~ReportsAddress'
           /\ AllocationFailed \/ ReleaseFailed \/ Return(removeFinalizer) =>
                 pc' = "PatchClaim" /\ ~ReportsAddress'
           /\ ReleaseFailed \/ AllocationFailed => job'.want.finalizer
<1>1. /\ job \in Job /\ job.want \in ClaimObject /\ job.want = job.snap /\ job.want.finalizer
  BY MidKeeps DEF Job, AddressInvariant, ViewsInvariant, WorkerKnows
<1>2. \A reason \in ReadyReasons :
         /\ setClaimReady(reason).ready = reason /\ setClaimReady(reason).finalizer
         /\ setClaimReady(reason).addressRef = job.snap.addressRef
  BY <1>1 DEF setClaimReady, ClaimObject
<1>3. removeFinalizer.ready = job.snap.ready /\ removeFinalizer.addressRef = job.snap.addressRef
  BY <1>1 DEF removeFinalizer, ClaimObject
<1>4. ASSUME NEW want, Return(want) \/ ReturnError(want)
      PROVE  pc' = "PatchClaim" /\ job'.want = want /\ job'.snap = job.snap
  BY <1>1, <1>4 DEF Return, ReturnError, Proceed, Job
<1>5. \A reason \in ReadyReasons \ {"allocated"} :
         Return(setClaimReady(reason)) \/ ReturnError(setClaimReady(reason)) =>
            pc' = "PatchClaim" /\ ~ReportsAddress' /\ job'.want.finalizer
  <2> SUFFICES ASSUME NEW reason \in ReadyReasons \ {"allocated"},
                      Return(setClaimReady(reason)) \/ ReturnError(setClaimReady(reason))
               PROVE  pc' = "PatchClaim" /\ ~ReportsAddress' /\ job'.want.finalizer
    OBVIOUS
  <2>1. pc' = "PatchClaim" /\ job'.want = setClaimReady(reason) /\ job'.snap = job.snap
    BY <1>4
  <2> QED
    BY <1>2, <2>1 DEF ReportsAddress
<1>6. AllocationFailed => pc' = "PatchClaim" /\ ~ReportsAddress' /\ job'.want.finalizer
  BY <1>5 DEF AllocationFailed, ReadyReasons
<1>7. ReleaseFailed => pc' = "PatchClaim" /\ ~ReportsAddress' /\ job'.want.finalizer
  BY <1>1, <1>4 DEF ReleaseFailed, ReportsAddress
<1>8. Return(removeFinalizer) => pc' = "PatchClaim" /\ ~ReportsAddress'
  BY <1>3, <1>4 DEF ReportsAddress
<1> QED
  BY <1>5, <1>6, <1>7, <1>8

\* The reconcile goes on to FetchPool's successors; without up-to-date caches nothing is known
\* of the object yet.
LEMMA FetchPoolAddresses ==
    ASSUME AddressInvariant, ViewsInvariant', FetchPool
    PROVE  AddressInvariant'
<1> USE DEF kubernetes, claims, addresses, netbox, external, caches
<1>1. MidReconcile
  BY DEF MidReconcile, WorkerStep, FetchPool, PatchClaim
<1>2. /\ UNCHANGED <<ipAddress, addressWatch, records>> /\ pc = "FetchPool"
      /\ \/ pc' \in {"DeleteGet", "ReleaseGet", "EnsureGet"}
         \/ pc' = "PatchClaim" /\ Return(setClaimReady("poolNotReady"))
  BY DEF FetchPool, Continue, WithPool, Return, Proceed
<1>3. records \subseteq records' /\ RecordsDiffer' /\ pc \notin ReleaseWindow
  BY <1>2 DEF AddressInvariant, RecordsDiffer, ReleaseWindow
<1>4. WorkerKnowsObject' /\ WorkerKnowsRelease' /\ WorkerKnowsOwner'
  <2>1. CASE pc' = "PatchClaim"
    BY <1>1, <1>2, <1>3, <2>1, EndKnows, EndFacts DEF ReadyReasons
  <2>2. CASE pc' \in {"DeleteGet", "ReleaseGet", "EnsureGet"}
    <3>1. WorkerKnowsObject'
      BY <1>1, <1>2, <2>2, MidKeeps, QuietKeeps DEF WorkerKnowsObject, ReportsAddress
    <3>2. WorkerKnowsRelease'
      BY <2>2 DEF WorkerKnowsRelease
    <3>3. WorkerKnowsOwner'
      <4>1. MaxLag = 0 => addressWatch' = <<>>
        BY <1>2 DEF AddressInvariant, WorkerKnowsOwner
      <4> QED
        BY <1>1, <1>2, <2>2, <4>1, QuietKeeps DEF WorkerKnowsOwner
    <3> QED
      BY <3>1, <3>2, <3>3
  <2> QED
    BY <1>2, <2>1, <2>2
<1> QED
  BY <1>1, <1>2, <1>3, <1>4, QuietAddresses

\* EnsureGet: an object that the cache does not show does not exist, and one that it shows as
\* the claim's own is.
LEMMA EnsureGetAddresses ==
    ASSUME AddressInvariant, ViewsInvariant', EnsureGet
    PROVE  AddressInvariant'
<1> USE DEF kubernetes, claims, addresses, netbox, external, caches
<1>1. MidReconcile
  BY DEF MidReconcile, WorkerStep, EnsureGet, PatchClaim
<1>2. /\ UNCHANGED <<ipAddress, addressWatch, records>> /\ pc = "EnsureGet"
      /\ \/ pc' = "FindByUID" /\ ~Found(addressCache[Name])
         \/ pc' = "PollCache" /\ addressCache[Name].owner = job.claim
         \/ pc' = "PatchAddress"
  BY DEF EnsureGet, Proceed
<1>3. records \subseteq records' /\ RecordsDiffer' /\ pc \notin ReleaseWindow
  BY <1>2 DEF AddressInvariant, RecordsDiffer, ReleaseWindow
<1>4. WorkerKnowsObject'
  <2>1. ASSUME pc' = "FindByUID"
        PROVE  ipAddress'[Name'] = NotFound /\ addressCache'[Name'] = NotFound /\ EventsOf(Name)' = {}
    <3>1. ~Found(ipAddress[Name]) /\ EventsOf(Name) = {} /\ addressCache[Name] = ipAddress[Name]
      BY <1>1, <1>2, <2>1, MidKeeps, CacheTells DEF AddressInvariant
    <3>2. ipAddress[Name] = NotFound
      BY <1>1, <3>1, MidKeeps DEF AddressInvariant, ObjectsOwned
    <3> QED
      BY <1>1, <1>2, <3>1, <3>2, MidKeeps, QuietKeeps
  <2>2. ASSUME pc' = "PollCache" PROVE ipAddress[Name].owner = job.claim
    <3>1. addressCache[Name] \in Copies(Name) /\ job.snap.phase = "live"
      BY <1>2, ServedFacts DEF Copies, AddressInvariant, EnsureCalls
    <3> QED
      BY <1>2, <2>2, <3>1 DEF AddressInvariant, WorkerKnowsObject
  <2> QED
    BY <1>1, <1>2, <2>1, <2>2, MidKeeps, QuietKeeps DEF WorkerKnowsObject, ReportsAddress
<1>5. WorkerKnowsRelease' /\ WorkerKnowsOwner'
  BY <1>1, <1>2, QuietKeeps DEF WorkerKnowsRelease, WorkerKnowsOwner
<1> QED
  BY <1>1, <1>2, <1>3, <1>4, <1>5, QuietAddresses

\* FindByUID and the POSTs: the address in hand is reserved for the claim.
LEMMA AllocateAddresses ==
    ASSUME AddressInvariant, ViewsInvariant',
           FindByUID \/ Allocate \/ NoAvailableIP \/ PoolExhausted \/ AllocateTimesOut
    PROVE  AddressInvariant'
<1> USE DEF kubernetes, claims, addresses, netbox, external, caches
<1>1. MidReconcile
  BY DEF MidReconcile, WorkerStep, FindByUID, Allocate, NoAvailableIP, PoolExhausted, PatchClaim
<1>2. UNCHANGED <<ipAddress, addressWatch>> /\ pc \in {"FindByUID", "Allocate"}
  BY DEF FindByUID, Allocate, NoAvailableIP, PoolExhausted, AllocateTimesOut
<1>3. pc \notin ReleaseWindow
  BY <1>2 DEF ReleaseWindow
<1>4. records \subseteq records' /\ RecordsDiffer'
  <2>1. RecordsDiffer
    BY DEF AddressInvariant
  <2>2. UNCHANGED records \/ Allocate
    BY DEF FindByUID, NoAvailableIP, PoolExhausted, AllocateTimesOut
  <2>3. Allocate => records \subseteq records' /\ RecordsDiffer'
    BY <2>1, AllocatedDiffers DEF Allocate
  <2> QED
    BY <2>1, <2>2, <2>3 DEF RecordsDiffer
<1>5. \/ pc' = "PatchClaim" /\ ~ReportsAddress'
      \/ pc' = "Allocate"
      \/ /\ pc' = "CreateAddress"
         /\ \E r \in records' : r.owner = job.claim /\ r.address \in Addresses /\ job' = InHand(r.address)
  <2>1. CASE FindByUID
    <3>1. \A r \in FoundByUID(job.pool, job.claim) : r.owner = job.claim /\ r.address \in Addresses /\ r \in records
      BY <1>1, MidKeeps DEF FoundByUID, RecordsOf, TypeOK, Record
    <3> QED
      BY <2>1, <3>1 DEF FindByUID, Proceed
  <2>2. CASE Allocate
    <3>1. PICK a \in Available(Prefixes[job.prefix]) :
              /\ records' = records \cup {Marked(job.claim, a, job.pool)}
              /\ Proceed("CreateAddress", InHand(a)) \/ AllocationFailed
      BY <2>2 DEF Allocate
    <3>2. a \in Addresses
      BY <1>1, <2>2, MidKeeps, EndingTypes DEF Allocate, Available
    <3>3. CASE Proceed("CreateAddress", InHand(a))
      <4> DEFINE r == Marked(job.claim, a, job.pool)
      <4>1. r \in records' /\ r.owner = job.claim /\ r.address = a
        BY <3>1 DEF Marked
      <4>2. pc' = "CreateAddress" /\ job' = InHand(r.address)
        BY <3>3, <4>1 DEF Proceed
      <4> QED
        BY <3>2, <4>1, <4>2
    <3>4. CASE AllocationFailed
      BY <1>1, <3>4, EndFacts
    <3> QED
      BY <3>1, <3>3, <3>4
  <2>3. CASE NoAvailableIP
    BY <2>3 DEF NoAvailableIP, Proceed
  <2>4. CASE PoolExhausted \/ AllocateTimesOut
    BY <1>1, <2>4, EndFacts DEF PoolExhausted, AllocateTimesOut, ReadyReasons
  <2> QED
    BY <2>1, <2>2, <2>3, <2>4
<1>6. WorkerKnowsObject' /\ WorkerKnowsRelease' /\ WorkerKnowsOwner'
  <2>1. CASE pc' = "PatchClaim"
    BY <1>1, <1>2, <1>3, <1>5, <2>1, EndKnows
  <2>2. CASE pc' # "PatchClaim"
    <3>1. pc' \in {"Allocate", "CreateAddress"}
      BY <1>5, <2>2
    <3>2. ipAddress'[Name'] = NotFound /\ addressCache'[Name'] = NotFound /\ EventsOf(Name)' = {}
      BY <1>1, <1>2, MidKeeps, QuietKeeps DEF AddressInvariant, WorkerKnowsObject
    <3>3. ASSUME pc' = "CreateAddress"
          PROVE  /\ job'.address.owner = job'.claim /\ Found(job.address)' /\ job'.address.protected
                 /\ Reserved(job.address)'
      <4>1. PICK r \in records' : r.owner = job.claim /\ r.address \in Addresses /\ job' = InHand(r.address)
        BY <1>5, <3>3
      <4>2. job'.address = [owner |-> job.claim, address |-> r.address, protected |-> TRUE]
        BY <1>1, <4>1, MidKeeps DEF InHand, Job
      <4> QED
        BY <1>1, <4>1, <4>2, MidKeeps, NoAddressAssumption DEF Found, Reserved
    <3>4. WorkerKnowsObject'
      BY <1>1, <1>2, <2>2, <3>1, <3>2, <3>3, MidKeeps, QuietKeeps DEF WorkerKnowsObject, ReportsAddress
    <3>5. WorkerKnowsRelease' /\ WorkerKnowsOwner'
      BY <1>1, <1>2, <3>1, QuietKeeps DEF WorkerKnowsRelease, WorkerKnowsOwner
    <3> QED
      BY <3>4, <3>5
  <2> QED
    BY <2>1, <2>2
<1> QED
  BY <1>1, <1>2, <1>3, <1>4, <1>6, QuietAddresses

\* PatchAddress finds the object of the claim as it would make it.
LEMMA PatchAddressIsQuiet ==
    ASSUME AddressInvariant, PatchAddress
    PROVE  /\ UNCHANGED <<ipAddress, addressWatch>>
           /\ Found(ipAddress[Name]) => ipAddress[Name].owner = job.claim
<1> USE DEF kubernetes, claims, addresses, netbox, external, caches
<1>1. MidReconcile
  BY DEF MidReconcile, WorkerStep, PatchAddress, PatchClaim
<1>2. CASE Found(ipAddress[Name])
  <2> DEFINE obj == ipAddress[Name]
             new == [obj EXCEPT !.owner = job.claim, !.protected = @ \/ ~job.address.protected]
  <2>1. WriteAddress(Name, new) /\ pc = "PatchAddress"
    BY <1>2 DEF PatchAddress
  <2>2. claim[job.claim].finalizer /\ job.claim \in Claims
    BY <2>1, ServedFacts DEF AddressInvariant, EnsureCalls
  <2>3. Exists(claim[job.claim]) /\ NameOf[job.claim] = Name
    BY <2>2 DEF AddressInvariant, ViewsInvariant, InformerKnows, CopiesTrusted, Held, Name
  <2>4. obj.owner = job.claim /\ obj # NotFound /\ Name \in Names /\ ipAddress \in [Names -> AddressObject]
    BY <1>1, <1>2, <2>2, <2>3, OwnerFacts, MidKeeps DEF Found, NotFound, TypeOK
  <2>5. obj.protected /\ obj \in AddressObject
    BY <1>1, <2>1, <2>4, MidKeeps DEF AddressInvariant, ObjectsOwned, TypeOK
  <2>6. new = obj
    BY <2>4, <2>5 DEF AddressObject
  <2>7. UNCHANGED <<ipAddress, addressWatch>>
    BY <2>1, <2>4, <2>6 DEF WriteAddress
  <2> QED
    BY <2>4, <2>7
<1>3. CASE ~Found(ipAddress[Name])
  BY <1>3 DEF PatchAddress
<1> QED
  BY <1>2, <1>3

\* PatchAddress goes on to wait for the object, and PollCache ends the wait.
LEMMA PollAddresses ==
    ASSUME AddressInvariant, ViewsInvariant', AddressFaults, PatchAddress \/ PollCache
    PROVE  AddressInvariant'
<1> USE DEF kubernetes, claims, addresses, netbox, external, caches
<1>1. MidReconcile
  BY DEF MidReconcile, WorkerStep, PatchAddress, PollCache, PatchClaim
<1>2. pc \in {"PatchAddress", "PollCache"} /\ UNCHANGED records
  BY DEF PatchAddress, PollCache
<1>3. records \subseteq records' /\ RecordsDiffer' /\ pc \notin ReleaseWindow
  BY <1>2 DEF AddressInvariant, RecordsDiffer, ReleaseWindow
<1>4. UNCHANGED <<ipAddress, addressWatch>> /\ (PatchAddress /\ Found(ipAddress[Name]) => ipAddress[Name].owner = job.claim)
  BY PatchAddressIsQuiet DEF PollCache, PatchAddress
<1>5. CASE PatchAddress
  <2>1. \/ pc' = "PollCache" /\ ipAddress[Name].owner = job.claim
        \/ pc' = "PatchClaim" /\ ~ReportsAddress'
    BY <1>1, <1>4, <1>5, EndFacts DEF PatchAddress, Continue
  <2>2. CASE pc' = "PatchClaim"
    BY <1>1, <1>2, <1>3, <1>4, <2>1, <2>2, EndKnows, QuietAddresses, <1>5 DEF PatchAddress
  <2>3. CASE pc' = "PollCache"
    <3>1. WorkerKnowsObject'
      BY <1>1, <1>4, <2>1, <2>3, MidKeeps, QuietKeeps DEF WorkerKnowsObject, ReportsAddress
    <3>2. WorkerKnowsRelease' /\ WorkerKnowsOwner'
      BY <1>1, <1>4, <2>3, QuietKeeps DEF WorkerKnowsRelease, WorkerKnowsOwner
    <3>3. pc = "PatchAddress"
      BY <1>5 DEF PatchAddress
    <3> QED
      BY <1>1, <1>3, <1>4, <3>1, <3>2, <3>3, QuietAddresses
  <2> QED
    BY <2>1, <2>2, <2>3
<1>6. CASE PollCache
  <2>1. pc = "PollCache" /\ pc' = "PatchClaim"
    BY <1>1, <1>6, EndFacts DEF PollCache, Return, Proceed
  <2>2. Found(addressCache[Name]) \/ MaxLag = 0
    BY <1>6 DEF PollCache, Fault, AddressFaults
  <2>3. ipAddress[Name].owner = job.claim
    BY <2>1 DEF AddressInvariant, WorkerKnowsObject
  <2> QED
    BY <1>1, <1>3, <1>4, <2>1, <2>2, <2>3, EndKnows, QuietAddresses
<1> QED
  BY <1>5, <1>6

\* CreateAddress: the object is new to everybody, and its address is nobody else's.
LEMMA CreateAddresses ==
    ASSUME AddressInvariant, ViewsInvariant', AddressFaults, CreateAddress
    PROVE  AddressInvariant'
<1> USE DEF kubernetes, claims, addresses, netbox, external, caches
<1> DEFINE obj == job.address
<1>1. MidReconcile
  BY DEF MidReconcile, WorkerStep, CreateAddress, PatchClaim
<1>2. /\ pc = "CreateAddress" /\ UNCHANGED <<claim, claimCache, addressCache, records>>
      /\ Name' = Name /\ Name \in Names /\ job.claim \in Claims /\ obj \in AddressObject
      /\ TypeOK /\ InformerKnowsAddresses /\ NameOf[job.claim] = Name
      /\ \A n \in Names : ~Hidden(n)
  BY <1>1, MidKeeps DEF CreateAddress, AddressInvariant, Name, Job
<1>3. /\ ipAddress[Name] = NotFound /\ addressCache[Name] = NotFound /\ EventsOf(Name) = {}
      /\ obj.owner = job.claim /\ Found(obj) /\ obj.protected /\ Reserved(obj)
  BY <1>2 DEF AddressInvariant, WorkerKnowsObject
<1>4. /\ WriteAddress(Name, obj)
      /\ \/ pc' = "PollCache"
         \/ AllocationFailed /\ MaxLag = 0
  BY <1>3 DEF CreateAddress, Continue, Found, NotFound, Fault, AddressFaults
<1>5. ASSUME NEW m \in Names \ {Name} PROVE ipAddress[m].address # obj.address
  <2>1. CASE ipAddress[m] = NotFound
    BY <1>3, <2>1 DEF Found, NotFound
  <2>2. CASE ipAddress[m] # NotFound
    <3>1. Found(ipAddress[m]) /\ ipAddress[m].owner \in Claims /\ NameOf[ipAddress[m].owner] = m
      BY <2>2, OwnerFacts
    <3>2. Reserved(ipAddress[m])
      BY <1>2, <3>1 DEF AddressInvariant, PublishedAddressIsReserved, ReleaseWindow
    <3>3. ipAddress[m].owner # obj.owner
      BY <1>2, <1>3, <3>1
    <3> QED
      BY <1>3, <3>2, <3>3 DEF AddressInvariant, RecordsDiffer, Reserved
  <2> QED
    BY <2>1, <2>2
<1>6. obj # ipAddress[Name] /\ SoundAddressWrite(Name, obj)
  BY <1>2, <1>3, <1>5 DEF SoundAddressWrite, Found, NotFound
<1>7. InformerKnowsAddresses'
  BY <1>2, <1>4, <1>6, AddressWriteKeepsViews
<1>8. /\ \A m \in Names : ipAddress'[m] = IF m = Name THEN obj ELSE ipAddress[m]
      /\ \A m \in Names : m = Name => addressWatch' # <<>>
  <2>1. LET L == Len(addressWatch)
        IN  /\ \A m \in Names : ipAddress'[m] = IF m = Name THEN obj ELSE ipAddress[m]
            /\ \A m \in Names : EventsOf(m)' = IF m = Name THEN EventsOf(m) \cup {L + 1} ELSE EventsOf(m)
    BY <1>2, <1>4, <1>6, AddressWatchAfterWrite
  <2>2. \A m \in Names : m = Name => EventsOf(m)' # {}
    BY <2>1
  <2>3. \A m \in Names : m = Name => addressWatch' # <<>>
    BY <2>2 DEF EventsOf
  <2> QED
    BY <2>1, <2>3
<1>9. CreatedIsSeen'
  <2>1. ASSUME NEW n \in Names, n # Name, Found(ipAddress'[n])
        PROVE  /\ Found(addressCache[n])
               /\ \A m \in Names \ {n} : addressCache[m].address # ipAddress'[n].address
    BY <1>2, <1>8, <2>1 DEF AddressInvariant, CreatedIsSeen
  <2>2. Hidden(Name)'
    <3>1. CASE pc' = "PollCache"
      BY <3>1 DEF Hidden
    <3>2. CASE AllocationFailed /\ MaxLag = 0
      <4>1. pc' = "PatchClaim"
        BY <1>1, <3>2, EndFacts
      <4>2. addressWatch' # <<>>
        BY <1>2, <1>8
      <4> QED
        BY <3>2, <4>1, <4>2 DEF Hidden
    <3> QED
      BY <1>4, <3>1, <3>2
  <2>3. ASSUME NEW n \in Names, n = Name PROVE Hidden(n)'
    BY <1>2, <2>2, <2>3 DEF Hidden, Name
  <2> QED
    BY <1>2, <2>1, <2>3 DEF CreatedIsSeen, Found
<1>10. ObjectsOwned'
  <2>1. claim[job.claim].finalizer
    BY <1>2, ServedFacts DEF AddressInvariant, EnsureCalls
  <2> QED
    BY <1>2, <1>3, <1>8, <2>1 DEF AddressInvariant, ObjectsOwned, Found, NotFound
<1>11. PublishedAddressIsReserved' /\ RecordsDiffer'
  BY <1>2, <1>3, <1>8 DEF AddressInvariant, PublishedAddressIsReserved, RecordsDiffer, Reserved, Found,
     ReleaseWindow
<1>12. PublishedAddressesDiffer'
  BY <1>3, <1>5, <1>8 DEF AddressInvariant, PublishedAddressesDiffer, Found, NotFound
<1>13. ReadyIsTrue'
  <2>1. ASSUME NEW c \in Claims, claim[c].phase = "live", claim[c].ready = "allocated" \/ claim[c].addressRef
        PROVE  /\ NameOf[c] # Name /\ NameOf[c] \in Names
               /\ ipAddress[NameOf[c]].owner = c /\ Reserved(ipAddress[NameOf[c]])
    BY <1>3, <2>1, NoClaimAssumption, NamesAssumption DEF AddressInvariant, ReadyIsTrue, NotFound
  <2> QED
    BY <1>2, <1>8, <2>1 DEF ReadyIsTrue, Reserved
<1>14. WorkerKnowsObject'
  <2>1. ipAddress'[Name'].owner = job'.claim
    BY <1>1, <1>2, <1>3, <1>8, MidKeeps
  <2>2. pc' \in {"PollCache", "PatchClaim"}
    BY <1>1, <1>4, EndFacts
  <2> QED
    BY <1>1, <2>1, <2>2, MidKeeps DEF WorkerKnowsObject
<1>15. WorkerKnowsRelease' /\ WorkerKnowsOwner'
  <2>1. pc' = "PollCache" \/ (pc' = "PatchClaim" /\ job'.want.finalizer)
    BY <1>1, <1>4, EndFacts
  <2>2. MaxLag = 0 /\ job'.snap.phase = "deleting" => claim'[job'.claim].phase = "deleting"
    BY <1>1, <1>2, MidKeeps DEF AddressInvariant, WorkerKnowsOwner
  <2> QED
    BY <2>1, <2>2 DEF WorkerKnowsRelease, WorkerKnowsOwner
<1> QED
  BY <1>7, <1>9, <1>10, <1>11, <1>12, <1>13, <1>14, <1>15 DEF AddressInvariant

\* What a release knows in every call: the object of its name is that of the claim it releases,
\* which is not reported ready any more.
LEMMA ReleasingFacts ==
    ASSUME AddressInvariant, MidReconcile, pc \in ReleaseCalls
    PROVE  /\ job.snap.phase = "deleting"
           /\ ipAddress[Name] # NotFound => ipAddress[Name].owner = job.claim
           /\ 2 <= Rank(claimCache[job.claim])
           /\ \A c \in Claims : ipAddress[NameOf[c]].owner = c /\ claim[c].phase = "live" => NameOf[c] # Name
<1>1. /\ ViewsInvariant /\ pc # "idle" /\ job.snap.phase = "deleting" /\ Name \in Names
  BY MidKeeps DEF AddressInvariant, ViewsInvariant, WorkerKnows
<1>2. ipAddress[Name] # NotFound => ipAddress[Name].owner = job.claim
  BY <1>1, OwnerFacts
<1>3. 2 <= Rank(claimCache[job.claim]) /\ claim[job.claim].phase # "live"
  BY <1>1, ReleasedFacts
<1>4. ASSUME NEW c \in Claims, ipAddress[NameOf[c]].owner = c, claim[c].phase = "live" PROVE NameOf[c] # Name
  <2>1. NameOf[c] = Name => ipAddress[Name] # NotFound
    BY <1>4, NoClaimAssumption DEF NotFound
  <2> QED
    BY <1>2, <1>3, <1>4, <2>1
<1> QED
  BY <1>1, <1>2, <1>3, <1>4

\* ReleaseGet: what the cache shows under the name is nobody else's address, and the object
\* itself when the cache is up to date.
LEMMA ReleaseGetAddresses ==
    ASSUME AddressInvariant, ViewsInvariant', ReleaseGet
    PROVE  AddressInvariant'
<1> USE DEF kubernetes, claims, addresses, netbox, external, caches
<1>1. MidReconcile
  BY DEF MidReconcile, WorkerStep, ReleaseGet, PatchClaim
<1>2. /\ UNCHANGED <<ipAddress, addressWatch, records>> /\ pc = "ReleaseGet" /\ pc' = "ReleaseFind"
      /\ job'.address = addressCache[Name]
  <2>1. job \in Job /\ job' = [job EXCEPT !.address = addressCache[Name]]
    BY <1>1, MidKeeps DEF ReleaseGet, Proceed
  <2> QED
    BY <2>1 DEF ReleaseGet, Proceed, Job
<1>3. records \subseteq records' /\ RecordsDiffer' /\ pc \notin ReleaseWindow
  BY <1>2 DEF AddressInvariant, RecordsDiffer, ReleaseWindow
<1>4. WorkerKnowsObject'
  BY <1>1, <1>2, MidKeeps, QuietKeeps DEF WorkerKnowsObject, ReportsAddress
<1>5. WorkerKnowsRelease'
  <2>1. ASSUME Found(addressCache[Name]), NEW m \in Names \ {Name}
        PROVE  ipAddress[m].address # addressCache[Name].address
    <3>1. CASE Found(ipAddress[m])
      BY <1>1, <1>2, <3>1, MidKeeps DEF AddressInvariant, CreatedIsSeen
    <3>2. CASE ~Found(ipAddress[m])
      BY <2>1, <3>2 DEF Found
    <3> QED
      BY <3>1, <3>2
  <2> QED
    BY <1>1, <1>2, <2>1, MidKeeps DEF WorkerKnowsRelease, Found
<1>6. WorkerKnowsOwner'
  <2>1. MaxLag = 0 => addressCache[Name] = ipAddress[Name]
    BY <1>1, <1>2, MidKeeps, CacheTells DEF AddressInvariant, WorkerKnowsOwner
  <2> QED
    BY <1>1, <1>2, <2>1, MidKeeps, QuietKeeps DEF WorkerKnowsOwner
<1> QED
  BY <1>1, <1>2, <1>3, <1>4, <1>5, <1>6, QuietAddresses

\* The lookups before the DELETE: the record that is found is not the one that another object
\* publishes, and the claim's own when the object in hand is the claim's.
LEMMA ReleaseFindAddresses ==
    ASSUME AddressInvariant, ViewsInvariant', ReleaseFind \/ ReleaseFindByAddress
    PROVE  AddressInvariant'
<1> USE DEF kubernetes, claims, addresses, netbox, external, caches
<1>1. MidReconcile
  BY DEF MidReconcile, WorkerStep, ReleaseFind, ReleaseFindByAddress, PatchClaim
<1>2. /\ UNCHANGED <<ipAddress, addressWatch, records>> /\ pc \in {"ReleaseFind", "ReleaseFindByAddress"}
      /\ job \in Job /\ job.claim \in Claims /\ NameOf[job.claim] = Name /\ Name \in Names
      /\ TypeOK /\ job.snap.phase = "deleting"
  BY <1>1, MidKeeps, ReleasingFacts DEF ReleaseFind, ReleaseFindByAddress, Name, ReleaseCalls
<1>3. records \subseteq records' /\ RecordsDiffer' /\ pc \notin ReleaseWindow
  BY <1>2 DEF AddressInvariant, RecordsDiffer, ReleaseWindow
<1>4. ASSUME NEW r \in records, Proceed("ReleaseDelete", [job EXCEPT !.record = r]),
             \A m \in Names \ {Name} : ipAddress[m].owner = r.owner => ipAddress[m].address # r.address,
             MaxLag = 0 => r.owner = job.claim
      PROVE  AddressInvariant'
  <2>1. pc' = "ReleaseDelete" /\ job'.record = r
    BY <1>2, <1>4 DEF Proceed, Job
  <2>2. WorkerKnowsObject'
    BY <1>1, <1>2, <2>1, MidKeeps, QuietKeeps DEF WorkerKnowsObject, ReportsAddress
  <2>3. WorkerKnowsRelease'
    BY <1>1, <1>2, <1>4, <2>1, MidKeeps DEF WorkerKnowsRelease
  <2>4. WorkerKnowsOwner'
    BY <1>1, <1>2, <1>4, <2>1, MidKeeps, QuietKeeps DEF WorkerKnowsOwner
  <2> QED
    BY <1>1, <1>2, <1>3, <2>2, <2>3, <2>4, QuietAddresses
<1>5. CASE ReleaseFind
  <2>1. ASSUME NEW r \in FoundByUID(job.pool, job.claim), Proceed("ReleaseDelete", [job EXCEPT !.record = r])
        PROVE  AddressInvariant'
    <3>1. r \in records /\ r.owner = job.claim
      BY DEF FoundByUID, RecordsOf
    <3>2. \A m \in Names \ {Name} : ipAddress[m].owner # job.claim
      BY <1>2, OwnerFacts, NoClaimAssumption DEF NotFound
    <3> QED
      BY <1>4, <2>1, <3>1, <3>2
  <2>2. ASSUME Continue(IF Found(job.address) THEN "ReleaseFindByAddress" ELSE "DeleteGet")
        PROVE  AddressInvariant'
    <3>1. UNCHANGED job /\ pc' \in {"ReleaseFindByAddress", "DeleteGet"} /\ pc = "ReleaseFind"
      BY <1>5, <2>2 DEF Continue, ReleaseFind
    <3>2. WorkerKnowsObject'
      BY <1>1, <1>2, <3>1, MidKeeps, QuietKeeps DEF WorkerKnowsObject, ReportsAddress
    <3>3. WorkerKnowsRelease'
      BY <1>1, <1>2, <3>1, MidKeeps DEF AddressInvariant, WorkerKnowsRelease, Found
    <3>4. WorkerKnowsOwner'
      BY <1>1, <1>2, <3>1, MidKeeps, QuietKeeps DEF AddressInvariant, WorkerKnowsOwner
    <3> QED
      BY <1>1, <1>2, <1>3, <3>2, <3>3, <3>4, QuietAddresses
  <2> QED
    BY <1>5, <2>1, <2>2 DEF ReleaseFind
<1>6. CASE ReleaseFindByAddress
  <2>0. pc = "ReleaseFindByAddress"
    BY <1>6 DEF ReleaseFindByAddress
  <2>1. ASSUME NEW r \in FoundByAddress(job.pool, job.address.address),
               Proceed("ReleaseDelete", [job EXCEPT !.record = r])
        PROVE  AddressInvariant'
    <3>1. r \in records /\ r.address = job.address.address /\ Found(job.address)
      BY <1>2, NoAddressAssumption DEF FoundByAddress, Found, TypeOK, Record
    <3>2. \A m \in Names \ {Name} : ipAddress[m].address # r.address
      BY <2>0, <3>1 DEF AddressInvariant, WorkerKnowsRelease
    <3>3. ASSUME MaxLag = 0 PROVE r.owner = job.claim
      <4>1. ipAddress[Name] = job.address /\ Found(ipAddress[Name])
        BY <2>0, <3>1, <3>3 DEF AddressInvariant, WorkerKnowsOwner
      <4>2. PICK s \in records : s.owner = ipAddress[Name].owner /\ s.address = ipAddress[Name].address
        BY <1>2, <1>3, <4>1 DEF AddressInvariant, PublishedAddressIsReserved, Reserved
      <4>3. ipAddress[Name].owner = job.claim
        BY <1>1, <2>0, <4>1, ReleasingFacts DEF ReleaseCalls, Found, NotFound
      <4> QED
        BY <3>1, <4>1, <4>2, <4>3 DEF AddressInvariant, RecordsDiffer
    <3> QED
      BY <1>4, <2>1, <3>1, <3>2, <3>3
  <2>2. ASSUME ReleaseFailed PROVE AddressInvariant'
    BY <1>1, <1>2, <1>3, <2>2, EndFacts, EndKnows, QuietAddresses
  <2> QED
    BY <1>6, <2>1, <2>2 DEF ReleaseFindByAddress
<1> QED
  BY <1>5, <1>6

\* ReleaseDelete: the record that goes is the one of no other object.
LEMMA ReleaseDeleteAddresses ==
    ASSUME AddressInvariant, ViewsInvariant', AddressFaults, ReleaseDelete
    PROVE  AddressInvariant'
<1> USE DEF kubernetes, claims, addresses, netbox, external, caches
<1>1. MidReconcile
  BY DEF MidReconcile, WorkerStep, ReleaseDelete, PatchClaim
<1>2. /\ pc = "ReleaseDelete" /\ pc' = "DeleteGet" /\ records' = records \ {job.record}
      /\ UNCHANGED <<ipAddress, addressWatch, job, claim, claimCache, addressCache>>
      /\ Name' = Name /\ pc \notin ReleaseWindow /\ pc' \in ReleaseWindow
  BY <1>1, MidKeeps DEF ReleaseDelete, Continue, AddressFaults, ReleaseWindow
<1>3. InformerKnowsAddresses' /\ CreatedIsSeen'
  <2>1. \A n \in Names : ~Hidden(n)
    BY <1>1, <1>2, MidKeeps
  <2> QED
    BY <1>2, <2>1, AddressesUnmoved, SeenUnmoved DEF AddressInvariant, InformerKnowsAddresses
<1>4. PublishedAddressesDiffer' /\ ObjectsOwned'
  BY <1>2, ObjectsUnmoved
<1>5. ASSUME NEW n \in Names, n # Name, Found(ipAddress[n]) PROVE Reserved(ipAddress[n])'
  <2>1. PICK r \in records : r.owner = ipAddress[n].owner /\ r.address = ipAddress[n].address
    BY <1>2, <1>5 DEF AddressInvariant, PublishedAddressIsReserved, Reserved
  <2>2. r # job.record
    BY <1>2, <1>5, <2>1 DEF AddressInvariant, WorkerKnowsRelease
  <2> QED
    BY <1>2, <2>1, <2>2 DEF Reserved
<1>6. PublishedAddressIsReserved'
  BY <1>2, <1>5 DEF PublishedAddressIsReserved, Found
<1>7. ReadyIsTrue'
  <2>1. ASSUME NEW c \in Claims, claim[c].phase = "live", claim[c].ready = "allocated" \/ claim[c].addressRef
        PROVE  ipAddress[NameOf[c]].owner = c /\ Reserved(ipAddress[NameOf[c]])'
    <3>1. ipAddress[NameOf[c]].owner = c
      BY <2>1 DEF AddressInvariant, ReadyIsTrue
    <3>2. NameOf[c] \in Names /\ ipAddress[NameOf[c]] # NotFound
      BY <3>1, NamesAssumption, NoClaimAssumption DEF NotFound
    <3>3. Found(ipAddress[NameOf[c]])
      BY <3>2, OwnerFacts
    <3>4. NameOf[c] # Name
      BY <1>1, <1>2, <2>1, <3>1, ReleasingFacts DEF ReleaseCalls
    <3> QED
      BY <1>5, <3>1, <3>2, <3>3, <3>4
  <2> QED
    BY <1>2, <2>1 DEF ReadyIsTrue, Reserved
<1>8. RecordsDiffer'
  BY <1>2 DEF AddressInvariant, RecordsDiffer
<1>9. WorkerKnowsObject' /\ WorkerKnowsRelease' /\ WorkerKnowsOwner'
  BY <1>1, <1>2, MidKeeps, QuietKeeps DEF WorkerKnowsObject, WorkerKnowsRelease, WorkerKnowsOwner, ReportsAddress
<1> QED
  BY <1>3, <1>4, <1>6, <1>7, <1>8, <1>9 DEF AddressInvariant

\* DeleteGet: an object that the cache does not show does not exist, and one that it shows
\* without the finalizer has none.
LEMMA DeleteGetAddresses ==
    ASSUME AddressInvariant, ViewsInvariant', DeleteGet
    PROVE  AddressInvariant'
<1> USE DEF kubernetes, claims, addresses, netbox, external, caches
<1> DEFINE cached == addressCache[Name]
<1>1. MidReconcile
  BY DEF MidReconcile, WorkerStep, DeleteGet, PatchClaim
<1>2. /\ UNCHANGED <<ipAddress, addressWatch, records>> /\ pc = "DeleteGet"
      /\ records \subseteq records' /\ RecordsDiffer'
  BY DEF DeleteGet, AddressInvariant, RecordsDiffer
<1>3. CASE ~Found(cached) /\ Return(removeFinalizer)
  <2>1. ~Found(ipAddress[Name])
    BY <1>1, <1>2, <1>3, MidKeeps, CacheTells DEF AddressInvariant
  <2> QED
    BY <1>1, <1>2, <1>3, <2>1, EndFacts, EndKnows, QuietAddresses
<1>4. CASE Found(cached) /\ Proceed(IF cached.protected THEN "Unprotect" ELSE "DeleteAddress",
                                    [job EXCEPT !.address = cached])
  <2>1. pc' \in ReleaseWindow /\ pc' # "DeleteGet" /\ (pc' = "DeleteAddress" => ~cached.protected)
    BY <1>4 DEF Proceed, ReleaseWindow
  <2>2. pc' = "DeleteAddress" => ~ipAddress[Name].protected
    <3>1. cached \in Copies(Name) /\ cached # NotFound /\ Name \in Names
      BY <1>1, <1>4, MidKeeps DEF Copies, Found, NotFound
    <3> QED
      BY <2>1, <3>1 DEF AddressInvariant, InformerKnowsAddresses, CopiesAgree
  <2>3. WorkerKnowsObject' /\ WorkerKnowsRelease' /\ WorkerKnowsOwner'
    BY <1>1, <1>2, <2>1, <2>2, MidKeeps, QuietKeeps DEF WorkerKnowsObject, WorkerKnowsRelease,
       WorkerKnowsOwner, ReportsAddress, ReleaseWindow
  <2> QED
    BY <1>1, <1>2, <2>1, <2>3, QuietAddresses
<1> QED
  BY <1>3, <1>4 DEF DeleteGet

\* Unprotect: only the finalizer changes.
LEMMA UnprotectAddresses ==
    ASSUME AddressInvariant, ViewsInvariant', AddressFaults, Unprotect
    PROVE  AddressInvariant'
<1> USE DEF kubernetes, claims, addresses, netbox, external, caches
<1> DEFINE obj == [ipAddress[Name] EXCEPT !.protected = FALSE]
<1>1. MidReconcile
  BY DEF MidReconcile, WorkerStep, Unprotect, PatchClaim
<1>2. /\ pc = "Unprotect" /\ pc' = "DeleteAddress" /\ UNCHANGED <<job, records, claim, claimCache, addressCache>>
      /\ WriteAddress(Name, obj)
      /\ Name' = Name /\ Name \in Names /\ TypeOK /\ ipAddress[Name] \in AddressObject
      /\ job.snap.phase = "deleting" /\ InformerKnowsAddresses
  <2>1. pc = "Unprotect"
    BY DEF Unprotect
  <2>2. job.snap.phase = "deleting"
    BY <1>1, <2>1, ReleasingFacts DEF ReleaseCalls, ReleaseWindow
  <2> QED
    BY <1>1, <2>1, <2>2, MidKeeps DEF Unprotect, Continue, Fault, AddressFaults, ReleaseWindow, TypeOK,
       AddressInvariant
<1>3. /\ obj \in AddressObject /\ obj.owner = ipAddress[Name].owner
      /\ obj.address = ipAddress[Name].address /\ ~obj.protected
      /\ ~ipAddress[Name].protected => obj = ipAddress[Name]
      /\ ~NotFound.protected
  <2>1. ~ipAddress[Name].protected => obj = ipAddress[Name]
    BY <1>2 DEF AddressObject
  <2> QED
    BY <1>2, <2>1 DEF AddressObject, NotFound
<1>4. \A n \in Names : /\ ipAddress'[n] = IF n = Name THEN obj ELSE ipAddress[n]
                       /\ ipAddress'[n].owner = ipAddress[n].owner
                       /\ ipAddress'[n].address = ipAddress[n].address
                       /\ (ipAddress'[n] = NotFound <=> ipAddress[n] = NotFound)
  <2>1. \A n \in Names : ipAddress'[n] = IF n = Name THEN obj ELSE ipAddress[n]
    BY <1>2 DEF WriteAddress, TypeOK
  <2>2. obj = NotFound <=> ipAddress[Name] = NotFound
    <3>1. ipAddress[Name] # NotFound => Found(ipAddress[Name])
      BY <1>2, OwnerFacts
    <3>2. ipAddress[Name] = NotFound => obj = NotFound
      BY <1>3
    <3> QED
      BY <1>3, <3>1, <3>2 DEF Found, NotFound
  <2> QED
    BY <1>3, <2>1, <2>2
<1>5. InformerKnowsAddresses'
  <2>1. CASE obj = ipAddress[Name]
    <3>1. UNCHANGED <<ipAddress, addressWatch>>
      BY <1>2, <2>1 DEF WriteAddress, TypeOK
    <3> QED
      BY <1>2, <3>1, AddressesUnmoved DEF InformerKnowsAddresses
  <2>2. CASE obj # ipAddress[Name]
    <3>1. ipAddress[Name] # NotFound
      BY <1>3, <2>2
    <3>2. Found(ipAddress[Name]) /\ ipAddress[Name].owner \in Claims
      BY <1>2, <3>1, OwnerFacts
    <3>3. SoundAddressWrite(Name, obj)
      BY <1>2, <1>3, <3>2 DEF SoundAddressWrite, AddressInvariant, PublishedAddressesDiffer
    <3> HIDE DEF obj
    <3> QED
      BY <1>2, <1>3, <2>2, <3>3, AddressWriteKeepsViews
  <2> QED
    BY <2>1, <2>2
<1>6. CreatedIsSeen'
  <2>1. \A n \in Names : ~Hidden(n)
    BY <1>1, <1>2, MidKeeps
  <2> QED
    BY <1>2, <1>4, <2>1 DEF AddressInvariant, CreatedIsSeen, Found
<1>7. ObjectsOwned'
  BY <1>2, <1>4 DEF AddressInvariant, ObjectsOwned, Found
<1>8. PublishedAddressIsReserved' /\ PublishedAddressesDiffer' /\ RecordsDiffer'
  BY <1>2, <1>4 DEF AddressInvariant, PublishedAddressIsReserved, PublishedAddressesDiffer, RecordsDiffer,
     Reserved, Found, ReleaseWindow
<1>9. ReadyIsTrue'
  BY <1>2, <1>4, NamesAssumption DEF AddressInvariant, ReadyIsTrue, Reserved
<1>10. WorkerKnowsObject'
  BY <1>1, <1>2, MidKeeps DEF WorkerKnowsObject, ReportsAddress
<1>11. WorkerKnowsRelease'
  BY <1>2, <1>3, <1>4 DEF WorkerKnowsRelease
<1>12. WorkerKnowsOwner'
  BY <1>2 DEF AddressInvariant, WorkerKnowsOwner
<1> QED
  BY <1>5, <1>6, <1>7, <1>8, <1>9, <1>10, <1>11, <1>12 DEF AddressInvariant

\* DeleteAddress: the object has no finalizer any more and goes.
LEMMA DeleteAddressAddresses ==
    ASSUME AddressInvariant, ViewsInvariant', AddressFaults, DeleteAddress
    PROVE  AddressInvariant'
<1> USE DEF kubernetes, claims, addresses, netbox, external, caches
<1>1. MidReconcile
  BY DEF MidReconcile, WorkerStep, DeleteAddress, PatchClaim
<1>2. /\ pc = "DeleteAddress" /\ UNCHANGED <<records, claim, claimCache, addressCache>>
      /\ pc' = "PatchClaim" /\ ~ReportsAddress'
      /\ Name' = Name /\ Name \in Names /\ TypeOK /\ NotFound \in AddressObject
      /\ job.snap.phase = "deleting" /\ job'.snap = job.snap /\ job'.claim = job.claim
      /\ InformerKnowsAddresses
  <2>1. pc = "DeleteAddress" /\ Return(removeFinalizer)
    BY DEF DeleteAddress, Fault, AddressFaults, ReleaseWindow
  <2>2. job.snap.phase = "deleting"
    BY <1>1, <2>1, ReleasingFacts DEF ReleaseCalls, ReleaseWindow
  <2> QED
    BY <1>1, <2>1, <2>2, MidKeeps, EndFacts, ObjectTypes DEF DeleteAddress, AddressInvariant
<1>3. WriteAddress(Name, NotFound)
  BY <1>2 DEF DeleteAddress, AddressInvariant, WorkerKnowsRelease
<1>4. \A n \in Names : ipAddress'[n] = IF n = Name THEN NotFound ELSE ipAddress[n]
  BY <1>2, <1>3 DEF WriteAddress, TypeOK
<1>5. \A n \in Names : ~Hidden(n)
  BY <1>1, <1>2, MidKeeps
<1>6. InformerKnowsAddresses'
  <2>1. CASE ipAddress[Name] = NotFound
    <3>1. UNCHANGED <<ipAddress, addressWatch>>
      BY <1>2, <1>3, <2>1 DEF WriteAddress, TypeOK
    <3> QED
      BY <1>2, <3>1, AddressesUnmoved DEF InformerKnowsAddresses
  <2>2. CASE ipAddress[Name] # NotFound
    <3>1. Found(ipAddress[Name]) /\ Found(addressCache[Name])
      BY <1>2, <1>5, <2>2, OwnerFacts DEF AddressInvariant, CreatedIsSeen
    <3>2. 2 <= Rank(claimCache[ipAddress[Name].owner])
      BY <1>1, <1>2, <2>2, ReleasingFacts DEF ReleaseCalls, ReleaseWindow
    <3>3. SoundAddressWrite(Name, NotFound)
      BY <3>1, <3>2 DEF SoundAddressWrite, Found, NotFound
    <3> QED
      BY <1>2, <1>3, <2>2, <3>3, AddressWriteKeepsViews
  <2> QED
    BY <2>1, <2>2
<1>7. CreatedIsSeen'
  BY <1>2, <1>4, <1>5 DEF AddressInvariant, CreatedIsSeen, Found, NotFound
<1>8. ObjectsOwned'
  BY <1>2, <1>4 DEF AddressInvariant, ObjectsOwned, Found
<1>9. PublishedAddressIsReserved' /\ PublishedAddressesDiffer' /\ RecordsDiffer'
  BY <1>2, <1>4 DEF AddressInvariant, PublishedAddressIsReserved, PublishedAddressesDiffer, RecordsDiffer,
     Reserved, Found, NotFound
<1>10. ReadyIsTrue'
  <2>1. ASSUME NEW c \in Claims, claim[c].phase = "live", claim[c].ready = "allocated" \/ claim[c].addressRef
        PROVE  /\ NameOf[c] # Name /\ NameOf[c] \in Names
               /\ ipAddress[NameOf[c]].owner = c /\ Reserved(ipAddress[NameOf[c]])
    <3>1. ipAddress[NameOf[c]].owner = c /\ Reserved(ipAddress[NameOf[c]])
      BY <2>1 DEF AddressInvariant, ReadyIsTrue
    <3> QED
      BY <1>1, <1>2, <2>1, <3>1, ReleasingFacts, NamesAssumption DEF ReleaseCalls, ReleaseWindow
  <2> QED
    BY <1>2, <1>4, <2>1 DEF ReadyIsTrue, Reserved
<1>11. WorkerKnowsObject'
  BY <1>2 DEF WorkerKnowsObject
<1>12. WorkerKnowsRelease'
  BY <1>2, <1>4 DEF WorkerKnowsRelease, Found, NotFound
<1>13. WorkerKnowsOwner'
  BY <1>2 DEF AddressInvariant, WorkerKnowsOwner
<1> QED
  BY <1>6, <1>7, <1>8, <1>9, <1>10, <1>11, <1>12, <1>13 DEF AddressInvariant

\* A call fails.
LEMMA CallFailsAddresses ==
    ASSUME AddressInvariant, ViewsInvariant', AddressFaults, CallFails
    PROVE  AddressInvariant'
<1> USE DEF kubernetes, claims, addresses, netbox, external, caches
<1>1. /\ UNCHANGED <<ipAddress, addressWatch, addressCache, claimCache, claim, records>>
      /\ records \subseteq records' /\ RecordsDiffer' /\ pc \notin ReleaseWindow
  BY DEF CallFails, Fault, AddressFaults, AddressInvariant, RecordsDiffer
<1>2. CASE pc = "PatchClaim"
  <2>1. pc' = "idle"
    BY <1>2 DEF CallFails, Finish
  <2>2. ReadyIsTrue'
    BY <1>1, ObjectsUnmoved
  <2>3. \A c \in Claims : Rank(claimCache[c]) <= Rank(claimCache'[c])
    BY <1>1, RankFacts DEF AddressInvariant, ViewsInvariant, TypeOK
  <2> QED
    BY <1>1, <1>2, <2>1, <2>2, <2>3, StandingAddresses
<1>3. CASE pc # "PatchClaim"
  <2>1. MidReconcile /\ (AllocationFailed \/ ReleaseFailed)
    BY <1>3 DEF MidReconcile, CallFails
  <2>2. pc # "PollCache" /\ pc # "DeleteAddress"
    BY <1>1, <1>3 DEF CallFails, ReleaseWindow
  <2> QED
    BY <1>1, <2>1, <2>2, EndFacts, EndKnows, QuietAddresses
<1> QED
  BY <1>2, <1>3

\* Nothing but the pool changes, which may also disappear.
LEMMA AnyPoolAddresses ==
    ASSUME AddressInvariant, pool' \in Pools,
           UNCHANGED <<kubernetes, netbox, cluster, caches, queue, pc, job, faults>>
    PROVE  AddressInvariant'
<1> USE DEF kubernetes, claims, addresses, netbox, external, caches
<1>1. TypeOK /\ TypeOK'
  BY DEF AddressInvariant, ViewsInvariant, TypeOK
<1>2. ViewsInvariant'
  BY <1>1, ApartViews DEF AddressInvariant
<1>3. ReadyIsTrue' /\ RecordsDiffer'
  BY ObjectsUnmoved DEF AddressInvariant, RecordsDiffer
<1>4. \A c \in Claims : Rank(claimCache[c]) <= Rank(claimCache'[c])
  BY <1>1, RankFacts DEF TypeOK
<1> QED
  BY <1>2, <1>3, <1>4, StandingAddresses

(***************************************************************************)
(* The specification.                                                      *)
(***************************************************************************)

LEMMA InitAddresses == Init => AddressInvariant
<1> SUFFICES ASSUME Init PROVE AddressInvariant
  OBVIOUS
<1>1. ViewsInvariant
  BY InitViews
<1>2. /\ \A n \in Names : ipAddress[n] = NotFound /\ addressCache[n] = NotFound
      /\ Len(addressWatch) = 0 /\ pc = "idle" /\ records = {}
      /\ \A c \in Claims : claim[c] = Fresh("absent")
  BY DEF Init
<1>3. \A n \in Names : EventsOf(n) = {} /\ Copies(n) = {NotFound}
  BY <1>2 DEF EventsOf, Copies
<1>4. InformerKnowsAddresses
  BY <1>2, <1>3 DEF InformerKnowsAddresses, WatchReachesAPI, DeletionIsLast, CopiesAgree, AddressesInTurn,
     Found, NotFound
<1>5. CreatedIsSeen /\ ObjectsOwned /\ PublishedAddressIsReserved /\ PublishedAddressesDiffer /\ RecordsDiffer
  <2>1. \A n \in Names : ~Found(ipAddress[n])
    BY <1>2 DEF Found, NotFound
  <2>2. CreatedIsSeen /\ PublishedAddressIsReserved /\ PublishedAddressesDiffer
    BY <2>1 DEF CreatedIsSeen, PublishedAddressIsReserved, PublishedAddressesDiffer
  <2>3. ObjectsOwned /\ RecordsDiffer
    BY <1>2 DEF ObjectsOwned, RecordsDiffer
  <2> QED
    BY <2>2, <2>3
<1>6. ReadyIsTrue
  BY <1>2 DEF ReadyIsTrue, Fresh
<1>7. WorkerKnowsObject /\ WorkerKnowsRelease /\ WorkerKnowsOwner
  BY <1>2 DEF WorkerKnowsObject, WorkerKnowsRelease, WorkerKnowsOwner, ReportsAddress
<1> QED
  BY <1>1, <1>4, <1>5, <1>6, <1>7 DEF AddressInvariant

\* Every step keeps the invariant.
LEMMA NextAddresses ==
    ASSUME AddressFaults
    PROVE  AddressInvariant /\ [Next]_vars => AddressInvariant'
<1> SUFFICES ASSUME AddressInvariant, [Next]_vars PROVE AddressInvariant'
  OBVIOUS
<1> USE DEF kubernetes, claims, addresses, netbox, external, caches
<1>1. ViewsInvariant' /\ TypeOK /\ TypeOK'
  BY NextViews DEF AddressInvariant, ViewsInvariant
<1>2. CASE \E n \in Names : Reconcile(n)
  BY <1>1, <1>2, ReconcileAddresses
<1>3. CASE WorkerStep \/ AllocateTimesOut
  <2>1. CASE FetchPool
    BY <1>1, <2>1, FetchPoolAddresses
  <2>2. CASE EnsureGet
    BY <1>1, <2>2, EnsureGetAddresses
  <2>3. CASE FindByUID \/ Allocate \/ NoAvailableIP \/ PoolExhausted \/ AllocateTimesOut
    BY <1>1, <2>3, AllocateAddresses
  <2>4. CASE CreateAddress
    BY <1>1, <2>4, CreateAddresses
  <2>5. CASE PatchAddress \/ PollCache
    BY <1>1, <2>5, PollAddresses
  <2>6. CASE ReleaseGet
    BY <1>1, <2>6, ReleaseGetAddresses
  <2>7. CASE ReleaseFind \/ ReleaseFindByAddress
    BY <1>1, <2>7, ReleaseFindAddresses
  <2>8. CASE ReleaseDelete
    BY <1>1, <2>8, ReleaseDeleteAddresses
  <2>9. CASE DeleteGet
    BY <1>1, <2>9, DeleteGetAddresses
  <2>10. CASE Unprotect
    BY <1>1, <2>10, UnprotectAddresses
  <2>11. CASE DeleteAddress
    BY <1>1, <2>11, DeleteAddressAddresses
  <2>12. CASE PatchClaim
    BY <1>1, <2>12, PatchAddresses
  <2> QED
    BY <1>3, <2>1, <2>2, <2>3, <2>4, <2>5, <2>6, <2>7, <2>8, <2>9, <2>10, <2>11, <2>12 DEF WorkerStep
<1>4. CASE CallFails
  BY <1>1, <1>4, CallFailsAddresses
<1>5. CASE Crash
  BY <1>1, <1>5, CrashAddresses
<1>6. CASE SyncAddress
  BY <1>1, <1>6, SyncAddresses
<1>7. CASE LateAllocation
  BY <1>1, <1>7, LateAllocationAddresses
<1>8. CASE \E c \in Claims : CreateClaim(c) \/ DeleteClaim(c)
  BY <1>1, <1>8, UserAddresses
<1>9. CASE SyncClaim \/ Resync \/ ChangePool \/ ChangeCluster \/ UNCHANGED vars
  <2>1. UNCHANGED <<ipAddress, addressCache, addressWatch, claim, records, pc, job>>
    BY <1>9 DEF SyncClaim, Resync, ChangePool, ChangeCluster, vars
  <2>2. ReadyIsTrue' /\ RecordsDiffer'
    BY <2>1, ObjectsUnmoved DEF AddressInvariant, RecordsDiffer
  <2>3. \A c \in Claims : Rank(claimCache[c]) <= Rank(claimCache'[c])
    <3>1. CASE SyncClaim
      BY <1>1, <3>1, KnownAfterSync DEF AddressInvariant, ViewsInvariant
    <3>2. ASSUME UNCHANGED claimCache, NEW c \in Claims
          PROVE  Rank(claimCache[c]) <= Rank(claimCache'[c])
      <4>1. claimCache[c] \in ClaimObject /\ claimCache'[c] = claimCache[c]
        BY <1>1, <3>2 DEF TypeOK
      <4> QED
        BY <4>1, RankFacts
    <3> QED
      BY <1>9, <3>1, <3>2 DEF Resync, ChangePool, ChangeCluster, vars
  <2> QED
    BY <1>1, <2>1, <2>2, <2>3, StandingAddresses
<1> QED
  BY <1>2, <1>3, <1>4, <1>5, <1>6, <1>7, <1>8, <1>9 DEF Next, FaultStep, Environment

\* The IPAddress objects, the NetBox records, the caches and the worker stay in agreement.
THEOREM AddressInvariantHolds ==
    ASSUME AddressFaults
    PROVE  Spec => []AddressInvariant
  BY InitAddresses, NextAddresses, PTL DEF Spec

\* AddressImpliesFinalizer: a claim cannot disappear as long as it has an IPAddress object.
THEOREM ObjectsAreHeld ==
    ASSUME AddressFaults
    PROVE  Spec => []AddressImpliesFinalizer
<1>1. AddressInvariant => AddressImpliesFinalizer
  BY DEF AddressInvariant, ObjectsOwned, AddressImpliesFinalizer, Found, NotFound
<1> QED
  BY <1>1, AddressInvariantHolds, PTL

\* PublishedAddressIsReserved: what an IPAddress object publishes is reserved in NetBox for the
\* claim that owns the object.
THEOREM PublishedIsReserved ==
    ASSUME AddressFaults
    PROVE  Spec => []PublishedAddressIsReserved
<1>1. AddressInvariant => PublishedAddressIsReserved
  BY DEF AddressInvariant
<1> QED
  BY <1>1, AddressInvariantHolds, PTL

\* PublishedAddressesDiffer: no address is published twice.
THEOREM NoAddressTwice ==
    ASSUME AddressFaults
    PROVE  Spec => []PublishedAddressesDiffer
<1>1. AddressInvariant => PublishedAddressesDiffer
  BY DEF AddressInvariant
<1> QED
  BY <1>1, AddressInvariantHolds, PTL

\* ReadyIsTrue: the status of a live claim tells the truth about its address.
THEOREM StatusIsTrue ==
    ASSUME AddressFaults
    PROVE  Spec => []ReadyIsTrue
<1>1. AddressInvariant => ReadyIsTrue
  BY DEF AddressInvariant
<1> QED
  BY <1>1, AddressInvariantHolds, PTL

\* Of all steps only the DELETE of a release takes a record away.
LEMMA OnlyReleaseRemoves ==
    ASSUME TypeOK, [Next]_vars, NEW r \in records \ records'
    PROVE  ReleaseDelete /\ r = job.record
<1> USE DEF kubernetes, claims, addresses, netbox, external, caches
<1>1. ASSUME ReleaseDelete PROVE r = job.record
  BY <1>1 DEF ReleaseDelete
<1>2. ASSUME WorkerStep, ~ReleaseDelete PROVE records \subseteq records'
  BY <1>2 DEF WorkerStep, FetchPool, EnsureGet, FindByUID, Allocate, NoAvailableIP, PoolExhausted,
     CreateAddress, PatchAddress, PollCache, ReleaseGet, ReleaseFind, ReleaseFindByAddress, DeleteGet,
     Unprotect, DeleteAddress, PatchClaim
<1>3. ASSUME FaultStep \/ LateAllocation PROVE records \subseteq records'
  BY <1>3 DEF FaultStep, AllocateTimesOut, CallFails, Crash, Restart, LateAllocation
<1>4. ASSUME \/ \E n \in Names : Reconcile(n)
             \/ SyncClaim \/ SyncAddress \/ Resync \/ ChangePool \/ ChangeCluster \/ UNCHANGED vars
             \/ \E c \in Claims : CreateClaim(c) \/ DeleteClaim(c)
      PROVE  records \subseteq records'
  BY <1>4 DEF Reconcile, SyncClaim, SyncAddress, Resync, ChangePool, ChangeCluster, CreateClaim,
     DeleteClaim, vars
<1> QED
  BY <1>1, <1>2, <1>3, <1>4 DEF Next, Environment

\* OnlyOwnRecordsDeleted: when caches are up to date whenever a reconcile starts, a release
\* deletes no record but that of the claim it releases, whose deletion somebody has asked for.
THEOREM ReleaseKeepsToItsOwn ==
    ASSUME AddressFaults, MaxLag = 0
    PROVE  Spec => OnlyOwnRecordsDeleted
<1>1. ASSUME AddressInvariant, [Next]_vars, NEW r \in records \ records'
      PROVE  r.owner = job.claim /\ claim[r.owner].phase = "deleting"
  <2>1. ReleaseDelete /\ r = job.record
    BY <1>1, OnlyReleaseRemoves DEF AddressInvariant, ViewsInvariant
  <2>2. pc = "ReleaseDelete" /\ job.snap.phase = "deleting"
    BY <1>1, <2>1 DEF ReleaseDelete, AddressInvariant, ViewsInvariant, WorkerKnows, ReleaseCalls
  <2> QED
    BY <1>1, <2>1, <2>2 DEF AddressInvariant, WorkerKnowsOwner
<1>2. AddressInvariant /\ [Next]_vars =>
         [\A r \in records \ records' : r.owner = job.claim /\ claim[r.owner].phase = "deleting"]_vars
  BY <1>1
<1> QED
  BY <1>2, AddressInvariantHolds, PTL DEF Spec, OnlyOwnRecordsDeleted

=============================================================================
