-------------------------- MODULE VirtualKeysProofs --------------------------
(***************************************************************************)
(* Proofs about VirtualKeys, for any users, models, keys, handlers and     *)
(* late transactions: once the subjects and the collection index exist,    *)
(* the repository implements KeyRegistry, keeps its indexes exact and      *)
(* never leaves a key with a fenced holder.                                *)
(***************************************************************************)
EXTENDS VirtualKeys, TLAPS

-----------------------------------------------------------------------------
(***************************************************************************)
(* The inductive invariant: what the store holds, and what the operations  *)
(* under way, late ones included, may still rely on of what they read.     *)
(***************************************************************************)
Places == Handlers \cup Strays

Present(values) == [value : values, etag : Nat \ {0}]
Entries(values) == {Absent} \cup Present(values)

\* What may be found under a key.  Subjects and the collection are never absent.
OfType(key, entry) ==
    /\ \A k \in Keys : key = virtualKeyKey(k) => entry \in Entries(VirtualKey)
    /\ \A k \in Keys : key = hashLookupKey(k) => entry \in Entries({k})
    /\ \A s \in Subjects : key = subjectKey(s) => entry \in Present(Subject)
    /\ \A s \in Subjects :
          key = virtualKeysByIndexKey(s) => entry \in Entries(SUBSET Keys)
    /\ key = virtualKeysIndexKey => entry \in Present(SUBSET Keys)

StoreTyped ==
    /\ store = [key \in StoreKeys |-> store[key]]
    /\ \A key \in StoreKeys : OfType(key, store[key])

StoreOK ==
    /\ StoreTyped
    /\ IndexesExact
    /\ HoldersLive
    /\ \A k \in Keys : Exists(store[virtualKeyKey(k)]) => k \in issued

KeyOps == {"create", "replace", "delete"}

OpTyped(r) ==
    \/ r.op = "create" /\ r.id \in Keys /\ r.new \in VirtualKey
    \/ r.op = "replace" /\ r.id \in Keys /\ r.old \in VirtualKey /\ r.new \in VirtualKey
    \/ r.op = "delete" /\ r.id \in Keys /\ r.old \in VirtualKey
    \/ r.op = "sync" /\ r.id \in Subjects /\ r.new \in Subject /\ ~r.new.deleted
    \/ r.op = "fence" /\ r.id \in Subjects /\ r.new \in Subject

\* An entry that was read is still there, or its ETag is out of date for good.
Recalled(entry, now) == entry = now \/ entry.etag < now.etag

\* The index of a holder is read after its subject and never written without it:
\* who finds the subject as it was, finds the index as it was.
HolderRecalled(r, s, db) ==
    /\ subjectKey(s) \in DOMAIN r.got =>
          Recalled(r.got[subjectKey(s)], db[subjectKey(s)])
    /\ virtualKeysByIndexKey(s) \in DOMAIN r.got =>
          /\ subjectKey(s) \in DOMAIN r.got
          /\ r.got[subjectKey(s)] = db[subjectKey(s)] =>
                r.got[virtualKeysByIndexKey(s)] = db[virtualKeysByIndexKey(s)]

KeyRecalled(r, db) ==
    (r.op \in {"replace", "delete"} /\ virtualKeyKey(r.id) \in DOMAIN r.got) =>
        \/ db[virtualKeyKey(r.id)] = Absent
        \/ Recalled(r.got[virtualKeyKey(r.id)], db[virtualKeyKey(r.id)])

ReadOK(r, db) ==
    /\ DOMAIN r.got \subseteq Reads(r)
    /\ \A key \in DOMAIN r.got : OfType(key, r.got[key])
    /\ \A s \in Subjects : HolderRecalled(r, s, db)
    /\ virtualKeysIndexKey \in DOMAIN r.got =>
          Recalled(r.got[virtualKeysIndexKey], db[virtualKeysIndexKey])
    /\ KeyRecalled(r, db)

Shaped(r) ==
    r = [phase |-> r.phase, op |-> r.op, id |-> r.id, old |-> r.old, new |-> r.new,
         got |-> r.got]

\* A key that is being created is not there, and nobody else can know of it.
OpOK(r, db, ids) ==
    /\ Shaped(r)
    /\ OpTyped(r)
    /\ ReadOK(r, db)
    /\ r.op \in KeyOps => r.id \in ids
    /\ r.op = "create" => db[virtualKeyKey(r.id)] = Absent
    /\ r.phase = "late" => Unread(r) = {}

UnderWay(h) == request[h].phase \in {"loaded", "reading", "late"}

RequestsOK ==
    /\ DOMAIN request = Places
    /\ \A h \in Places :
          request[h] \in {Idle, Landed} \/ (UnderWay(h) /\ OpOK(request[h], store, issued))

\* One of them does not create the key that the other one is about.
Apart(q, r) ==
    /\ (q.op = "create" /\ r.op \in KeyOps) => q.id # r.id
    /\ (r.op = "create" /\ q.op \in KeyOps) => q.id # r.id

Alone ==
    \A h, g \in Places :
        (h # g /\ UnderWay(h) /\ UnderWay(g)) => Apart(request[h], request[g])

RegistryInv == StoreOK /\ RequestsOK /\ Alone

-----------------------------------------------------------------------------
(***************************************************************************)
(* Keys of the store and types.                                            *)
(***************************************************************************)
\* Users and models have subjects and indexes of their own.
LEMMA HolderKeysDistinct ==
    ASSUME NEW s \in Subjects, NEW t \in Subjects
    PROVE  /\ subjectKey(s) = subjectKey(t) => s = t
           /\ virtualKeysByIndexKey(s) = virtualKeysByIndexKey(t) => s = t
           /\ subjectKey(s) # virtualKeysByIndexKey(t)
  BY DEF subjectKey, virtualKeysByIndexKey

LEMMA KeysDistinct ==
    ASSUME NEW k \in Keys, NEW j \in Keys
    PROVE  /\ virtualKeyKey(k) = virtualKeyKey(j) => k = j
           /\ hashLookupKey(k) = hashLookupKey(j) => k = j
           /\ virtualKeyKey(k) # hashLookupKey(j)
           /\ virtualKeyKey(k) # virtualKeysIndexKey
           /\ hashLookupKey(k) # virtualKeysIndexKey
  BY DEF virtualKeyKey, hashLookupKey, virtualKeysIndexKey

LEMMA HoldersAreApart ==
    ASSUME NEW s \in Subjects
    PROVE  /\ virtualKeysIndexKey \notin {subjectKey(s), virtualKeysByIndexKey(s)}
           /\ \A k \in Keys :
                /\ virtualKeyKey(k) \notin {subjectKey(s), virtualKeysByIndexKey(s)}
                /\ hashLookupKey(k) \notin {subjectKey(s), virtualKeysByIndexKey(s)}
  BY DEF virtualKeyKey, hashLookupKey, virtualKeysIndexKey, subjectKey,
         virtualKeysByIndexKey

LEMMA KeysStored ==
    /\ \A k \in Keys : virtualKeyKey(k) \in StoreKeys /\ hashLookupKey(k) \in StoreKeys
    /\ \A s \in Subjects :
          subjectKey(s) \in StoreKeys /\ virtualKeysByIndexKey(s) \in StoreKeys
    /\ virtualKeysIndexKey \in StoreKeys
  BY DEF StoreKeys

LEMMA StoreCases ==
    ASSUME NEW key \in StoreKeys
    PROVE  \/ \E k \in Keys : key = virtualKeyKey(k) \/ key = hashLookupKey(k)
           \/ \E s \in Subjects : key = subjectKey(s) \/ key = virtualKeysByIndexKey(s)
           \/ key = virtualKeysIndexKey
  BY DEF StoreKeys

LEMMA SecondOfIndexKey == \A s : virtualKeysByIndexKey(s)[2] = s
  BY DEF virtualKeysByIndexKey

LEMMA HoldersAreSubjects ==
    ASSUME NEW key \in VirtualKey
    PROVE  Holders(key) \subseteq Subjects
  BY DEF VirtualKey, Holders, Subjects

\* What is found under each of the keys.
LEMMA Found ==
    ASSUME StoreTyped
    PROVE  /\ \A k \in Keys : store[virtualKeyKey(k)] \in Entries(VirtualKey)
           /\ \A k \in Keys : store[hashLookupKey(k)] \in Entries({k})
           /\ \A s \in Subjects : store[subjectKey(s)] \in Present(Subject)
           /\ \A s \in Subjects : store[virtualKeysByIndexKey(s)] \in Entries(SUBSET Keys)
           /\ store[virtualKeysIndexKey] \in Present(SUBSET Keys)
  BY KeysStored DEF StoreTyped, OfType

LEMMA Reading ==
    ASSUME NEW r, ReadOK(r, store)
    PROVE  /\ \A k \in Keys : virtualKeyKey(k) \in DOMAIN r.got =>
                r.got[virtualKeyKey(k)] \in Entries(VirtualKey)
           /\ \A s \in Subjects : subjectKey(s) \in DOMAIN r.got =>
                r.got[subjectKey(s)] \in Present(Subject)
           /\ \A s \in Subjects : virtualKeysByIndexKey(s) \in DOMAIN r.got =>
                r.got[virtualKeysByIndexKey(s)] \in Entries(SUBSET Keys)
           /\ virtualKeysIndexKey \in DOMAIN r.got =>
                r.got[virtualKeysIndexKey] \in Present(SUBSET Keys)
  BY DEF ReadOK, OfType

LEMMA EntryTypes ==
    ASSUME NEW values, NEW e \in Entries(values)
    PROVE  /\ e.etag \in Nat
           /\ Exists(e) => e.value \in values /\ e = Entry(e.value, e.etag) /\ e.etag > 0
           /\ ~Exists(e) => e = Absent
           /\ e = Absent => ~Exists(e)
  BY DEF Entries, Present, Absent, Entry, Exists, NoETag

LEMMA PresentTypes ==
    ASSUME NEW values, NEW e \in Present(values)
    PROVE  /\ e.etag \in Nat /\ e.etag > 0 /\ e.value \in values
           /\ Exists(e) /\ e = Entry(e.value, e.etag)
           /\ e \in Entries(values)
  BY DEF Entries, Present, Entry, Exists, NoETag

LEMMA NewEntry ==
    ASSUME NEW values, NEW v \in values, NEW n \in Nat
    PROVE  /\ Entry(v, n + 1) \in Present(values)
           /\ Entry(v, n + 1).value = v /\ Entry(v, n + 1).etag = n + 1
           /\ Exists(Entry(v, n + 1))
           /\ readIndex(Entry(v, n + 1)) = v
  BY DEF Present, Entry, Exists, NoETag, readIndex

LEMMA NewIndex ==
    ASSUME NEW ids \in SUBSET Keys, NEW n \in Nat
    PROVE  /\ Entry(ids, n + 1) \in Present(SUBSET Keys)
           /\ Entry(ids, n + 1).value = ids /\ Entry(ids, n + 1).etag = n + 1
           /\ readIndex(Entry(ids, n + 1)) = ids
  BY DEF Present, Entry, Exists, NoETag, readIndex

LEMMA IndexTypes ==
    ASSUME NEW e \in Entries(SUBSET Keys), NEW k \in Keys
    PROVE  /\ readIndex(e) \in SUBSET Keys
           /\ addIndexID(e, k) \in SUBSET Keys
           /\ removeIndexID(e, k) \in SUBSET Keys
  BY EntryTypes DEF readIndex, addIndexID, removeIndexID

-----------------------------------------------------------------------------
(***************************************************************************)
(* What a transaction does to the subjects and indexes of its holders.     *)
(***************************************************************************)
Same(key) == store'[key] = store[key]

Touched(s) ==
    store'[subjectKey(s)]
        = Entry(store[subjectKey(s)].value, store[subjectKey(s)].etag + 1)

\* The index that s has when k is a key of these holders.
Listing(s, k, holders) ==
    IF s \in holders THEN readIndex(store[virtualKeysByIndexKey(s)]) \cup {k}
    ELSE readIndex(store[virtualKeysByIndexKey(s)]) \ {k}

\* The same, computed from what was read.
ListingRead(r, s, holders) ==
    IF s \in holders THEN addIndexID(r.got[virtualKeysByIndexKey(s)], r.id)
    ELSE removeIndexID(r.got[virtualKeysByIndexKey(s)], r.id)

LEMMA HolderOperationsAre ==
    ASSUME NEW r, NEW holders, holders \subseteq Subjects, NEW after
    PROVE  /\ DOMAIN HolderOperations(r, holders, after) = HolderKeys(holders)
           /\ \A s \in holders :
                /\ HolderOperations(r, holders, after)[subjectKey(s)]
                     = Put(r.got[subjectKey(s)].value, r.got[subjectKey(s)].etag)
                /\ HolderOperations(r, holders, after)[virtualKeysByIndexKey(s)]
                     = Put(ListingRead(r, s, after), r.got[virtualKeysByIndexKey(s)].etag)
<1> DEFINE touch == [key \in {subjectKey(s) : s \in holders} |->
                        subjectTouchOperation(r.got[key])]
           index == [key \in {virtualKeysByIndexKey(s) : s \in holders} |->
                        Put(IF key[2] \in after THEN addIndexID(r.got[key], r.id)
                            ELSE removeIndexID(r.got[key], r.id),
                            r.got[key].etag)]
<1>1. HolderOperations(r, holders, after) = touch ++ index
  BY DEF HolderOperations, IndexOperations
<1>2. DOMAIN (touch ++ index) = HolderKeys(holders)
  BY DEF ++, HolderKeys
<1>3. ASSUME NEW s \in holders
      PROVE  (touch ++ index)[subjectKey(s)] = subjectTouchOperation(r.got[subjectKey(s)])
  BY DEF ++
<1>4. ASSUME NEW s \in holders
      PROVE  (touch ++ index)[virtualKeysByIndexKey(s)] = index[virtualKeysByIndexKey(s)]
  <2>1. virtualKeysByIndexKey(s) \notin DOMAIN touch
    BY HolderKeysDistinct
  <2>2. virtualKeysByIndexKey(s) \in DOMAIN index
    OBVIOUS
  <2> HIDE DEF touch, index
  <2> QED
    BY <2>1, <2>2 DEF ++
<1>5. ASSUME NEW s \in holders
      PROVE  index[virtualKeysByIndexKey(s)]
                = Put(ListingRead(r, s, after), r.got[virtualKeysByIndexKey(s)].etag)
  BY SecondOfIndexKey DEF ListingRead
<1> HIDE DEF touch, index
<1> QED
  BY <1>1, <1>2, <1>3, <1>4, <1>5 DEF subjectTouchOperation

\* tx does to these holders, all of whose entries r has read, what r is to do to
\* holders, and nothing to any other user or model.
Rewrites(tx, r, holders, after) ==
    /\ holders \subseteq Subjects
    /\ after \subseteq holders
    /\ HolderKeys(holders) \subseteq DOMAIN r.got
    /\ \A key \in HolderKeys(Subjects) : key \in DOMAIN tx => key \in HolderKeys(holders)
    /\ \A key \in HolderKeys(holders) :
          key \in DOMAIN tx /\ tx[key] = HolderOperations(r, holders, after)[key]

HoldersWritten(r, holders, after) ==
    /\ \A s \in holders :
          /\ r.got[subjectKey(s)] = store[subjectKey(s)]
          /\ r.got[virtualKeysByIndexKey(s)] = store[virtualKeysByIndexKey(s)]
          /\ Touched(s)
          /\ store'[virtualKeysByIndexKey(s)] \in Present(SUBSET Keys)
          /\ readIndex(store'[virtualKeysByIndexKey(s)]) = Listing(s, r.id, after)
    /\ \A s \in Subjects \ holders :
          Same(subjectKey(s)) /\ Same(virtualKeysByIndexKey(s))

\* Who commits after having read the holders finds them as they were: touches
\* their subjects, and rewrites their indexes.
LEMMA HolderEffect ==
    ASSUME StoreOK, NEW r, ReadOK(r, store), r.id \in Keys, NEW holders, NEW after, NEW tx,
           Rewrites(tx, r, holders, after), Current(store, tx), store' = Applied(store, tx)
    PROVE  HoldersWritten(r, holders, after)
<1>s. holders \subseteq Subjects
  BY DEF Rewrites
<1>o. \A s \in holders :
          /\ HolderOperations(r, holders, after)[subjectKey(s)]
               = Put(r.got[subjectKey(s)].value, r.got[subjectKey(s)].etag)
          /\ HolderOperations(r, holders, after)[virtualKeysByIndexKey(s)]
               = Put(ListingRead(r, s, after), r.got[virtualKeysByIndexKey(s)].etag)
  BY <1>s, HolderOperationsAre
<1> USE DEF StoreOK, Rewrites
<1>h. ASSUME NEW s \in holders
      PROVE  /\ subjectKey(s) \in HolderKeys(holders)
             /\ virtualKeysByIndexKey(s) \in HolderKeys(holders)
  BY DEF HolderKeys
<1>1. ASSUME NEW s \in holders
      PROVE  /\ r.got[subjectKey(s)] = store[subjectKey(s)]
             /\ r.got[virtualKeysByIndexKey(s)] = store[virtualKeysByIndexKey(s)]
  <2>1. subjectKey(s) \in DOMAIN r.got /\ virtualKeysByIndexKey(s) \in DOMAIN r.got
    BY DEF HolderKeys
  <2>2. subjectKey(s) \in DOMAIN tx
        /\ tx[subjectKey(s)] = Put(r.got[subjectKey(s)].value, r.got[subjectKey(s)].etag)
    BY <1>h, <1>o
  <2>3. tx[subjectKey(s)].etag = r.got[subjectKey(s)].etag
    BY <2>2 DEF Put
  <2>4. r.got[subjectKey(s)] \in Present(Subject) /\ store[subjectKey(s)] \in Present(Subject)
    BY <2>1, Reading, Found
  <2>5. r.got[subjectKey(s)].etag = store[subjectKey(s)].etag
    BY <2>2, <2>3, <2>4, PresentTypes DEF Current, NoETag
  <2>6. HolderRecalled(r, s, store)
    BY DEF ReadOK
  <2>7. r.got[subjectKey(s)] = store[subjectKey(s)]
    BY <2>1, <2>4, <2>5, <2>6, PresentTypes DEF HolderRecalled, Recalled
  <2> QED
    BY <2>1, <2>6, <2>7 DEF HolderRecalled
<1>2. ASSUME NEW s \in holders
      PROVE  /\ Touched(s)
             /\ store'[virtualKeysByIndexKey(s)]
                   = Entry(Listing(s, r.id, after),
                           store[virtualKeysByIndexKey(s)].etag + 1)
  <2>1. subjectKey(s) \in StoreKeys /\ virtualKeysByIndexKey(s) \in StoreKeys
        /\ DOMAIN store = StoreKeys
    BY KeysStored DEF StoreTyped
  <2>2. /\ subjectKey(s) \in DOMAIN tx
        /\ tx[subjectKey(s)] = Put(r.got[subjectKey(s)].value, r.got[subjectKey(s)].etag)
    BY <1>h, <1>o
  <2>3. /\ virtualKeysByIndexKey(s) \in DOMAIN tx
        /\ tx[virtualKeysByIndexKey(s)]
             = Put(ListingRead(r, s, after), r.got[virtualKeysByIndexKey(s)].etag)
    BY <1>h, <1>o
  <2>4. tx[virtualKeysByIndexKey(s)].value = Listing(s, r.id, after)
        /\ tx[virtualKeysByIndexKey(s)].type = "upsert"
    BY <1>1, <2>3 DEF Put, Listing, ListingRead, addIndexID, removeIndexID
  <2>5. tx[subjectKey(s)].value = store[subjectKey(s)].value
        /\ tx[subjectKey(s)].type = "upsert"
    BY <1>1, <2>2 DEF Put
  <2> QED
    BY <2>1, <2>2, <2>3, <2>4, <2>5 DEF Applied, Touched
<1>3. ASSUME NEW s \in holders
      PROVE  /\ store'[virtualKeysByIndexKey(s)] \in Present(SUBSET Keys)
             /\ readIndex(store'[virtualKeysByIndexKey(s)]) = Listing(s, r.id, after)
  <2>1. store[virtualKeysByIndexKey(s)] \in Entries(SUBSET Keys)
    BY Found
  <2>2. Listing(s, r.id, after) \in SUBSET Keys
    BY <2>1, IndexTypes DEF Listing
  <2> QED
    <3>1. store[virtualKeysByIndexKey(s)].etag \in Nat
      BY <2>1, EntryTypes
    <3>2. /\ Entry(Listing(s, r.id, after), store[virtualKeysByIndexKey(s)].etag + 1)
                \in Present(SUBSET Keys)
          /\ readIndex(Entry(Listing(s, r.id, after),
                             store[virtualKeysByIndexKey(s)].etag + 1))
                = Listing(s, r.id, after)
      BY <2>2, <3>1, NewIndex
    <3> QED
      BY <1>2, <3>2
<1>4. ASSUME NEW s \in Subjects \ holders
      PROVE  Same(subjectKey(s)) /\ Same(virtualKeysByIndexKey(s))
  <2>1. subjectKey(s) \in StoreKeys /\ virtualKeysByIndexKey(s) \in StoreKeys
        /\ DOMAIN store = StoreKeys
    BY KeysStored DEF StoreTyped
  <2>2. subjectKey(s) \notin HolderKeys(holders)
        /\ virtualKeysByIndexKey(s) \notin HolderKeys(holders)
    BY HolderKeysDistinct DEF HolderKeys
  <2>3. subjectKey(s) \in HolderKeys(Subjects)
        /\ virtualKeysByIndexKey(s) \in HolderKeys(Subjects)
    BY DEF HolderKeys
  <2> QED
    BY <2>1, <2>2, <2>3 DEF Applied, Same
<1> QED
  BY <1>1, <1>2, <1>3, <1>4 DEF HoldersWritten

-----------------------------------------------------------------------------
(***************************************************************************)
(* The four things that a transaction can come to.                         *)
(***************************************************************************)
\* The subject of a holder and its index are left alone or written together.
HolderStep(k, s, holders) ==
    /\ \/ Same(subjectKey(s)) /\ Same(virtualKeysByIndexKey(s))
       \/ Touched(s) /\ store'[virtualKeysByIndexKey(s)] \in Present(SUBSET Keys)
    /\ readIndex(store'[virtualKeysByIndexKey(s)]) = Listing(s, k, holders)

KeyStep(k, holders) ==
    /\ store' = [key \in StoreKeys |-> store'[key]]
    /\ \A j \in Keys \ {k} : Same(virtualKeyKey(j)) /\ Same(hashLookupKey(j))
    /\ \A s \in Subjects : HolderStep(k, s, holders)

CollectionStep(ids) ==
    /\ store'[virtualKeysIndexKey] \in Present(SUBSET Keys)
    /\ store'[virtualKeysIndexKey].value = ids
    /\ Recalled(store[virtualKeysIndexKey], store'[virtualKeysIndexKey])

KeyPut(k, key) ==
    /\ k \in Keys /\ key \in VirtualKey
    /\ \A s \in Holders(key) : ensureCanHold(store[subjectKey(s)], key)
    /\ KeyStep(k, Holders(key))
    /\ CollectionStep(store[virtualKeysIndexKey].value \cup {k})
    /\ store'[virtualKeyKey(k)] = Entry(key, store[virtualKeyKey(k)].etag + 1)
    /\ store'[hashLookupKey(k)] \in Present({k})

KeyDropped(k) ==
    /\ k \in Keys /\ Exists(store[virtualKeyKey(k)])
    /\ KeyStep(k, {})
    /\ CollectionStep(store[virtualKeysIndexKey].value \ {k})
    /\ store'[virtualKeyKey(k)] = Absent
    /\ store'[hashLookupKey(k)] = Absent

SubjectPut(s, subject) ==
    /\ s \in Subjects /\ subject \in Subject
    /\ store' = [key \in StoreKeys |-> store'[key]]
    /\ \A key \in StoreKeys \ {subjectKey(s)} : Same(key)
    /\ store'[subjectKey(s)] = Entry(subject, store[subjectKey(s)].etag + 1)
    /\ subject.revision > store[subjectKey(s)].value.revision
    /\ store[subjectKey(s)].value.deleted => subject.deleted
    /\ subject.deleted => readIndex(store[virtualKeysByIndexKey(s)]) = {}

\* A transaction without operations, or with an ETag out of date.
LEMMA NothingDone ==
    ASSUME StoreTyped, NEW tx, store' = Transact(store, tx),
           tx = NoOperation \/ ~Current(store, tx)
    PROVE  store' = store
<1>1. ASSUME tx = NoOperation PROVE Applied(store, tx) = store
  BY <1>1 DEF NoOperation, Applied, StoreTyped
<1> QED
  BY <1>1 DEF Transact

LEMMA AppliedIs ==
    ASSUME StoreTyped, NEW tx, store' = Applied(store, tx)
    PROVE  /\ store' = [key \in StoreKeys |-> store'[key]]
           /\ \A key \in StoreKeys : key \notin DOMAIN tx => Same(key)
           /\ \A key \in StoreKeys : key \in DOMAIN tx =>
                store'[key] = IF tx[key].type = "delete" THEN Absent
                              ELSE Entry(tx[key].value, store[key].etag + 1)
<1>1. DOMAIN store = StoreKeys
  BY DEF StoreTyped
<1> QED
  BY <1>1 DEF Applied, Same

\* A key that is not among the keys of s is not in the index of s.
LEMMA Unlisted ==
    ASSUME StoreOK, NEW k \in Keys, NEW s \in Subjects,
           Exists(store[virtualKeyKey(k)]) => s \notin Holders(store[virtualKeyKey(k)].value)
    PROVE  k \notin readIndex(store[virtualKeysByIndexKey(s)])
<1> DEFINE existing == {j \in Keys : Exists(store[virtualKeyKey(j)])}
<1>1. readIndex(store[virtualKeysByIndexKey(s)])
        = {j \in existing : s \in Holders(KeyOf(j))}
  BY DEF StoreOK, IndexesExact
<1>2. Exists(store[virtualKeyKey(k)]) =>
        Holders(KeyOf(k)) = Holders(store[virtualKeyKey(k)].value)
  BY DEF KeyOf, Holders
<1> QED
  BY <1>1, <1>2

\* The holders' part of the effect of a transaction.
LEMMA HoldersStep ==
    ASSUME StoreOK, NEW r, ReadOK(r, store), r.id \in Keys, NEW holders, NEW after, NEW tx,
           Rewrites(tx, r, holders, after), Current(store, tx), store' = Applied(store, tx),
           Exists(store[virtualKeyKey(r.id)]) =>
              Holders(store[virtualKeyKey(r.id)].value) \subseteq holders
    PROVE  \A s \in Subjects : HolderStep(r.id, s, after)
<1>1. HoldersWritten(r, holders, after)
  BY HolderEffect
<1>2. ASSUME NEW s \in Subjects \ holders
      PROVE  HolderStep(r.id, s, after)
  <2>1. r.id \notin readIndex(store[virtualKeysByIndexKey(s)])
    BY Unlisted
  <2>2. s \notin after
    BY DEF Rewrites
  <2>3. Listing(s, r.id, after) = readIndex(store[virtualKeysByIndexKey(s)])
    BY <2>1, <2>2 DEF Listing
  <2> QED
    BY <1>1, <2>3 DEF HolderStep, HoldersWritten, Same
<1>3. ASSUME NEW s \in holders
      PROVE  HolderStep(r.id, s, after)
  BY <1>1 DEF HolderStep, HoldersWritten
<1> QED
  BY <1>2, <1>3

-----------------------------------------------------------------------------
(***************************************************************************)
(* What each operation comes to.                                           *)
(***************************************************************************)
LEMMA Join ==
    ASSUME NEW tx, NEW more
    PROVE  /\ DOMAIN (tx ++ more) = DOMAIN tx \cup DOMAIN more
           /\ \A key \in DOMAIN tx : (tx ++ more)[key] = tx[key]
           /\ \A key \in DOMAIN more : key \notin DOMAIN tx => (tx ++ more)[key] = more[key]
  BY DEF ++

\* The operations on holders stand beside those on the key itself.
LEMMA JoinRewrites ==
    ASSUME NEW r, NEW own, NEW holders, holders \subseteq Subjects,
           NEW after, after \subseteq holders,
           HolderKeys(holders) \subseteq DOMAIN r.got,
           \A key \in DOMAIN own : key \notin HolderKeys(Subjects)
    PROVE  /\ Rewrites(own ++ HolderOperations(r, holders, after), r, holders, after)
           /\ \A key \in DOMAIN own :
                /\ key \in DOMAIN (own ++ HolderOperations(r, holders, after))
                /\ (own ++ HolderOperations(r, holders, after))[key] = own[key]
           /\ \A key \in DOMAIN (own ++ HolderOperations(r, holders, after)) :
                key \in DOMAIN own \/ key \in HolderKeys(Subjects)
<1> DEFINE more == HolderOperations(r, holders, after)
<1>1. DOMAIN more = HolderKeys(holders)
  BY HolderOperationsAre
<1>2. HolderKeys(holders) \subseteq HolderKeys(Subjects)
  BY DEF HolderKeys
<1> HIDE DEF more
<1>3. /\ DOMAIN (own ++ more) = DOMAIN own \cup DOMAIN more
      /\ \A key \in DOMAIN own : (own ++ more)[key] = own[key]
      /\ \A key \in DOMAIN more : key \notin DOMAIN own => (own ++ more)[key] = more[key]
  BY Join
<1>4. /\ \A key \in HolderKeys(Subjects) :
           key \in DOMAIN (own ++ more) => key \in HolderKeys(holders)
      /\ \A key \in HolderKeys(holders) :
            key \in DOMAIN (own ++ more) /\ (own ++ more)[key] = more[key]
  BY <1>1, <1>2, <1>3
<1>5. Rewrites(own ++ more, r, holders, after)
  BY <1>4 DEF Rewrites, more
<1>6. \A key \in DOMAIN (own ++ more) : key \in DOMAIN own \/ key \in HolderKeys(Subjects)
  BY <1>1, <1>2, <1>3
<1> QED
  BY <1>3, <1>5, <1>6 DEF more

LEMMA ApartFromHolders ==
    /\ virtualKeysIndexKey \notin HolderKeys(Subjects)
    /\ \A k \in Keys : virtualKeyKey(k) \notin HolderKeys(Subjects)
                       /\ hashLookupKey(k) \notin HolderKeys(Subjects)
  BY HoldersAreApart DEF HolderKeys

\* The collection index that was read is the one stored, if its ETag is.
LEMMA CollectionCurrent ==
    ASSUME StoreOK, NEW r, ReadOK(r, store), virtualKeysIndexKey \in DOMAIN r.got,
           NEW tx, Current(store, tx), virtualKeysIndexKey \in DOMAIN tx,
           tx[virtualKeysIndexKey].etag = r.got[virtualKeysIndexKey].etag
    PROVE  r.got[virtualKeysIndexKey] = store[virtualKeysIndexKey]
<1>1. /\ r.got[virtualKeysIndexKey] \in Present(SUBSET Keys)
      /\ store[virtualKeysIndexKey] \in Present(SUBSET Keys)
  BY Reading, Found DEF StoreOK
<1>2. /\ r.got[virtualKeysIndexKey].etag \in Nat /\ r.got[virtualKeysIndexKey].etag > 0
      /\ store[virtualKeysIndexKey].etag \in Nat
  BY <1>1, PresentTypes
<1>3. r.got[virtualKeysIndexKey].etag = store[virtualKeysIndexKey].etag
  BY <1>2 DEF Current, NoETag
<1>4. Recalled(r.got[virtualKeysIndexKey], store[virtualKeysIndexKey])
  BY DEF ReadOK
<1> QED
  BY <1>2, <1>3, <1>4 DEF Recalled

\* Likewise the key itself.
LEMMA KeyCurrent ==
    ASSUME StoreOK, NEW r, ReadOK(r, store), r.op \in {"replace", "delete"}, r.id \in Keys,
           virtualKeyKey(r.id) \in DOMAIN r.got, Exists(r.got[virtualKeyKey(r.id)]),
           NEW tx, Current(store, tx), virtualKeyKey(r.id) \in DOMAIN tx,
           tx[virtualKeyKey(r.id)].etag = r.got[virtualKeyKey(r.id)].etag
    PROVE  r.got[virtualKeyKey(r.id)] = store[virtualKeyKey(r.id)]
<1> DEFINE e == r.got[virtualKeyKey(r.id)]
           c == store[virtualKeyKey(r.id)]
<1>1. e \in Entries(VirtualKey) /\ c \in Entries(VirtualKey)
  BY Reading, Found DEF StoreOK
<1>2. c = Absent \/ Recalled(e, c)
  BY DEF ReadOK, KeyRecalled
<1>3. e.etag # NoETag => e.etag = c.etag
  BY DEF Current
<1> HIDE DEF e, c
<1>4. e.etag \in Nat /\ e.etag > 0 /\ c.etag \in Nat /\ (c = Absent => ~Exists(c))
  <2>1. Exists(e)
    BY DEF e
  <2> QED
    BY <1>1, <2>1, EntryTypes
<1>5. e.etag = c.etag
  BY <1>3, <1>4 DEF NoETag
<1>6. c # Absent
  BY <1>4, <1>5 DEF Exists, NoETag
<1>7. e = c
  BY <1>2, <1>4, <1>5, <1>6 DEF Recalled
<1> QED
  BY <1>7 DEF e, c

\* A collection index written with this value.
LEMMA CollectionWritten ==
    ASSUME StoreOK, NEW ids \in SUBSET Keys,
           store'[virtualKeysIndexKey] = Entry(ids, store[virtualKeysIndexKey].etag + 1)
    PROVE  CollectionStep(ids)
<1>1. store[virtualKeysIndexKey].etag \in Nat
  BY Found, PresentTypes DEF StoreOK
<1>2. /\ Entry(ids, store[virtualKeysIndexKey].etag + 1) \in Present(SUBSET Keys)
      /\ Entry(ids, store[virtualKeysIndexKey].etag + 1).value = ids
      /\ Entry(ids, store[virtualKeysIndexKey].etag + 1).etag
            = store[virtualKeysIndexKey].etag + 1
  BY <1>1, NewIndex
<1>3. store[virtualKeysIndexKey].etag < store[virtualKeysIndexKey].etag + 1
  BY <1>1
<1> QED
  BY <1>2, <1>3 DEF CollectionStep, Recalled

LEMMA CollectionIndex ==
    ASSUME StoreOK
    PROVE  /\ readIndex(store[virtualKeysIndexKey]) = store[virtualKeysIndexKey].value
           /\ store[virtualKeysIndexKey].value \in SUBSET Keys
           /\ store[virtualKeysIndexKey].value
                = {k \in Keys : Exists(store[virtualKeyKey(k)])}
<1>1. store[virtualKeysIndexKey] \in Present(SUBSET Keys)
  BY Found DEF StoreOK
<1>2. readIndex(store[virtualKeysIndexKey]) = store[virtualKeysIndexKey].value
  BY <1>1, PresentTypes DEF readIndex
<1>3. readIndex(store[virtualKeysIndexKey]) = {k \in Keys : Exists(store[virtualKeyKey(k)])}
  BY DEF StoreOK, IndexesExact
<1> QED
  BY <1>2, <1>3

\* What a completed operation has read.
LEMMA AllRead ==
    ASSUME NEW r, Unread(r) = {}
    PROVE  Reads(r) \subseteq DOMAIN r.got
  BY DEF Unread

LEMMA CreateEffect ==
    ASSUME StoreOK, NEW r, OpOK(r, store, issued), r.op = "create", Unread(r) = {},
           store' = Transact(store, CreateVirtualKey(r))
    PROVE  store' = store \/ KeyPut(r.id, r.new)
<1> DEFINE k == r.id
           index == r.got[virtualKeysIndexKey]
           holders == Holders(r.new)
           own == Upsert(virtualKeyKey(k), r.new, NoETag)
                  ++ Upsert(virtualKeysIndexKey, addIndexID(index, k), index.etag)
                  ++ Upsert(hashLookupKey(k), k, NoETag)
           tx == own ++ HolderOperations(r, holders, holders)
           allowed == /\ ~Exists(r.got[virtualKeyKey(k)])
                      /\ ~Exists(r.got[hashLookupKey(k)])
                      /\ \A s \in holders : ensureCanHold(r.got[subjectKey(s)], r.new)
<1>1. /\ k \in Keys /\ r.new \in VirtualKey /\ holders \subseteq Subjects
      /\ StoreTyped /\ ReadOK(r, store) /\ store[virtualKeyKey(k)] = Absent
  BY HoldersAreSubjects DEF OpOK, OpTyped, StoreOK
<1>2. /\ HolderKeys(holders) \subseteq DOMAIN r.got
      /\ virtualKeysIndexKey \in DOMAIN r.got
  BY AllRead DEF Reads
<1>3. CASE ~allowed
  <2>1. CreateVirtualKey(r) = NoOperation
    BY <1>3 DEF CreateVirtualKey
  <2> QED
    BY <1>1, <2>1, NothingDone
<1>4. CASE allowed /\ ~Current(store, CreateVirtualKey(r))
  BY <1>1, <1>4, NothingDone
<1>5. ASSUME allowed, Current(store, CreateVirtualKey(r)) PROVE KeyPut(r.id, r.new)
  <2>1. CreateVirtualKey(r) = tx
    BY <1>5 DEF CreateVirtualKey
  <2>2. /\ DOMAIN own = {virtualKeyKey(k), virtualKeysIndexKey, hashLookupKey(k)}
        /\ own[virtualKeyKey(k)] = Put(r.new, NoETag)
        /\ own[virtualKeysIndexKey] = Put(addIndexID(index, k), index.etag)
        /\ own[hashLookupKey(k)] = Put(k, NoETag)
    BY <1>1, KeysDistinct DEF ++, Upsert
  <2> HIDE DEF own
  <2>3. \A key \in DOMAIN own : key \notin HolderKeys(Subjects)
    BY <1>1, <2>2, ApartFromHolders
  <2>4. /\ Rewrites(tx, r, holders, holders)
        /\ \A key \in DOMAIN own : key \in DOMAIN tx /\ tx[key] = own[key]
        /\ \A key \in DOMAIN tx : key \in DOMAIN own \/ key \in HolderKeys(Subjects)
    <3> HIDE DEF k, index
    <3> QED
      BY <1>1, <1>2, <2>3, JoinRewrites
  <2> HIDE DEF tx
  <2>5. Current(store, tx) /\ store' = Applied(store, tx)
    BY <1>5, <2>1 DEF Transact
  <2>6. /\ store' = [key \in StoreKeys |-> store'[key]]
        /\ \A key \in StoreKeys : key \notin DOMAIN tx => Same(key)
        /\ \A key \in StoreKeys : key \in DOMAIN tx =>
              store'[key] = IF tx[key].type = "delete" THEN Absent
                            ELSE Entry(tx[key].value, store[key].etag + 1)
    BY <1>1, <2>5, AppliedIs
  <2>7. HoldersWritten(r, holders, holders)
    BY <1>1, <2>4, <2>5, HolderEffect
  <2>8. \A s \in holders : ensureCanHold(store[subjectKey(s)], r.new)
    BY <1>5, <2>7 DEF HoldersWritten
  <2>9. KeyStep(k, holders)
    <3>1. ~Exists(store[virtualKeyKey(k)])
      BY <1>1 DEF Exists, Absent
    <3>2. \A s \in Subjects : HolderStep(k, s, holders)
      BY <1>1, <2>4, <2>5, <3>1, HoldersStep
    <3>3. ASSUME NEW j \in Keys \ {k}
          PROVE  Same(virtualKeyKey(j)) /\ Same(hashLookupKey(j))
      <4>1. virtualKeyKey(j) \notin DOMAIN tx /\ hashLookupKey(j) \notin DOMAIN tx
        BY <1>1, <2>2, <2>4, KeysDistinct, ApartFromHolders
      <4> QED
        BY <4>1, <2>6, KeysStored
    <3> QED
      BY <2>6, <3>2, <3>3 DEF KeyStep
  <2>10. CollectionStep(store[virtualKeysIndexKey].value \cup {k})
    <3>1. /\ virtualKeysIndexKey \in DOMAIN tx
          /\ tx[virtualKeysIndexKey] = Put(addIndexID(index, k), index.etag)
      BY <2>2, <2>4
    <3>2. tx[virtualKeysIndexKey].etag = index.etag
      BY <3>1 DEF Put
    <3>3. index = store[virtualKeysIndexKey]
      BY <1>1, <1>2, <2>5, <3>1, <3>2, CollectionCurrent
    <3>4. addIndexID(index, k) = store[virtualKeysIndexKey].value \cup {k}
      BY <3>3, CollectionIndex DEF addIndexID
    <3>t. /\ tx[virtualKeysIndexKey].type = "upsert"
          /\ tx[virtualKeysIndexKey].value = store[virtualKeysIndexKey].value \cup {k}
      BY <3>1, <3>4 DEF Put
    <3>5. store'[virtualKeysIndexKey]
            = Entry(store[virtualKeysIndexKey].value \cup {k},
                    store[virtualKeysIndexKey].etag + 1)
      BY <2>6, <3>1, <3>t, KeysStored
    <3>6. store[virtualKeysIndexKey].value \cup {k} \in SUBSET Keys
      BY <1>1, CollectionIndex
    <3> QED
      BY <3>5, <3>6, CollectionWritten
  <2>11. store'[virtualKeyKey(k)] = Entry(r.new, store[virtualKeyKey(k)].etag + 1)
    <3>1. virtualKeyKey(k) \in DOMAIN tx /\ tx[virtualKeyKey(k)] = Put(r.new, NoETag)
      BY <2>2, <2>4
    <3> QED
      BY <1>1, <2>6, <3>1, KeysStored DEF Put
  <2>12. store'[hashLookupKey(k)] \in Present({k})
    <3>1. hashLookupKey(k) \in DOMAIN tx /\ tx[hashLookupKey(k)] = Put(k, NoETag)
      BY <2>2, <2>4
    <3>2. store'[hashLookupKey(k)] = Entry(k, store[hashLookupKey(k)].etag + 1)
      BY <1>1, <2>6, <3>1, KeysStored DEF Put
    <3>3. store[hashLookupKey(k)].etag \in Nat
      BY <1>1, Found, EntryTypes
    <3> QED
      BY <3>2, <3>3, NewEntry
  <2> QED
    BY <1>1, <2>8, <2>9, <2>10, <2>11, <2>12 DEF KeyPut
<1> QED
  BY <1>3, <1>4, <1>5

LEMMA ReplaceEffect ==
    ASSUME StoreOK, NEW r, OpOK(r, store, issued), r.op = "replace", Unread(r) = {},
           store' = Transact(store, ReplaceVirtualKey(r))
    PROVE  \/ store' = store
           \/ KeyPut(r.id, r.new) /\ Exists(store[virtualKeyKey(r.id)])
<1> DEFINE k == r.id
           entity == r.got[virtualKeyKey(k)]
           after == Holders(r.new)
           holders == Holders(r.old) \cup Holders(r.new)
           own == Upsert(virtualKeyKey(k), r.new, entity.etag)
                  ++ Upsert(hashLookupKey(k), k, NoETag)
           tx == own ++ HolderOperations(r, holders, after)
           allowed == /\ Unchanged(r)
                      /\ NameFree(r.got[hashLookupKey(k)], k)
                      /\ Exists(r.got[subjectKey(r.old.user)])
                      /\ \A s \in after : ensureCanHold(r.got[subjectKey(s)], r.new)
                      /\ ModelsReleasable(r, r.old.models \ r.new.models)
<1>1. /\ k \in Keys /\ r.new \in VirtualKey /\ holders \subseteq Subjects
      /\ after \subseteq holders
      /\ StoreTyped /\ ReadOK(r, store)
  BY HoldersAreSubjects DEF OpOK, OpTyped, StoreOK
<1>2. /\ HolderKeys(holders) \subseteq DOMAIN r.got
      /\ virtualKeyKey(k) \in DOMAIN r.got
  BY AllRead DEF Reads
<1>3. CASE ~allowed
  <2>1. ReplaceVirtualKey(r) = NoOperation
    BY <1>3 DEF ReplaceVirtualKey
  <2> QED
    BY <1>1, <2>1, NothingDone
<1>4. CASE allowed /\ ~Current(store, ReplaceVirtualKey(r))
  BY <1>1, <1>4, NothingDone
<1>5. ASSUME allowed, Current(store, ReplaceVirtualKey(r))
      PROVE  KeyPut(r.id, r.new) /\ Exists(store[virtualKeyKey(r.id)])
  <2>1. ReplaceVirtualKey(r) = tx
    BY <1>5 DEF ReplaceVirtualKey
  <2>2. /\ DOMAIN own = {virtualKeyKey(k), hashLookupKey(k)}
        /\ own[virtualKeyKey(k)] = Put(r.new, entity.etag)
        /\ own[hashLookupKey(k)] = Put(k, NoETag)
    BY <1>1, KeysDistinct DEF ++, Upsert
  <2> HIDE DEF own
  <2>3. \A key \in DOMAIN own : key \notin HolderKeys(Subjects)
    BY <1>1, <2>2, ApartFromHolders
  <2>4. /\ Rewrites(tx, r, holders, after)
        /\ \A key \in DOMAIN own : key \in DOMAIN tx /\ tx[key] = own[key]
        /\ \A key \in DOMAIN tx : key \in DOMAIN own \/ key \in HolderKeys(Subjects)
    <3> HIDE DEF k, entity, holders, after
    <3> QED
      BY <1>1, <1>2, <2>3, JoinRewrites
  <2> HIDE DEF tx
  <2>5. Current(store, tx) /\ store' = Applied(store, tx)
    BY <1>5, <2>1 DEF Transact
  <2>6. /\ store' = [key \in StoreKeys |-> store'[key]]
        /\ \A key \in StoreKeys : key \notin DOMAIN tx => Same(key)
        /\ \A key \in StoreKeys : key \in DOMAIN tx =>
              store'[key] = IF tx[key].type = "delete" THEN Absent
                            ELSE Entry(tx[key].value, store[key].etag + 1)
    BY <1>1, <2>5, AppliedIs
  <2>7. HoldersWritten(r, holders, after)
    BY <1>1, <2>4, <2>5, HolderEffect
  <2>8. \A s \in after : ensureCanHold(store[subjectKey(s)], r.new)
    BY <1>1, <1>5, <2>7 DEF HoldersWritten
  <2>k. virtualKeyKey(k) \in DOMAIN tx /\ tx[virtualKeyKey(k)] = Put(r.new, entity.etag)
    BY <2>2, <2>4
  <2>e. store[virtualKeyKey(k)] = entity /\ Exists(entity) /\ entity.value = r.old
    <3>1. Exists(entity) /\ entity.value = r.old
      BY <1>5 DEF Unchanged
    <3>2. tx[virtualKeyKey(k)].etag = entity.etag
      BY <2>k DEF Put
    <3> QED
      BY <1>1, <1>2, <2>5, <2>k, <3>1, <3>2, KeyCurrent
  <2>9. KeyStep(k, after)
    <3>1. Exists(store[virtualKeyKey(k)]) =>
             Holders(store[virtualKeyKey(k)].value) \subseteq holders
      BY <2>e
    <3>2. \A s \in Subjects : HolderStep(k, s, after)
      BY <1>1, <2>4, <2>5, <3>1, HoldersStep
    <3>3. ASSUME NEW j \in Keys \ {k}
          PROVE  Same(virtualKeyKey(j)) /\ Same(hashLookupKey(j))
      <4>1. virtualKeyKey(j) \notin DOMAIN tx /\ hashLookupKey(j) \notin DOMAIN tx
        BY <1>1, <2>2, <2>4, KeysDistinct, ApartFromHolders
      <4> QED
        BY <4>1, <2>6, KeysStored
    <3> QED
      BY <2>6, <3>2, <3>3 DEF KeyStep
  <2>10. CollectionStep(store[virtualKeysIndexKey].value \cup {k})
    <3>1. virtualKeysIndexKey \notin DOMAIN tx
      BY <1>1, <2>2, <2>4, KeysDistinct, ApartFromHolders
    <3>2. store'[virtualKeysIndexKey] = store[virtualKeysIndexKey]
      BY <2>6, <3>1, KeysStored DEF Same
    <3>3. store[virtualKeysIndexKey].value = store[virtualKeysIndexKey].value \cup {k}
      BY <1>1, <2>e, CollectionIndex
    <3> QED
      BY <1>1, <3>2, <3>3, Found DEF CollectionStep, Recalled
  <2>11. store'[virtualKeyKey(k)] = Entry(r.new, store[virtualKeyKey(k)].etag + 1)
    BY <1>1, <2>6, <2>k, KeysStored DEF Put
  <2>12. store'[hashLookupKey(k)] \in Present({k})
    <3>1. hashLookupKey(k) \in DOMAIN tx /\ tx[hashLookupKey(k)] = Put(k, NoETag)
      BY <2>2, <2>4
    <3>2. store'[hashLookupKey(k)] = Entry(k, store[hashLookupKey(k)].etag + 1)
      BY <1>1, <2>6, <3>1, KeysStored DEF Put
    <3>3. store[hashLookupKey(k)].etag \in Nat
      BY <1>1, Found, EntryTypes
    <3> QED
      BY <3>2, <3>3, NewEntry
  <2> QED
    BY <1>1, <2>e, <2>8, <2>9, <2>10, <2>11, <2>12 DEF KeyPut
<1> QED
  BY <1>3, <1>4, <1>5

LEMMA DeleteEffect ==
    ASSUME StoreOK, NEW r, OpOK(r, store, issued), r.op = "delete", Unread(r) = {},
           store' = Transact(store, DeleteVirtualKey(r))
    PROVE  store' = store \/ KeyDropped(r.id)
<1> DEFINE k == r.id
           entity == r.got[virtualKeyKey(k)]
           index == r.got[virtualKeysIndexKey]
           holders == Holders(r.old)
           own == Delete(virtualKeyKey(k), entity.etag)
                  ++ Upsert(virtualKeysIndexKey, removeIndexID(index, k), index.etag)
                  ++ Delete(hashLookupKey(k), NoETag)
           tx == own ++ HolderOperations(r, holders, {})
           allowed == /\ Unchanged(r)
                      /\ Exists(r.got[subjectKey(r.old.user)])
                      /\ ModelsReleasable(r, r.old.models)
<1>1. /\ k \in Keys /\ holders \subseteq Subjects
      /\ StoreTyped /\ ReadOK(r, store)
  BY HoldersAreSubjects DEF OpOK, OpTyped, StoreOK
<1>2. /\ HolderKeys(holders) \subseteq DOMAIN r.got
      /\ virtualKeyKey(k) \in DOMAIN r.got
      /\ virtualKeysIndexKey \in DOMAIN r.got
  BY AllRead DEF Reads
<1>3. CASE ~allowed
  <2>1. DeleteVirtualKey(r) = NoOperation
    BY <1>3 DEF DeleteVirtualKey
  <2> QED
    BY <1>1, <2>1, NothingDone
<1>4. CASE allowed /\ ~Current(store, DeleteVirtualKey(r))
  BY <1>1, <1>4, NothingDone
<1>5. ASSUME allowed, Current(store, DeleteVirtualKey(r)) PROVE KeyDropped(r.id)
  <2>1. DeleteVirtualKey(r) = tx
    BY <1>5 DEF DeleteVirtualKey
  <2>2. /\ DOMAIN own = {virtualKeyKey(k), virtualKeysIndexKey, hashLookupKey(k)}
        /\ own[virtualKeyKey(k)] = Remove(entity.etag)
        /\ own[virtualKeysIndexKey] = Put(removeIndexID(index, k), index.etag)
        /\ own[hashLookupKey(k)] = Remove(NoETag)
    BY <1>1, KeysDistinct DEF ++, Upsert, Delete
  <2> HIDE DEF own
  <2>3. \A key \in DOMAIN own : key \notin HolderKeys(Subjects)
    BY <1>1, <2>2, ApartFromHolders
  <2>4. /\ Rewrites(tx, r, holders, {})
        /\ \A key \in DOMAIN own : key \in DOMAIN tx /\ tx[key] = own[key]
        /\ \A key \in DOMAIN tx : key \in DOMAIN own \/ key \in HolderKeys(Subjects)
    <3>1. {} \subseteq holders
      OBVIOUS
    <3> HIDE DEF k, entity, holders, index
    <3> QED
      BY <1>1, <1>2, <2>3, <3>1, JoinRewrites
  <2> HIDE DEF tx
  <2>5. Current(store, tx) /\ store' = Applied(store, tx)
    BY <1>5, <2>1 DEF Transact
  <2>6. /\ store' = [key \in StoreKeys |-> store'[key]]
        /\ \A key \in StoreKeys : key \notin DOMAIN tx => Same(key)
        /\ \A key \in StoreKeys : key \in DOMAIN tx =>
              store'[key] = IF tx[key].type = "delete" THEN Absent
                            ELSE Entry(tx[key].value, store[key].etag + 1)
    BY <1>1, <2>5, AppliedIs
  <2>k. virtualKeyKey(k) \in DOMAIN tx /\ tx[virtualKeyKey(k)] = Remove(entity.etag)
    BY <2>2, <2>4
  <2>e. store[virtualKeyKey(k)] = entity /\ Exists(entity) /\ entity.value = r.old
    <3>1. Exists(entity) /\ entity.value = r.old
      BY <1>5 DEF Unchanged
    <3>2. tx[virtualKeyKey(k)].etag = entity.etag
      BY <2>k DEF Remove
    <3> QED
      BY <1>1, <1>2, <2>5, <2>k, <3>1, <3>2, KeyCurrent
  <2>9. KeyStep(k, {})
    <3>1. Exists(store[virtualKeyKey(k)]) =>
             Holders(store[virtualKeyKey(k)].value) \subseteq holders
      BY <2>e
    <3>2. \A s \in Subjects : HolderStep(k, s, {})
      BY <1>1, <2>4, <2>5, <3>1, HoldersStep
    <3>3. ASSUME NEW j \in Keys \ {k}
          PROVE  Same(virtualKeyKey(j)) /\ Same(hashLookupKey(j))
      <4>1. virtualKeyKey(j) \notin DOMAIN tx /\ hashLookupKey(j) \notin DOMAIN tx
        BY <1>1, <2>2, <2>4, KeysDistinct, ApartFromHolders
      <4> QED
        BY <4>1, <2>6, KeysStored
    <3> QED
      BY <2>6, <3>2, <3>3 DEF KeyStep
  <2>10. CollectionStep(store[virtualKeysIndexKey].value \ {k})
    <3>1. /\ virtualKeysIndexKey \in DOMAIN tx
          /\ tx[virtualKeysIndexKey] = Put(removeIndexID(index, k), index.etag)
      BY <2>2, <2>4
    <3>2. tx[virtualKeysIndexKey].etag = index.etag
      BY <3>1 DEF Put
    <3>3. index = store[virtualKeysIndexKey]
      BY <1>1, <1>2, <2>5, <3>1, <3>2, CollectionCurrent
    <3>4. removeIndexID(index, k) = store[virtualKeysIndexKey].value \ {k}
      BY <3>3, CollectionIndex DEF removeIndexID
    <3>t. /\ tx[virtualKeysIndexKey].type = "upsert"
          /\ tx[virtualKeysIndexKey].value = store[virtualKeysIndexKey].value \ {k}
      BY <3>1, <3>4 DEF Put
    <3>5. store'[virtualKeysIndexKey]
            = Entry(store[virtualKeysIndexKey].value \ {k},
                    store[virtualKeysIndexKey].etag + 1)
      BY <2>6, <3>1, <3>t, KeysStored
    <3>6. store[virtualKeysIndexKey].value \ {k} \in SUBSET Keys
      BY <1>1, CollectionIndex
    <3> QED
      BY <3>5, <3>6, CollectionWritten
  <2>11. store'[virtualKeyKey(k)] = Absent
    BY <1>1, <2>6, <2>k, KeysStored DEF Remove
  <2>12. store'[hashLookupKey(k)] = Absent
    <3>1. hashLookupKey(k) \in DOMAIN tx /\ tx[hashLookupKey(k)] = Remove(NoETag)
      BY <2>2, <2>4
    <3> QED
      BY <1>1, <2>6, <3>1, KeysStored DEF Remove
  <2> QED
    BY <1>1, <2>e, <2>9, <2>10, <2>11, <2>12 DEF KeyDropped
<1> QED
  BY <1>3, <1>4, <1>5

\* The subject that was read is the one stored, and so is its index.
LEMMA SyncEffect ==
    ASSUME StoreOK, NEW r, OpOK(r, store, issued), r.op \in {"sync", "fence"}, Unread(r) = {},
           store' = Transact(store, Transaction(r))
    PROVE  store' = store \/ SubjectPut(r.id, r.new)
<1> DEFINE s == r.id
           current == r.got[subjectKey(s)]
           tx == Upsert(subjectKey(s), r.new, current.etag)
<1>1. /\ s \in Subjects /\ r.new \in Subject
      /\ StoreTyped /\ ReadOK(r, store)
      /\ r.op = "sync" => ~r.new.deleted
  BY DEF OpOK, OpTyped, StoreOK
<1>2. /\ subjectKey(s) \in DOMAIN r.got
      /\ r.op = "fence" => virtualKeysByIndexKey(s) \in DOMAIN r.got
  BY AllRead DEF Reads, HolderKeys
<1>3. Transaction(r) = IF r.op = "sync" THEN SyncSubject(r) ELSE FenceSubject(r)
  BY DEF Transaction
<1>4. \/ Transaction(r) = NoOperation
      \/ /\ Transaction(r) = tx
         /\ compareSubjectUpdate(current, r.new)
         /\ r.op = "fence" => readIndex(r.got[virtualKeysByIndexKey(s)]) = {}
  BY <1>3 DEF SyncSubject, FenceSubject
<1>5. CASE Transaction(r) = NoOperation \/ ~Current(store, Transaction(r))
  BY <1>1, <1>5, NothingDone
<1>6. ASSUME Transaction(r) = tx, compareSubjectUpdate(current, r.new), Current(store, tx),
             r.op = "fence" => readIndex(r.got[virtualKeysByIndexKey(s)]) = {}
      PROVE  SubjectPut(s, r.new)
  <2>1. DOMAIN tx = {subjectKey(s)} /\ tx[subjectKey(s)] = Put(r.new, current.etag)
    BY DEF Upsert
  <2>2. current \in Present(Subject) /\ store[subjectKey(s)] \in Present(Subject)
    BY <1>1, <1>2, Reading, Found
  <2>3. /\ current.etag \in Nat /\ current.etag > 0 /\ Exists(current)
        /\ store[subjectKey(s)].etag \in Nat
    BY <2>2, PresentTypes
  <2> HIDE DEF tx
  <2>4. current.etag = store[subjectKey(s)].etag
    BY <1>6, <2>1, <2>3 DEF Current, Put, NoETag
  <2>5. HolderRecalled(r, s, store)
    BY <1>1 DEF ReadOK
  <2>6. current = store[subjectKey(s)]
    BY <1>2, <2>3, <2>4, <2>5 DEF HolderRecalled, Recalled
  <2>7. r.op = "fence" => readIndex(store[virtualKeysByIndexKey(s)]) = {}
    BY <1>2, <1>6, <2>5, <2>6 DEF HolderRecalled
  <2>8. store' = Applied(store, tx)
    BY <1>6 DEF Transact
  <2>9. /\ store' = [key \in StoreKeys |-> store'[key]]
        /\ \A key \in StoreKeys : key \notin DOMAIN tx => Same(key)
        /\ \A key \in StoreKeys : key \in DOMAIN tx =>
              store'[key] = IF tx[key].type = "delete" THEN Absent
                            ELSE Entry(tx[key].value, store[key].etag + 1)
    BY <1>1, <2>8, AppliedIs
  <2>10. store'[subjectKey(s)] = Entry(r.new, store[subjectKey(s)].etag + 1)
    BY <1>1, <2>1, <2>9, KeysStored DEF Put
  <2>11. /\ r.new.revision > store[subjectKey(s)].value.revision
         /\ store[subjectKey(s)].value.deleted => r.new.deleted
    BY <1>6, <2>3, <2>6 DEF compareSubjectUpdate
  <2>12. r.new.deleted => readIndex(store[virtualKeysByIndexKey(s)]) = {}
    BY <1>1, <2>7
  <2> QED
    BY <1>1, <2>1, <2>9, <2>10, <2>11, <2>12 DEF SubjectPut
<1> QED
  BY <1>4, <1>5, <1>6

\* Whatever is committed, and whenever it lands.
LEMMA TransactionEffect ==
    ASSUME StoreOK, NEW r, OpOK(r, store, issued), Unread(r) = {},
           store' = Transact(store, Transaction(r))
    PROVE  \/ store' = store
           \/ /\ r.op \in {"create", "replace"} /\ KeyPut(r.id, r.new)
              /\ r.op = "replace" => Exists(store[virtualKeyKey(r.id)])
           \/ r.op = "delete" /\ KeyDropped(r.id)
           \/ r.op \in {"sync", "fence"} /\ SubjectPut(r.id, r.new)
<1>1. r.op \in {"create", "replace", "delete", "sync", "fence"}
  BY DEF OpOK, OpTyped
<1>2. CASE r.op = "create"
  BY <1>2, CreateEffect DEF Transaction
<1>3. CASE r.op = "replace"
  BY <1>3, ReplaceEffect DEF Transaction
<1>4. CASE r.op = "delete"
  BY <1>4, DeleteEffect DEF Transaction
<1>5. CASE r.op \in {"sync", "fence"}
  BY <1>5, SyncEffect
<1> QED
  BY <1>1, <1>2, <1>3, <1>4, <1>5

-----------------------------------------------------------------------------
(***************************************************************************)
(* The store stays in order.                                               *)
(***************************************************************************)
LEMMA SubjectIs ==
    ASSUME StoreTyped, NEW s \in Subjects
    PROVE  SubjectOf(s) = store[subjectKey(s)].value /\ SubjectOf(s) \in Subject
           /\ SubjectOf(s) # None
  BY Found, PresentTypes, NoneAssumption DEF SubjectOf

LEMMA KeyIs ==
    ASSUME StoreTyped, NEW k \in Keys
    PROVE  /\ ~Exists(store[virtualKeyKey(k)]) => KeyOf(k) = None
           /\ Exists(store[virtualKeyKey(k)]) =>
                /\ store[virtualKeyKey(k)].value \in VirtualKey
                /\ KeyOf(k) \in [user : Users, models : SUBSET Models, status : Status]
                /\ KeyOf(k).user = store[virtualKeyKey(k)].value.user
                /\ KeyOf(k).models = store[virtualKeyKey(k)].value.models
                /\ KeyOf(k).status = store[virtualKeyKey(k)].value.status
                /\ KeyOf(k) # None
                /\ Holders(KeyOf(k)) = Holders(store[virtualKeyKey(k)].value)
<1>1. ~Exists(store[virtualKeyKey(k)]) => KeyOf(k) = None
  BY DEF KeyOf
<1>2. ASSUME Exists(store[virtualKeyKey(k)])
      PROVE  /\ store[virtualKeyKey(k)].value \in VirtualKey
             /\ KeyOf(k) \in [user : Users, models : SUBSET Models, status : Status]
             /\ KeyOf(k).user = store[virtualKeyKey(k)].value.user
             /\ KeyOf(k).models = store[virtualKeyKey(k)].value.models
             /\ KeyOf(k).status = store[virtualKeyKey(k)].value.status
  <2>1. store[virtualKeyKey(k)].value \in VirtualKey
    BY <1>2, Found, EntryTypes
  <2> QED
    BY <1>2, <2>1 DEF KeyOf, VirtualKey
<1> QED
  BY <1>1, <1>2, NoneAssumption DEF Holders

\* A key operation changes no subject and no other key.
LEMMA KeyStepKeeps ==
    ASSUME StoreTyped, NEW k \in Keys, NEW holders, KeyStep(k, holders)
    PROVE  /\ \A s \in Subjects :
                /\ store'[subjectKey(s)] \in Present(Subject)
                /\ store'[subjectKey(s)].value = store[subjectKey(s)].value
                /\ SubjectOf(s)' = SubjectOf(s)
                /\ store'[virtualKeysByIndexKey(s)] \in Entries(SUBSET Keys)
           /\ \A j \in Keys \ {k} : KeyOf(j)' = KeyOf(j)
<1>1. ASSUME NEW s \in Subjects
      PROVE  /\ store'[subjectKey(s)] \in Present(Subject)
             /\ store'[subjectKey(s)].value = store[subjectKey(s)].value
             /\ SubjectOf(s)' = SubjectOf(s)
             /\ store'[virtualKeysByIndexKey(s)] \in Entries(SUBSET Keys)
  <2>1. HolderStep(k, s, holders)
    BY DEF KeyStep
  <2>2. /\ store[subjectKey(s)] \in Present(Subject)
        /\ store[virtualKeysByIndexKey(s)] \in Entries(SUBSET Keys)
    BY Found
  <2>3. /\ store[subjectKey(s)].value \in Subject /\ store[subjectKey(s)].etag \in Nat
        /\ Exists(store[subjectKey(s)])
    BY <2>2, PresentTypes
  <2>4. /\ Entry(store[subjectKey(s)].value, store[subjectKey(s)].etag + 1) \in Present(Subject)
        /\ Entry(store[subjectKey(s)].value, store[subjectKey(s)].etag + 1).value
             = store[subjectKey(s)].value
        /\ Exists(Entry(store[subjectKey(s)].value, store[subjectKey(s)].etag + 1))
    BY <2>3, NewEntry
  <2>5. /\ store'[subjectKey(s)] \in Present(Subject)
        /\ store'[subjectKey(s)].value = store[subjectKey(s)].value
        /\ Exists(store'[subjectKey(s)])
    BY <2>1, <2>2, <2>3, <2>4 DEF HolderStep, Same, Touched
  <2>6. store'[virtualKeysByIndexKey(s)] \in Entries(SUBSET Keys)
    BY <2>1, <2>2 DEF HolderStep, Same, Entries
  <2>7. SubjectOf(s)' = store'[subjectKey(s)].value
    BY <2>5 DEF SubjectOf
  <2>8. SubjectOf(s) = store[subjectKey(s)].value
    BY <2>3 DEF SubjectOf
  <2> QED
    BY <2>5, <2>6, <2>7, <2>8
<1>2. ASSUME NEW j \in Keys \ {k} PROVE KeyOf(j)' = KeyOf(j)
  BY DEF KeyStep, Same, KeyOf
<1> QED
  BY <1>1, <1>2

\* Types after an operation on the key k.
LEMMA KeyStepTyped ==
    ASSUME StoreTyped, NEW k \in Keys, NEW holders, KeyStep(k, holders),
           store'[virtualKeyKey(k)] \in Entries(VirtualKey),
           store'[hashLookupKey(k)] \in Entries({k}),
           store'[virtualKeysIndexKey] \in Present(SUBSET Keys)
    PROVE  StoreTyped'
<1>1. ASSUME NEW j \in Keys
      PROVE  /\ store'[virtualKeyKey(j)] \in Entries(VirtualKey)
             /\ store'[hashLookupKey(j)] \in Entries({j})
  <2>1. CASE j = k
    BY <2>1
  <2>2. CASE j # k
    BY <2>2, Found DEF KeyStep, Same
  <2> QED
    BY <2>1, <2>2
<1>2. \A s \in Subjects :
        /\ store'[subjectKey(s)] \in Present(Subject)
        /\ store'[virtualKeysByIndexKey(s)] \in Entries(SUBSET Keys)
  BY KeyStepKeeps
<1>3. \A key \in StoreKeys : OfType(key, store'[key])
  BY <1>1, <1>2 DEF OfType
<1>4. store' = [key \in StoreKeys |-> store'[key]]
  BY DEF KeyStep
<1> QED
  BY <1>3, <1>4 DEF StoreTyped

\* Writing or removing a key keeps the indexes exact.
LEMMA PutExact ==
    ASSUME StoreOK, NEW k, NEW key, KeyPut(k, key)
    PROVE  IndexesExact'
<1> DEFINE there(j) == Exists(store[virtualKeyKey(j)])
           there1(j) == Exists(store'[virtualKeyKey(j)])
<1>1. k \in Keys /\ KeyStep(k, Holders(key)) /\ StoreTyped /\ key \in VirtualKey
  BY DEF KeyPut, StoreOK
<1>2. there1(k) /\ \A j \in Keys \ {k} : there1(j) <=> there(j)
  <2>1. store[virtualKeyKey(k)].etag \in Nat
    BY <1>1, Found, EntryTypes
  <2>2. there1(k)
    BY <1>1, <2>1, NewEntry DEF KeyPut
  <2> QED
    BY <1>1, <2>2 DEF KeyStep, Same
<1>3. KeyOf(k)'.user = key.user /\ KeyOf(k)'.models = key.models
  <2>1. store'[virtualKeyKey(k)].value = key
    BY DEF KeyPut, Entry
  <2> QED
    BY <1>2, <2>1 DEF KeyOf
<1>4. Holders(KeyOf(k)') = Holders(key)
  BY <1>3 DEF Holders
<1>5. \A j \in Keys \ {k} : KeyOf(j)' = KeyOf(j)
  BY <1>1, KeyStepKeeps
<1>6. readIndex(store'[virtualKeysIndexKey]) = {j \in Keys : there1(j)}
  <2>1. readIndex(store'[virtualKeysIndexKey]) = store[virtualKeysIndexKey].value \cup {k}
    BY PresentTypes DEF KeyPut, CollectionStep, readIndex
  <2> QED
    BY <1>1, <1>2, <2>1, CollectionIndex
<1>7. ASSUME NEW s \in Subjects
      PROVE  readIndex(store'[virtualKeysByIndexKey(s)])
                = {j \in {i \in Keys : there1(i)} : s \in Holders(KeyOf(j)')}
  <2>1. readIndex(store'[virtualKeysByIndexKey(s)]) = Listing(s, k, Holders(key))
    BY <1>1 DEF KeyStep, HolderStep
  <2>2. readIndex(store[virtualKeysByIndexKey(s)])
          = {j \in {i \in Keys : there(i)} : s \in Holders(KeyOf(j))}
    BY DEF StoreOK, IndexesExact
  <2> QED
    BY <1>1, <1>2, <1>4, <1>5, <2>1, <2>2 DEF Listing
<1>8. ASSUME NEW j \in Keys
      PROVE  Exists(store'[hashLookupKey(j)]) <=> there1(j)
  <2>1. CASE j = k
    BY <1>2, <2>1, PresentTypes DEF KeyPut
  <2>2. CASE j # k
    BY <1>1, <1>2, <2>2 DEF KeyStep, Same, StoreOK, IndexesExact
  <2> QED
    BY <2>1, <2>2
<1> QED
  BY <1>6, <1>7, <1>8 DEF IndexesExact

LEMMA DropExact ==
    ASSUME StoreOK, NEW k, KeyDropped(k)
    PROVE  IndexesExact'
<1> DEFINE there(j) == Exists(store[virtualKeyKey(j)])
           there1(j) == Exists(store'[virtualKeyKey(j)])
<1>1. k \in Keys /\ KeyStep(k, {}) /\ StoreTyped
  BY DEF KeyDropped, StoreOK
<1>2. ~there1(k) /\ \A j \in Keys \ {k} : there1(j) <=> there(j)
  BY <1>1 DEF KeyDropped, KeyStep, Same, Exists, Absent
<1>5. \A j \in Keys \ {k} : KeyOf(j)' = KeyOf(j)
  BY <1>1, KeyStepKeeps
<1>6. readIndex(store'[virtualKeysIndexKey]) = {j \in Keys : there1(j)}
  <2>1. readIndex(store'[virtualKeysIndexKey]) = store[virtualKeysIndexKey].value \ {k}
    BY PresentTypes DEF KeyDropped, CollectionStep, readIndex
  <2> QED
    BY <1>1, <1>2, <2>1, CollectionIndex
<1>7. ASSUME NEW s \in Subjects
      PROVE  readIndex(store'[virtualKeysByIndexKey(s)])
                = {j \in {i \in Keys : there1(i)} : s \in Holders(KeyOf(j)')}
  <2>1. readIndex(store'[virtualKeysByIndexKey(s)]) = Listing(s, k, {})
    BY <1>1 DEF KeyStep, HolderStep
  <2>2. readIndex(store[virtualKeysByIndexKey(s)])
          = {j \in {i \in Keys : there(i)} : s \in Holders(KeyOf(j))}
    BY DEF StoreOK, IndexesExact
  <2> QED
    BY <1>1, <1>2, <1>5, <2>1, <2>2 DEF Listing
<1>8. ASSUME NEW j \in Keys
      PROVE  Exists(store'[hashLookupKey(j)]) <=> there1(j)
  <2>1. CASE j = k
    BY <1>2, <2>1 DEF KeyDropped, Exists, Absent
  <2>2. CASE j # k
    BY <1>1, <1>2, <2>2 DEF KeyStep, Same, StoreOK, IndexesExact
  <2> QED
    BY <2>1, <2>2
<1> QED
  BY <1>6, <1>7, <1>8 DEF IndexesExact

LEMMA PutKeepsStore ==
    ASSUME StoreOK, NEW k, NEW key, KeyPut(k, key), k \in issued, issued' = issued
    PROVE  StoreOK'
<1>1. k \in Keys /\ KeyStep(k, Holders(key)) /\ StoreTyped /\ key \in VirtualKey
  BY DEF KeyPut, StoreOK
<1>2. store[virtualKeyKey(k)].etag \in Nat
  BY <1>1, Found, EntryTypes
<1>3. store'[virtualKeyKey(k)] \in Present(VirtualKey) /\ store'[virtualKeyKey(k)].value = key
  BY <1>1, <1>2, NewEntry DEF KeyPut
<1>4. StoreTyped'
  <2>1. store'[virtualKeyKey(k)] \in Entries(VirtualKey)
    BY <1>3, PresentTypes
  <2>2. store'[hashLookupKey(k)] \in Entries({k})
    BY DEF KeyPut, Entries
  <2>3. store'[virtualKeysIndexKey] \in Present(SUBSET Keys)
    BY DEF KeyPut, CollectionStep
  <2> QED
    BY <1>1, <2>1, <2>2, <2>3, KeyStepTyped
<1>5. IndexesExact'
  BY PutExact
<1>6. HoldersLive'
  <2> SUFFICES ASSUME NEW j \in Keys, KeyOf(j)' # None, NEW s \in Holders(KeyOf(j)')
               PROVE  SubjectOf(s)' # None /\ ~SubjectOf(s)'.deleted
    BY DEF HoldersLive
  <2>1. CASE j = k
    <3>1. Exists(store'[virtualKeyKey(k)])
      BY <1>3, PresentTypes
    <3>2. KeyOf(k)'.user = key.user /\ KeyOf(k)'.models = key.models
      BY <1>3, <3>1 DEF KeyOf
    <3>3. s \in Holders(key)
      BY <2>1, <3>2 DEF Holders
    <3>4. s \in Subjects
      BY <1>1, <3>3, HoldersAreSubjects
    <3>5. ~store[subjectKey(s)].value.deleted
      BY <3>3 DEF KeyPut, ensureCanHold
    <3>6. SubjectOf(s)' = SubjectOf(s)
      BY <1>1, <3>4, KeyStepKeeps
    <3> QED
      BY <1>1, <3>4, <3>5, <3>6, SubjectIs
  <2>2. CASE j # k
    <3>1. KeyOf(j)' = KeyOf(j)
      BY <1>1, <2>2, KeyStepKeeps
    <3>2. KeyOf(j) # None /\ s \in Holders(KeyOf(j))
      BY <3>1
    <3>3. s \in Subjects
      BY <1>1, <3>2, KeyIs, HoldersAreSubjects
    <3>4. SubjectOf(s)' = SubjectOf(s)
      BY <1>1, <3>3, KeyStepKeeps
    <3> QED
      BY <3>2, <3>4 DEF StoreOK, HoldersLive
  <2> QED
    BY <2>1, <2>2
<1>7. ASSUME NEW j \in Keys, Exists(store'[virtualKeyKey(j)]) PROVE j \in issued'
  <2>1. CASE j = k
    BY <2>1
  <2>2. CASE j # k
    BY <1>1, <1>7, <2>2 DEF KeyStep, Same, StoreOK
  <2> QED
    BY <2>1, <2>2
<1> QED
  BY <1>4, <1>5, <1>6, <1>7 DEF StoreOK

LEMMA DropKeepsStore ==
    ASSUME StoreOK, NEW k, KeyDropped(k), issued' = issued
    PROVE  StoreOK'
<1>1. k \in Keys /\ KeyStep(k, {}) /\ StoreTyped
  BY DEF KeyDropped, StoreOK
<1>2. ~Exists(store'[virtualKeyKey(k)])
  BY DEF KeyDropped, Exists, Absent
<1>4. StoreTyped'
  <2>1. store'[virtualKeyKey(k)] \in Entries(VirtualKey)
    BY DEF KeyDropped, Entries
  <2>2. store'[hashLookupKey(k)] \in Entries({k})
    BY DEF KeyDropped, Entries
  <2>3. store'[virtualKeysIndexKey] \in Present(SUBSET Keys)
    BY DEF KeyDropped, CollectionStep
  <2> QED
    BY <1>1, <2>1, <2>2, <2>3, KeyStepTyped
<1>5. IndexesExact'
  BY DropExact
<1>6. HoldersLive'
  <2> SUFFICES ASSUME NEW j \in Keys, KeyOf(j)' # None, NEW s \in Holders(KeyOf(j)')
               PROVE  SubjectOf(s)' # None /\ ~SubjectOf(s)'.deleted
    BY DEF HoldersLive
  <2>1. j # k
    BY <1>2 DEF KeyOf
  <2>2. KeyOf(j)' = KeyOf(j)
    BY <1>1, <2>1, KeyStepKeeps
  <2>3. KeyOf(j) # None /\ s \in Holders(KeyOf(j))
    BY <2>2
  <2>4. s \in Subjects
    BY <1>1, <2>3, KeyIs, HoldersAreSubjects
  <2>5. SubjectOf(s)' = SubjectOf(s)
    BY <1>1, <2>4, KeyStepKeeps
  <2> QED
    BY <2>3, <2>5 DEF StoreOK, HoldersLive
<1>7. ASSUME NEW j \in Keys, Exists(store'[virtualKeyKey(j)]) PROVE j \in issued'
  BY <1>1, <1>2, <1>7 DEF KeyStep, Same, StoreOK
<1> QED
  BY <1>4, <1>5, <1>6, <1>7 DEF StoreOK

\* A subject is written: no other entry changes.
LEMMA SubjectKeeps ==
    ASSUME StoreTyped, NEW s, NEW subject, SubjectPut(s, subject)
    PROVE  /\ s \in Subjects /\ subject \in Subject
           /\ \A k \in Keys : Same(virtualKeyKey(k)) /\ Same(hashLookupKey(k))
           /\ \A t \in Subjects : Same(virtualKeysByIndexKey(t))
           /\ \A t \in Subjects \ {s} : Same(subjectKey(t))
           /\ Same(virtualKeysIndexKey)
           /\ store'[subjectKey(s)] \in Present(Subject)
           /\ store'[subjectKey(s)].value = subject
           /\ store'[subjectKey(s)].etag = store[subjectKey(s)].etag + 1
           /\ Exists(store'[subjectKey(s)])
<1>1. s \in Subjects /\ subject \in Subject
  BY DEF SubjectPut
<1>2. \A key \in StoreKeys \ {subjectKey(s)} : Same(key)
  BY DEF SubjectPut
<1>3. /\ \A k \in Keys : Same(virtualKeyKey(k)) /\ Same(hashLookupKey(k))
      /\ \A t \in Subjects : Same(virtualKeysByIndexKey(t))
      /\ \A t \in Subjects \ {s} : Same(subjectKey(t))
      /\ Same(virtualKeysIndexKey)
  BY <1>1, <1>2, KeysStored, HolderKeysDistinct, HoldersAreApart
<1>4. store[subjectKey(s)].etag \in Nat
  BY <1>1, Found, PresentTypes
<1> QED
  BY <1>1, <1>3, <1>4, NewEntry DEF SubjectPut

LEMMA SubjectKeepsStore ==
    ASSUME StoreOK, NEW s, NEW subject, SubjectPut(s, subject), issued' = issued
    PROVE  StoreOK'
<1>1. StoreTyped
  BY DEF StoreOK
<1>2. /\ s \in Subjects /\ subject \in Subject
      /\ \A k \in Keys : Same(virtualKeyKey(k)) /\ Same(hashLookupKey(k))
      /\ \A t \in Subjects : Same(virtualKeysByIndexKey(t))
      /\ \A t \in Subjects \ {s} : Same(subjectKey(t))
      /\ Same(virtualKeysIndexKey)
      /\ store'[subjectKey(s)] \in Present(Subject)
      /\ store'[subjectKey(s)].value = subject
      /\ Exists(store'[subjectKey(s)])
  BY <1>1, SubjectKeeps
<1>3. StoreTyped'
  <2>1. \A t \in Subjects : store'[subjectKey(t)] \in Present(Subject)
    BY <1>1, <1>2, Found DEF Same
  <2>2. /\ \A k \in Keys : store'[virtualKeyKey(k)] \in Entries(VirtualKey)
                           /\ store'[hashLookupKey(k)] \in Entries({k})
        /\ \A t \in Subjects : store'[virtualKeysByIndexKey(t)] \in Entries(SUBSET Keys)
        /\ store'[virtualKeysIndexKey] \in Present(SUBSET Keys)
    BY <1>1, <1>2, Found DEF Same
  <2>3. \A key \in StoreKeys : OfType(key, store'[key])
    BY <2>1, <2>2 DEF OfType
  <2> QED
    BY <2>3 DEF StoreTyped, SubjectPut
<1>4. \A k \in Keys : KeyOf(k)' = KeyOf(k)
  BY <1>2 DEF KeyOf, Same
<1>5. IndexesExact'
  <2>1. IndexesExact
    BY DEF StoreOK
  <2>2. \A k \in Keys : Exists(store'[virtualKeyKey(k)]) <=> Exists(store[virtualKeyKey(k)])
    BY <1>2 DEF Same
  <2> QED
    BY <1>2, <1>4, <2>1, <2>2 DEF IndexesExact, Same
<1>6. HoldersLive'
  <2> SUFFICES ASSUME NEW j \in Keys, KeyOf(j)' # None, NEW t \in Holders(KeyOf(j)')
               PROVE  SubjectOf(t)' # None /\ ~SubjectOf(t)'.deleted
    BY DEF HoldersLive
  <2>1. KeyOf(j) # None /\ t \in Holders(KeyOf(j))
    BY <1>4
  <2>2. Exists(store[virtualKeyKey(j)]) /\ t \in Subjects
    BY <1>1, <2>1, KeyIs, HoldersAreSubjects
  <2>3. SubjectOf(t) # None /\ ~SubjectOf(t).deleted
    BY <2>1 DEF StoreOK, HoldersLive
  <2>4. CASE t # s
    <3>1. SubjectOf(t)' = SubjectOf(t)
      BY <1>2, <2>2, <2>4 DEF SubjectOf, Same
    <3> QED
      BY <2>3, <3>1
  <2>5. CASE t = s
    <3>1. SubjectOf(s)' = subject
      BY <1>2 DEF SubjectOf
    <3>2. j \in readIndex(store[virtualKeysByIndexKey(s)])
      BY <2>1, <2>2, <2>5 DEF StoreOK, IndexesExact
    <3>3. ~subject.deleted
      BY <3>2 DEF SubjectPut
    <3>4. subject # None
      BY <1>2, NoneAssumption
    <3> QED
      BY <2>5, <3>1, <3>3, <3>4
  <2> QED
    BY <2>4, <2>5
<1>7. ASSUME NEW j \in Keys, Exists(store'[virtualKeyKey(j)]) PROVE j \in issued'
  BY <1>2, <1>7 DEF Same, StoreOK
<1> QED
  BY <1>3, <1>5, <1>6, <1>7 DEF StoreOK

-----------------------------------------------------------------------------
(***************************************************************************)
(* What an operation has read stays true of the store, or out of date for  *)
(* good, whatever the others commit.                                       *)
(***************************************************************************)
\* Subject and index of a holder are both left alone, or the subject's ETag moves.
HolderMoves(s) ==
    \/ Same(subjectKey(s)) /\ Same(virtualKeysByIndexKey(s))
    \/ store'[subjectKey(s)].etag = store[subjectKey(s)].etag + 1

\* A key that is there changes its ETag or goes; one that is not stays away.
KeyMoves(k) ==
    \/ Same(virtualKeyKey(k))
    \/ store'[virtualKeyKey(k)] = Absent
    \/ /\ store[virtualKeyKey(k)] # Absent
       /\ store'[virtualKeyKey(k)].etag = store[virtualKeyKey(k)].etag + 1

Moves ==
    /\ \A s \in Subjects : HolderMoves(s)
    /\ Recalled(store[virtualKeysIndexKey], store'[virtualKeysIndexKey])
    /\ store'[virtualKeysIndexKey] \in Present(SUBSET Keys)

LEMMA ReadStays ==
    ASSUME StoreTyped, NEW r, OpTyped(r), ReadOK(r, store), Moves,
           r.op \in {"replace", "delete"} => KeyMoves(r.id)
    PROVE  ReadOK(r, store')
<1>1. ASSUME NEW s \in Subjects PROVE HolderRecalled(r, s, store')
  <2>1. HolderRecalled(r, s, store) /\ HolderMoves(s)
    BY DEF ReadOK, Moves
  <2>2. store[subjectKey(s)].etag \in Nat
    BY Found, PresentTypes
  <2>3. subjectKey(s) \in DOMAIN r.got => r.got[subjectKey(s)].etag \in Nat
    BY Reading, PresentTypes
  <2>4. CASE Same(subjectKey(s)) /\ Same(virtualKeysByIndexKey(s))
    BY <2>1, <2>4 DEF HolderRecalled, Same
  <2>5. CASE store'[subjectKey(s)].etag = store[subjectKey(s)].etag + 1
    <3>1. subjectKey(s) \in DOMAIN r.got =>
             /\ r.got[subjectKey(s)].etag < store'[subjectKey(s)].etag
             /\ r.got[subjectKey(s)] # store'[subjectKey(s)]
      BY <2>1, <2>2, <2>3, <2>5 DEF HolderRecalled, Recalled
    <3> QED
      BY <2>1, <3>1 DEF HolderRecalled, Recalled
  <2> QED
    BY <2>1, <2>4, <2>5 DEF HolderMoves
<1>2. virtualKeysIndexKey \in DOMAIN r.got =>
        Recalled(r.got[virtualKeysIndexKey], store'[virtualKeysIndexKey])
  <2>1. virtualKeysIndexKey \in DOMAIN r.got =>
           /\ r.got[virtualKeysIndexKey].etag \in Nat
           /\ Recalled(r.got[virtualKeysIndexKey], store[virtualKeysIndexKey])
    BY Reading, PresentTypes DEF ReadOK
  <2>2. /\ store[virtualKeysIndexKey].etag \in Nat /\ store'[virtualKeysIndexKey].etag \in Nat
        /\ Recalled(store[virtualKeysIndexKey], store'[virtualKeysIndexKey])
    BY Found, PresentTypes DEF Moves
  <2> QED
    BY <2>1, <2>2 DEF Recalled
<1>3. KeyRecalled(r, store')
  <2> SUFFICES ASSUME r.op \in {"replace", "delete"}, virtualKeyKey(r.id) \in DOMAIN r.got
               PROVE  \/ store'[virtualKeyKey(r.id)] = Absent
                      \/ Recalled(r.got[virtualKeyKey(r.id)], store'[virtualKeyKey(r.id)])
    BY DEF KeyRecalled
  <2>1. r.id \in Keys
    BY DEF OpTyped
  <2>2. KeyRecalled(r, store) /\ KeyMoves(r.id)
    BY DEF ReadOK
  <2>3. r.got[virtualKeyKey(r.id)].etag \in Nat /\ store[virtualKeyKey(r.id)].etag \in Nat
    BY <2>1, Reading, Found, EntryTypes
  <2> QED
    BY <2>2, <2>3 DEF KeyRecalled, KeyMoves, Recalled, Same
<1> QED
  BY <1>1, <1>2, <1>3 DEF ReadOK

\* The three kinds of write move the store in this way.
LEMMA KeyStepMoves ==
    ASSUME StoreTyped, NEW k \in Keys, NEW holders, NEW ids,
           KeyStep(k, holders), CollectionStep(ids)
    PROVE  Moves
<1>1. ASSUME NEW s \in Subjects PROVE HolderMoves(s)
  <2>1. HolderStep(k, s, holders)
    BY DEF KeyStep
  <2>2. Touched(s) => store'[subjectKey(s)].etag = store[subjectKey(s)].etag + 1
    BY DEF Touched, Entry
  <2> QED
    BY <2>1, <2>2 DEF HolderStep, HolderMoves
<1> QED
  BY <1>1 DEF Moves, CollectionStep

LEMMA PutMoves ==
    ASSUME StoreTyped, NEW k, NEW key, KeyPut(k, key)
    PROVE  /\ Moves
           /\ \A j \in Keys \ {k} : KeyMoves(j) /\ Same(virtualKeyKey(j))
           /\ store[virtualKeyKey(k)] # Absent => KeyMoves(k)
<1>1. k \in Keys /\ KeyStep(k, Holders(key))
      /\ CollectionStep(store[virtualKeysIndexKey].value \cup {k})
  BY DEF KeyPut
<1>2. Moves
  BY <1>1, KeyStepMoves
<1>3. \A j \in Keys \ {k} : Same(virtualKeyKey(j))
  BY <1>1 DEF KeyStep
<1>4. store'[virtualKeyKey(k)].etag = store[virtualKeyKey(k)].etag + 1
  BY DEF KeyPut, Entry
<1> QED
  BY <1>2, <1>3, <1>4 DEF KeyMoves

LEMMA DropMoves ==
    ASSUME StoreTyped, NEW k, KeyDropped(k)
    PROVE  /\ Moves
           /\ \A j \in Keys : KeyMoves(j)
           /\ \A j \in Keys \ {k} : Same(virtualKeyKey(j))
<1>1. k \in Keys /\ KeyStep(k, {})
      /\ CollectionStep(store[virtualKeysIndexKey].value \ {k})
  BY DEF KeyDropped
<1>2. Moves
  BY <1>1, KeyStepMoves
<1>3. \A j \in Keys \ {k} : Same(virtualKeyKey(j))
  BY <1>1 DEF KeyStep
<1>4. store'[virtualKeyKey(k)] = Absent
  BY DEF KeyDropped
<1> QED
  BY <1>2, <1>3, <1>4 DEF KeyMoves

LEMMA SubjectMoves ==
    ASSUME StoreTyped, NEW s, NEW subject, SubjectPut(s, subject)
    PROVE  /\ Moves
           /\ \A j \in Keys : KeyMoves(j) /\ Same(virtualKeyKey(j))
<1>1. /\ \A j \in Keys : Same(virtualKeyKey(j))
      /\ \A t \in Subjects : Same(virtualKeysByIndexKey(t))
      /\ \A t \in Subjects \ {s} : Same(subjectKey(t))
      /\ Same(virtualKeysIndexKey)
      /\ store'[subjectKey(s)].etag = store[subjectKey(s)].etag + 1
  BY SubjectKeeps
<1>2. \A t \in Subjects : HolderMoves(t)
  BY <1>1 DEF HolderMoves
<1>3. /\ store'[virtualKeysIndexKey] \in Present(SUBSET Keys)
      /\ Recalled(store[virtualKeysIndexKey], store'[virtualKeysIndexKey])
  BY <1>1, Found DEF Same, Recalled
<1> QED
  BY <1>1, <1>2, <1>3 DEF Moves, KeyMoves

\* So an operation stays in order when another one commits: nobody who knows of a
\* key meets its creation.
LEMMA OthersStay ==
    ASSUME StoreOK, NEW r, OpOK(r, store, issued), Unread(r) = {},
           store' = Transact(store, Transaction(r)), issued' = issued,
           NEW q, OpOK(q, store, issued), Apart(q, r)
    PROVE  OpOK(q, store', issued')
<1>1. StoreTyped /\ OpTyped(q) /\ OpTyped(r) /\ ReadOK(q, store)
  BY DEF StoreOK, OpOK
<1>2. /\ q.op \in {"create", "replace", "delete"} => q.id \in Keys
      /\ r.op \in {"create", "replace", "delete"} => r.id \in Keys
  BY <1>1 DEF OpTyped
<1>3. SUFFICES /\ ReadOK(q, store')
               /\ q.op = "create" => store'[virtualKeyKey(q.id)] = Absent
  BY <1>1 DEF OpOK
<1>4. q.op = "create" => store[virtualKeyKey(q.id)] = Absent
  BY DEF OpOK
<1>a. /\ (q.op = "create" /\ r.op \in KeyOps) => q.id # r.id
      /\ (r.op = "create" /\ q.op \in KeyOps) => q.id # r.id
  BY DEF Apart
<1>5. CASE store' = store
  BY <1>1, <1>4, <1>5
<1>6. CASE /\ r.op \in {"create", "replace"} /\ KeyPut(r.id, r.new)
           /\ r.op = "replace" => Exists(store[virtualKeyKey(r.id)])
  <2>1. /\ Moves
        /\ \A j \in Keys \ {r.id} : KeyMoves(j) /\ Same(virtualKeyKey(j))
        /\ store[virtualKeyKey(r.id)] # Absent => KeyMoves(r.id)
    BY <1>1, <1>6, PutMoves
  <2>2. ASSUME q.op \in {"replace", "delete"} PROVE KeyMoves(q.id)
    <3>1. CASE q.id # r.id
      BY <1>2, <2>1, <2>2, <3>1
    <3>2. CASE q.id = r.id
      <4>1. r.op = "replace"
        BY <1>a, <1>6, <2>2, <3>2 DEF KeyOps
      <4>2. store[virtualKeyKey(r.id)] # Absent
        BY <1>6, <4>1 DEF Exists, Absent
      <4> QED
        BY <2>1, <3>2, <4>2
    <3> QED
      BY <3>1, <3>2
  <2>3. ReadOK(q, store')
    BY <1>1, <2>1, <2>2, ReadStays
  <2>4. q.op = "create" => store'[virtualKeyKey(q.id)] = Absent
    BY <1>a, <1>2, <1>4, <1>6, <2>1 DEF Same, KeyOps
  <2> QED
    BY <2>3, <2>4
<1>7. CASE r.op = "delete" /\ KeyDropped(r.id)
  <2>1. /\ Moves
        /\ \A j \in Keys : KeyMoves(j)
        /\ \A j \in Keys \ {r.id} : Same(virtualKeyKey(j))
    BY <1>1, <1>7, DropMoves
  <2>2. ReadOK(q, store')
    BY <1>1, <1>2, <2>1, ReadStays
  <2>3. q.op = "create" => store'[virtualKeyKey(q.id)] = Absent
    BY <1>a, <1>2, <1>4, <1>7, <2>1 DEF Same, KeyOps
  <2> QED
    BY <2>2, <2>3
<1>8. CASE r.op \in {"sync", "fence"} /\ SubjectPut(r.id, r.new)
  <2>1. Moves /\ \A j \in Keys : KeyMoves(j) /\ Same(virtualKeyKey(j))
    BY <1>1, <1>8, SubjectMoves
  <2>2. ReadOK(q, store')
    BY <1>1, <1>2, <2>1, ReadStays
  <2>3. q.op = "create" => store'[virtualKeyKey(q.id)] = Absent
    BY <1>2, <1>4, <2>1 DEF Same
  <2> QED
    BY <2>2, <2>3
<1> QED
  BY <1>5, <1>6, <1>7, <1>8, TransactionEffect

-----------------------------------------------------------------------------
(***************************************************************************)
(* The steps of an operation keep what it relies on.                       *)
(***************************************************************************)
LEMMA StoreStays ==
    ASSUME StoreOK, store' = store, issued \subseteq issued'
    PROVE  StoreOK'
<1>1. \A k : KeyOf(k)' = KeyOf(k)
  BY DEF KeyOf
<1>2. \A s : SubjectOf(s)' = SubjectOf(s)
  BY DEF SubjectOf
<1>3. StoreTyped'
  BY DEF StoreOK, StoreTyped
<1>4. IndexesExact'
  BY <1>1 DEF StoreOK, IndexesExact
<1>5. HoldersLive'
  BY <1>1, <1>2 DEF StoreOK, HoldersLive
<1> QED
  BY <1>3, <1>4, <1>5 DEF StoreOK

LEMMA TransactionKeepsStore ==
    ASSUME StoreOK, NEW r, OpOK(r, store, issued), Unread(r) = {},
           store' = Transact(store, Transaction(r)), issued' = issued
    PROVE  StoreOK'
<1>1. r.op \in {"create", "replace"} => r.id \in issued
  BY DEF OpOK, KeyOps
<1>2. CASE store' = store
  BY <1>2, StoreStays
<1>3. CASE r.op \in {"create", "replace"} /\ KeyPut(r.id, r.new)
  BY <1>1, <1>3, PutKeepsStore
<1>4. CASE KeyDropped(r.id)
  BY <1>4, DropKeepsStore
<1>5. CASE SubjectPut(r.id, r.new)
  BY <1>5, SubjectKeepsStore
<1> QED
  BY <1>2, <1>3, <1>4, <1>5, TransactionEffect

LEMMA UnderWayOK ==
    ASSUME RequestsOK, NEW h \in Places, UnderWay(h)
    PROVE  OpOK(request[h], store, issued)
  BY DEF RequestsOK, UnderWay, Idle, Landed

\* Nothing is written: an operation under way stays in order.
LEMMA NothingWritten ==
    ASSUME NEW r, OpOK(r, store, issued), store' = store, issued \subseteq issued'
    PROVE  OpOK(r, store', issued')
  BY DEF OpOK

\* The same operation in another phase.
LEMMA NewPhase ==
    ASSUME NEW r, OpOK(r, store, issued), NEW p, p = "late" => Unread(r) = {}
    PROVE  /\ OpOK([r EXCEPT !.phase = p], store, issued)
           /\ [r EXCEPT !.phase = p].phase = p
           /\ [r EXCEPT !.phase = p].op = r.op
           /\ [r EXCEPT !.phase = p].id = r.id
<1> DEFINE q == [r EXCEPT !.phase = p]
<1>1. /\ q.phase = p /\ q.op = r.op /\ q.id = r.id /\ q.old = r.old /\ q.new = r.new
      /\ q.got = r.got
      /\ Shaped(q)
  BY DEF OpOK, Shaped
<1> HIDE DEF q
<1>2. Reads(q) = Reads(r) /\ Unread(q) = Unread(r)
  BY <1>1 DEF Reads, Unread
<1>3. OpTyped(q)
  BY <1>1 DEF OpOK, OpTyped
<1>4. ReadOK(q, store)
  BY <1>1, <1>2 DEF OpOK, ReadOK, HolderRecalled, KeyRecalled
<1>5. OpOK(q, store, issued)
  BY <1>1, <1>2, <1>3, <1>4 DEF OpOK
<1> QED
  BY <1>1, <1>5 DEF q

\* One place changes, and what is there now is in order.
LEMMA OnePlace ==
    ASSUME RegistryInv, StoreOK', NEW h \in Places, NEW q,
           request' = [request EXCEPT ![h] = q],
           \A g \in Places \ {h} : UnderWay(g) =>
              OpOK(request[g], store', issued'),
           \/ q \in {Idle, Landed}
           \/ /\ q.phase \in {"loaded", "reading", "late"}
              /\ OpOK(q, store', issued')
              /\ \A g \in Places \ {h} : UnderWay(g) => Apart(q, request[g])
    PROVE  RegistryInv'
<1>1. DOMAIN request = Places /\ DOMAIN request' = Places
  BY DEF RegistryInv, RequestsOK
<1>2. request'[h] = q /\ \A g \in Places \ {h} : request'[g] = request[g]
  BY <1>1
<1>3. q \in {Idle, Landed} => q.phase \notin {"loaded", "reading", "late"}
  BY DEF Idle, Landed
<1>4. RequestsOK'
  <2>1. ASSUME NEW g \in Places
        PROVE  \/ request'[g] \in {Idle, Landed}
               \/ UnderWay(g)' /\ OpOK(request'[g], store', issued')
    <3>1. CASE g = h
      BY <1>2, <3>1 DEF UnderWay
    <3>2. CASE g # h
      BY <1>2, <3>2 DEF UnderWay, RegistryInv, RequestsOK
    <3> QED
      BY <3>1, <3>2
  <2> QED
    BY <1>1, <2>1 DEF RequestsOK
<1>5. Alone'
  <2> SUFFICES ASSUME NEW g \in Places, NEW f \in Places, g # f,
                      UnderWay(g)', UnderWay(f)'
               PROVE  Apart(request'[g], request'[f])
    BY DEF Alone
  <2>1. CASE g = h
    BY <1>2, <1>3, <2>1 DEF UnderWay
  <2>2. CASE f = h
    <3>1. Apart(q, request[g])
      BY <1>2, <1>3, <2>2 DEF UnderWay
    <3> QED
      BY <1>2, <2>2, <3>1 DEF Apart
  <2>3. CASE g # h /\ f # h
    BY <1>2, <2>3 DEF UnderWay, RegistryInv, Alone
  <2> QED
    BY <2>1, <2>2, <2>3
<1> QED
  BY <1>4, <1>5 DEF RegistryInv
\* A request that has not read anything yet is in order.
LEMMA RequestIs ==
    ASSUME NEW op, NEW id, NEW old, NEW new
    PROVE  /\ Shaped(Request(op, id, old, new))
           /\ Request(op, id, old, new).phase = "loaded"
           /\ Request(op, id, old, new).op = op /\ Request(op, id, old, new).id = id
           /\ Request(op, id, old, new).old = old /\ Request(op, id, old, new).new = new
           /\ DOMAIN Request(op, id, old, new).got = {}
  BY DEF Request, Shaped

LEMMA Arriving ==
    ASSUME RegistryInv, NEW h \in Handlers, NEW r, Arrive(h, r), issued \subseteq issued',
           Shaped(r), r.phase = "loaded", DOMAIN r.got = {}, OpTyped(r),
           r.op \in KeyOps => r.id \in issued',
           r.op = "create" => store[virtualKeyKey(r.id)] = Absent,
           \A g \in Places \ {h} : UnderWay(g) => Apart(r, request[g])
    PROVE  RegistryInv'
<1>1. /\ StoreOK /\ RequestsOK /\ h \in Places
      /\ store' = store /\ request' = [request EXCEPT ![h] = r]
  BY DEF RegistryInv, Arrive, Places
<1>2. StoreOK'
  BY <1>1, StoreStays
<1>3. ReadOK(r, store')
  BY DEF ReadOK, HolderRecalled, KeyRecalled
<1>4. OpOK(r, store', issued')
  BY <1>1, <1>3 DEF OpOK
<1>5. \A g \in Places \ {h} : UnderWay(g) => OpOK(request[g], store', issued')
  BY <1>1, UnderWayOK, NothingWritten
<1> QED
  BY <1>1, <1>2, <1>4, <1>5, OnePlace

\* Nobody can know of an ID that NewID has not returned yet.
LEMMA CreateArrives ==
    ASSUME RegistryInv, NEW h \in Handlers, NEW k \in Keys, NEW user \in Users,
           NEW models \in (SUBSET Models) \ {{}}, NEW status \in Status,
           StartCreate(h, k, user, models, status)
    PROVE  RegistryInv'
<1> DEFINE new == [user |-> user, models |-> models, status |-> status, writes |-> 0]
           r == Request("create", k, None, new)
<1>1. /\ Shaped(r) /\ r.phase = "loaded" /\ r.op = "create" /\ r.id = k /\ r.new = new
      /\ DOMAIN r.got = {}
  BY RequestIs
<1>2. new \in VirtualKey
  BY DEF VirtualKey
<1>3. StartNew(h, r)
  BY DEF StartCreate
<1> HIDE DEF new, r
<1>4. Arrive(h, r) /\ k \notin issued /\ issued' = issued \cup {k}
  BY <1>1, <1>3 DEF StartNew
<1>5. store[virtualKeyKey(k)] = Absent
  <2>1. ~Exists(store[virtualKeyKey(k)])
    BY <1>4 DEF RegistryInv, StoreOK
  <2>2. store[virtualKeyKey(k)] \in Entries(VirtualKey)
    BY Found DEF RegistryInv, StoreOK
  <2> QED
    BY <2>1, <2>2, EntryTypes
<1>6. ASSUME NEW g \in Places \ {h}, UnderWay(g) PROVE Apart(r, request[g])
  <2>1. OpOK(request[g], store, issued)
    BY <1>6, UnderWayOK DEF RegistryInv
  <2>2. request[g].op \in KeyOps => request[g].id # k
    BY <1>4, <2>1 DEF OpOK
  <2> QED
    BY <1>1, <2>2 DEF Apart, KeyOps
<1>7. OpTyped(r)
  BY <1>1, <1>2 DEF OpTyped
<1> QED
  BY <1>1, <1>4, <1>5, <1>6, <1>7, Arriving

\* A key that is there is not being created.
LEMMA KeyKnown ==
    ASSUME RegistryInv, NEW k \in Keys, Exists(store[virtualKeyKey(k)])
    PROVE  /\ k \in issued
           /\ store[virtualKeyKey(k)].value \in VirtualKey
           /\ \A g \in Places : (UnderWay(g) /\ request[g].op = "create") => request[g].id # k
<1>1. k \in issued
  BY DEF RegistryInv, StoreOK
<1>2. store[virtualKeyKey(k)] \in Entries(VirtualKey)
  BY Found DEF RegistryInv, StoreOK
<1>3. store[virtualKeyKey(k)].value \in VirtualKey /\ store[virtualKeyKey(k)] # Absent
  BY <1>2, EntryTypes
<1>4. ASSUME NEW g \in Places, UnderWay(g), request[g].op = "create"
      PROVE  request[g].id # k
  BY <1>3, <1>4, UnderWayOK DEF RegistryInv, OpOK
<1> QED
  BY <1>1, <1>3, <1>4

LEMMA UpdateArrives ==
    ASSUME RegistryInv, NEW h \in Handlers, NEW k \in Keys, NEW user \in Users,
           NEW models \in (SUBSET Models) \ {{}}, NEW status \in Status,
           updateVirtualKey(h, k, user, models, status)
    PROVE  RegistryInv'
<1> DEFINE old == store[virtualKeyKey(k)].value
           new == [user |-> user, models |-> models, status |-> status,
                   writes |-> old.writes + 1]
           r == Request("replace", k, old, new)
<1>1. /\ Shaped(r) /\ r.phase = "loaded" /\ r.op = "replace" /\ r.id = k /\ r.old = old
      /\ r.new = new /\ DOMAIN r.got = {}
  BY RequestIs
<1>2. Exists(store[virtualKeyKey(k)]) /\ Start(h, r)
  BY DEF updateVirtualKey
<1>3. /\ k \in issued /\ old \in VirtualKey
      /\ \A g \in Places : (UnderWay(g) /\ request[g].op = "create") => request[g].id # k
  BY <1>2, KeyKnown
<1>4. new \in VirtualKey
  BY <1>3 DEF VirtualKey
<1> HIDE DEF old, new, r
<1>5. Arrive(h, r) /\ issued' = issued
  BY <1>2 DEF Start
<1>6. \A g \in Places \ {h} : UnderWay(g) => Apart(r, request[g])
  BY <1>1, <1>3 DEF Apart
<1>7. OpTyped(r)
  BY <1>1, <1>3, <1>4 DEF OpTyped
<1> QED
  BY <1>1, <1>3, <1>5, <1>6, <1>7, Arriving

LEMMA DeleteArrives ==
    ASSUME RegistryInv, NEW h \in Handlers, NEW k \in Keys, deleteVirtualKey(h, k)
    PROVE  RegistryInv'
<1> DEFINE old == store[virtualKeyKey(k)].value
           r == Request("delete", k, old, None)
<1>1. /\ Shaped(r) /\ r.phase = "loaded" /\ r.op = "delete" /\ r.id = k /\ r.old = old
      /\ DOMAIN r.got = {}
  BY RequestIs
<1>2. Exists(store[virtualKeyKey(k)]) /\ Start(h, r)
  BY DEF deleteVirtualKey
<1>3. /\ k \in issued /\ old \in VirtualKey
      /\ \A g \in Places : (UnderWay(g) /\ request[g].op = "create") => request[g].id # k
  BY <1>2, KeyKnown
<1> HIDE DEF old, r
<1>5. Arrive(h, r) /\ issued' = issued
  BY <1>2 DEF Start
<1>6. \A g \in Places \ {h} : UnderWay(g) => Apart(r, request[g])
  BY <1>1, <1>3 DEF Apart
<1>7. OpTyped(r)
  BY <1>1, <1>3 DEF OpTyped
<1> QED
  BY <1>1, <1>3, <1>5, <1>6, <1>7, Arriving

LEMMA SubjectArrives ==
    ASSUME RegistryInv, NEW h \in Handlers, NEW s \in Subjects, NEW subject \in Subject,
           CallArrives(h, s, subject)
    PROVE  RegistryInv'
<1> DEFINE op == IF subject.deleted THEN "fence" ELSE "sync"
           r == Request(op, s, None, subject)
<1>1. /\ Shaped(r) /\ r.phase = "loaded" /\ r.op = op /\ r.id = s /\ r.new = subject
      /\ DOMAIN r.got = {}
  BY RequestIs
<1>2. Start(h, r)
  BY DEF CallArrives
<1>3. op \in {"fence", "sync"} /\ (op = "sync" => ~subject.deleted)
  OBVIOUS
<1> HIDE DEF op, r
<1>5. Arrive(h, r) /\ issued' = issued
  BY <1>2 DEF Start
<1>6. \A g \in Places \ {h} : UnderWay(g) => Apart(r, request[g])
  BY <1>1, <1>3 DEF Apart, KeyOps
<1>7. OpTyped(r)
  BY <1>1, <1>3 DEF OpTyped
<1> QED
  BY <1>1, <1>3, <1>5, <1>6, <1>7, Arriving DEF KeyOps
\* Taking the mutex.
LEMMA LockKeeps ==
    ASSUME RegistryInv, NEW h \in Handlers, Lock(h)
    PROVE  RegistryInv'
<1> DEFINE q == [request[h] EXCEPT !.phase = "reading"]
<1>1. /\ StoreOK /\ RequestsOK /\ Alone /\ h \in Places /\ UnderWay(h)
      /\ store' = store /\ issued' = issued
      /\ request' = [request EXCEPT ![h] = q]
  BY DEF RegistryInv, Lock, Places, UnderWay
<1>2. /\ OpOK(q, store, issued) /\ q.phase = "reading"
      /\ q.op = request[h].op /\ q.id = request[h].id
  BY <1>1, UnderWayOK, NewPhase
<1> HIDE DEF q
<1>3. StoreOK'
  BY <1>1, StoreStays
<1>4. \A g \in Places \ {h} : UnderWay(g) => OpOK(request[g], store', issued')
  BY <1>1, UnderWayOK, NothingWritten
<1>5. \A g \in Places \ {h} : UnderWay(g) => Apart(q, request[g])
  BY <1>1, <1>2 DEF Alone, Apart
<1>6. OpOK(q, store', issued')
  BY <1>1, <1>2
<1> QED
  BY <1>1, <1>2, <1>3, <1>4, <1>5, <1>6, OnePlace

\* An operation that is to read the index of a holder has read its subject.
LEMMA SubjectFirst ==
    ASSUME NEW r, OpTyped(r), NEW s \in Subjects, virtualKeysByIndexKey(s) \in Unread(r),
           IsNext(r, virtualKeysByIndexKey(s))
    PROVE  subjectKey(s) \in DOMAIN r.got
<1>1. subjectKey(s) \in Reads(r)
  <2>1. virtualKeysByIndexKey(s) \in Reads(r)
    BY DEF Unread
  <2>2. \A holders : (holders \subseteq Subjects
                       /\ virtualKeysByIndexKey(s) \in HolderKeys(holders)) =>
                     subjectKey(s) \in HolderKeys(holders)
    BY HolderKeysDistinct DEF HolderKeys
  <2>3. virtualKeysByIndexKey(s) # subjectKey(s)
    BY HolderKeysDistinct
  <2>4. CASE r.op = "create"
    <3>1. Holders(r.new) \subseteq Subjects /\ r.id \in Keys
      BY <2>4, HoldersAreSubjects DEF OpTyped
    <3> QED
      BY <2>1, <2>2, <2>4, <3>1, HoldersAreApart DEF Reads
  <2>5. CASE r.op = "replace"
    <3>1. Holders(r.old) \cup Holders(r.new) \subseteq Subjects /\ r.id \in Keys
      BY <2>5, HoldersAreSubjects DEF OpTyped
    <3> QED
      BY <2>1, <2>2, <2>5, <3>1, HoldersAreApart DEF Reads
  <2>6. CASE r.op = "delete"
    <3>1. Holders(r.old) \subseteq Subjects /\ r.id \in Keys
      BY <2>6, HoldersAreSubjects DEF OpTyped
    <3> QED
      BY <2>1, <2>2, <2>6, <3>1, HoldersAreApart DEF Reads
  <2>7. CASE r.op = "sync"
    BY <2>1, <2>7, HolderKeysDistinct DEF Reads, OpTyped
  <2>8. CASE r.op = "fence"
    <3>1. {r.id} \subseteq Subjects
      BY <2>8 DEF OpTyped
    <3> QED
      BY <2>1, <2>2, <2>8, <3>1 DEF Reads
  <2> QED
    BY <2>4, <2>5, <2>6, <2>7, <2>8 DEF OpTyped
<1>2. Before(r, subjectKey(s), virtualKeysByIndexKey(s))
  <2>1. CASE s \in Users
    <3>1. /\ subjectKey(s) = <<"key-subjects", s>>
          /\ virtualKeysByIndexKey(s) = <<"virtual-keys-by-user", s>>
      BY <2>1 DEF subjectKey, virtualKeysByIndexKey
    <3>2. Stage(subjectKey(s)) = 3 /\ Stage(virtualKeysByIndexKey(s)) = 6
      BY <3>1 DEF Stage
    <3> QED
      BY <3>2 DEF Before
  <2>2. CASE s \notin Users
    <3>1. /\ subjectKey(s) = <<"model-subjects", s>>
          /\ virtualKeysByIndexKey(s) = <<"virtual-keys-by-model", s>>
      BY <2>2 DEF subjectKey, virtualKeysByIndexKey
    <3>2. Stage(subjectKey(s)) = 4 /\ Stage(virtualKeysByIndexKey(s)) = 4
      BY <3>1 DEF Stage
    <3>3. /\ subjectKey(s)[1] = "model-subjects" /\ subjectKey(s)[2] = s
          /\ virtualKeysByIndexKey(s)[1] = "virtual-keys-by-model"
          /\ virtualKeysByIndexKey(s)[2] = s
      BY <3>1
    <3> QED
      BY <3>2, <3>3 DEF Before
  <2> QED
    BY <2>1, <2>2
<1> QED
  BY <1>1, <1>2, HolderKeysDistinct DEF IsNext, Unread

LEMMA ReadsStored ==
    ASSUME NEW r, OpTyped(r)
    PROVE  Reads(r) \subseteq StoreKeys
<1>1. \A holders : holders \subseteq Subjects => HolderKeys(holders) \subseteq StoreKeys
  BY KeysStored DEF HolderKeys
<1>2. /\ r.op = "create" => r.id \in Keys /\ Holders(r.new) \subseteq Subjects
      /\ r.op = "replace" =>
            r.id \in Keys /\ Holders(r.old) \cup Holders(r.new) \subseteq Subjects
      /\ r.op = "delete" => r.id \in Keys /\ Holders(r.old) \subseteq Subjects
      /\ r.op \in {"sync", "fence"} => {r.id} \subseteq Subjects
  BY HoldersAreSubjects DEF OpTyped
<1>3. CASE r.op = "create"
  BY <1>1, <1>2, <1>3, KeysStored DEF Reads
<1>4. CASE r.op = "replace"
  BY <1>1, <1>2, <1>4, KeysStored DEF Reads
<1>5. CASE r.op = "delete"
  BY <1>1, <1>2, <1>5, KeysStored DEF Reads
<1>6. CASE r.op = "sync"
  BY <1>1, <1>2, <1>6, KeysStored DEF Reads
<1>7. CASE r.op = "fence"
  BY <1>1, <1>2, <1>7 DEF Reads
<1> QED
  BY <1>3, <1>4, <1>5, <1>6, <1>7 DEF OpTyped

\* Reading one more key.
LEMMA OneMoreRead ==
    ASSUME StoreOK, NEW r, OpOK(r, store, issued), NEW key \in Unread(r), IsNext(r, key),
           r.phase = "reading", NEW q, Shaped(q),
           q.phase = r.phase, q.op = r.op, q.id = r.id, q.old = r.old, q.new = r.new,
           DOMAIN q.got = DOMAIN r.got \cup {key},
           q.got[key] = store[key],
           \A k \in DOMAIN r.got : q.got[k] = r.got[k]
    PROVE  OpOK(q, store, issued)
<1>1. StoreTyped /\ OpTyped(r) /\ ReadOK(r, store)
  BY DEF StoreOK, OpOK
<1>2. Reads(q) = Reads(r) /\ OpTyped(q)
  BY <1>1 DEF Reads, OpTyped
<1>3. key \in Reads(r) /\ key \notin DOMAIN r.got
  BY DEF Unread
<1>4. \A k \in DOMAIN q.got : OfType(k, q.got[k])
  <2>1. OfType(key, store[key])
    BY <1>1, <1>3, ReadsStored DEF StoreTyped
  <2> QED
    BY <1>1, <2>1 DEF ReadOK
<1>5. ASSUME NEW s \in Subjects PROVE HolderRecalled(q, s, store)
  <2>1. HolderRecalled(r, s, store)
    BY <1>1 DEF ReadOK
  <2>2. subjectKey(s) # virtualKeysByIndexKey(s)
    BY HolderKeysDistinct
  <2>3. CASE key = subjectKey(s)
    BY <1>3, <2>1, <2>2, <2>3 DEF HolderRecalled, Recalled
  <2>4. CASE key = virtualKeysByIndexKey(s)
    <3>1. subjectKey(s) \in DOMAIN r.got
      BY <1>1, <2>4, SubjectFirst
    <3> QED
      BY <2>1, <2>2, <2>4, <3>1 DEF HolderRecalled
  <2>5. CASE key # subjectKey(s) /\ key # virtualKeysByIndexKey(s)
    BY <2>1, <2>5 DEF HolderRecalled
  <2> QED
    BY <2>3, <2>4, <2>5
<1>6. virtualKeysIndexKey \in DOMAIN q.got =>
        Recalled(q.got[virtualKeysIndexKey], store[virtualKeysIndexKey])
  BY <1>1 DEF ReadOK, Recalled
<1>7. KeyRecalled(q, store)
  BY <1>1 DEF ReadOK, KeyRecalled, Recalled
<1>8. ReadOK(q, store)
  BY <1>1, <1>2, <1>3, <1>4, <1>5, <1>6, <1>7 DEF ReadOK
<1> QED
  BY <1>2, <1>8 DEF OpOK

LEMMA ReadKeeps ==
    ASSUME RegistryInv, NEW h \in Handlers, NEW key \in Unread(request[h]),
           IsNext(request[h], key), Read(h, key)
    PROVE  RegistryInv'
<1> DEFINE r == request[h]
           got == [k \in DOMAIN r.got \cup {key} |-> IF k = key THEN store[key] ELSE r.got[k]]
           q == [r EXCEPT !.got = got]
<1>1. /\ StoreOK /\ RequestsOK /\ Alone /\ h \in Places /\ UnderWay(h)
      /\ store' = store /\ issued' = issued /\ r.phase = "reading"
      /\ request' = [request EXCEPT ![h] = q]
  BY DEF RegistryInv, Read, Places, UnderWay
<1>2. OpOK(r, store, issued) /\ Shaped(r)
  BY <1>1, UnderWayOK DEF OpOK
<1>3. /\ Shaped(q) /\ q.phase = r.phase /\ q.op = r.op /\ q.id = r.id /\ q.old = r.old
      /\ q.new = r.new /\ q.got = got
  <2> HIDE DEF got
  <2> QED
    BY <1>2 DEF Shaped
<1>4. /\ DOMAIN got = DOMAIN r.got \cup {key} /\ got[key] = store[key]
      /\ \A k \in DOMAIN r.got : got[k] = r.got[k]
  BY DEF Unread
<1> HIDE DEF q, got
<1>5. OpOK(q, store, issued)
  <2> HIDE DEF r
  <2> QED
    BY <1>1, <1>2, <1>3, <1>4, OneMoreRead DEF r
<1>6. StoreOK'
  BY <1>1, StoreStays
<1>7. \A g \in Places \ {h} : UnderWay(g) => OpOK(request[g], store', issued')
  BY <1>1, UnderWayOK, NothingWritten
<1>8. \A g \in Places \ {h} : UnderWay(g) => Apart(q, request[g])
  BY <1>1, <1>3 DEF Alone, Apart
<1>9. OpOK(q, store', issued')
  BY <1>1, <1>5
<1>10. q.phase \in {"loaded", "reading", "late"}
  BY <1>1, <1>3
<1> QED
  BY <1>1, <1>6, <1>7, <1>8, <1>9, <1>10, OnePlace
\* An operation that has read everything writes, in time or late.
LEMMA WriteKeeps ==
    ASSUME RegistryInv, NEW h \in Places, UnderWay(h), Unread(request[h]) = {},
           store' = Transact(store, Transaction(request[h])), issued' = issued,
           NEW q \in {Idle, Landed}, request' = [request EXCEPT ![h] = q]
    PROVE  RegistryInv'
<1>1. StoreOK /\ RequestsOK /\ Alone
  BY DEF RegistryInv
<1>2. OpOK(request[h], store, issued)
  BY <1>1, UnderWayOK
<1>3. StoreOK'
  BY <1>1, <1>2, TransactionKeepsStore
<1>4. ASSUME NEW g \in Places \ {h}, UnderWay(g)
      PROVE  OpOK(request[g], store', issued')
  <2>1. OpOK(request[g], store, issued) /\ Apart(request[g], request[h])
    BY <1>1, <1>4, UnderWayOK DEF Alone
  <2> QED
    BY <1>1, <1>2, <2>1, OthersStay
<1> QED
  BY <1>3, <1>4, OnePlace

\* The caller goes away: its operation moves to a stray's place.
LEMMA AbandonKeeps ==
    ASSUME RegistryInv, NEW h \in Handlers, NEW g \in Strays, NEW tx, Abandon(h, g, tx),
           Unread(request[h]) = {}
    PROVE  RegistryInv'
<1> DEFINE q == [request[h] EXCEPT !.phase = "late"]
<1>1. /\ StoreOK /\ RequestsOK /\ Alone /\ h \in Places /\ g \in Places
      /\ request[h].phase = "reading" /\ UnderWay(h) /\ request[g] = Idle
      /\ store' = store /\ issued' = issued
      /\ request' = [request EXCEPT ![g] = q, ![h] = Idle]
  BY DEF RegistryInv, Abandon, Places, UnderWay
<1>2. /\ OpOK(q, store, issued) /\ q.phase = "late"
      /\ q.op = request[h].op /\ q.id = request[h].id
  BY <1>1, UnderWayOK, NewPhase
<1> HIDE DEF q
<1>3. DOMAIN request = Places /\ g # h /\ ~UnderWay(g)
  BY <1>1 DEF RequestsOK, Idle, UnderWay
<1>4. /\ DOMAIN request' = Places /\ request'[g] = q /\ request'[h] = Idle
      /\ \A f \in Places \ {g, h} : request'[f] = request[f]
  BY <1>1, <1>3
<1>5. UnderWay(g)' /\ ~UnderWay(h)' /\ \A f \in Places \ {g, h} : UnderWay(f)' <=> UnderWay(f)
  BY <1>2, <1>4 DEF UnderWay, Idle
<1>6. StoreOK'
  BY <1>1, StoreStays
<1>7. RequestsOK'
  <2>1. ASSUME NEW f \in Places
        PROVE  \/ request'[f] \in {Idle, Landed}
               \/ UnderWay(f)' /\ OpOK(request'[f], store', issued')
    <3>1. CASE f = g
      BY <1>1, <1>2, <1>4, <1>5, <3>1
    <3>2. CASE f = h
      BY <1>4, <3>2
    <3>3. CASE f \notin {g, h}
      BY <1>1, <1>4, <1>5, <3>3 DEF RequestsOK
    <3> QED
      BY <3>1, <3>2, <3>3
  <2> QED
    BY <1>4, <2>1 DEF RequestsOK
<1>8. Alone'
  <2> SUFFICES ASSUME NEW e \in Places, NEW f \in Places, e # f,
                      UnderWay(e)', UnderWay(f)'
               PROVE  Apart(request'[e], request'[f])
    BY DEF Alone
  <2>1. e # h /\ f # h
    BY <1>5
  <2>2. ASSUME NEW p \in Places \ {g, h}, UnderWay(p)'
        PROVE  Apart(q, request'[p]) /\ Apart(request'[p], q)
    <3>1. Apart(request[h], request[p])
      BY <1>1, <1>5, <2>2 DEF Alone
    <3> QED
      BY <1>2, <1>4, <3>1 DEF Apart
  <2>3. CASE e = g
    BY <1>4, <2>1, <2>2, <2>3
  <2>4. CASE f = g
    BY <1>4, <2>1, <2>2, <2>4
  <2>5. CASE e # g /\ f # g
    BY <1>1, <1>4, <1>5, <2>1, <2>5 DEF Alone
  <2> QED
    BY <2>3, <2>4, <2>5
<1> QED
  BY <1>6, <1>7, <1>8 DEF RegistryInv

-----------------------------------------------------------------------------
(***************************************************************************)
(* The invariant holds, and what it implies.                               *)
(***************************************************************************)
LEMMA FirstSubjectIs == FirstSubject \in Subject /\ ~FirstSubject.deleted
<1>1. 1 \in 1..MaxRevision
  BY BoundAssumption
<1>2. FirstSubject \in [status : Status, revision : 1..MaxRevision, deleted : BOOLEAN]
  BY <1>1, Zenon DEF FirstSubject, Status
<1>3. ~FirstSubject.deleted
  BY Zenon DEF FirstSubject
<1> QED
  BY <1>2, <1>3 DEF Subject

LEMMA StartState ==
    ASSUME Bootstrapped, Init
    PROVE  /\ store = [key \in StoreKeys |-> store[key]]
           /\ \A k \in Keys :
                store[virtualKeyKey(k)] = Absent /\ store[hashLookupKey(k)] = Absent
           /\ \A s \in Subjects : /\ store[subjectKey(s)] = Entry(FirstSubject, 1)
                                  /\ store[virtualKeysByIndexKey(s)] = Absent
           /\ store[virtualKeysIndexKey] = Entry({}, 1)
           /\ issued = {}
           /\ DOMAIN request = Places /\ \A h \in Places : request[h] = Idle
<1> DEFINE first(key) ==
              CASE Bootstrapped /\ key = virtualKeysIndexKey -> Entry({}, 1)
                [] Bootstrapped /\ \E s \in Subjects : key = subjectKey(s)
                       -> Entry(FirstSubject, 1)
                [] OTHER -> Absent
<1>1. /\ store = [key \in StoreKeys |-> first(key)]
      /\ issued = {} /\ request = [h \in Places |-> Idle]
  BY DEF Init, RepositoryInit, Places
<1>2. \A k \in Keys : first(virtualKeyKey(k)) = Absent /\ first(hashLookupKey(k)) = Absent
  BY KeysDistinct, HoldersAreApart
<1>3. \A s \in Subjects : first(subjectKey(s)) = Entry(FirstSubject, 1)
  BY HoldersAreApart
<1>4. \A s \in Subjects : first(virtualKeysByIndexKey(s)) = Absent
  BY HoldersAreApart, HolderKeysDistinct
<1>5. first(virtualKeysIndexKey) = Entry({}, 1)
  BY HoldersAreApart
<1> HIDE DEF first
<1> QED
  BY <1>1, <1>2, <1>3, <1>4, <1>5, KeysStored

LEMMA InitInv ==
    ASSUME Bootstrapped, Init
    PROVE  RegistryInv
<1>1. /\ store = [key \in StoreKeys |-> store[key]]
      /\ \A k \in Keys : store[virtualKeyKey(k)] = Absent /\ store[hashLookupKey(k)] = Absent
      /\ \A s \in Subjects : /\ store[subjectKey(s)] = Entry(FirstSubject, 1)
                             /\ store[virtualKeysByIndexKey(s)] = Absent
      /\ store[virtualKeysIndexKey] = Entry({}, 1)
      /\ DOMAIN request = Places /\ \A h \in Places : request[h] = Idle
  BY StartState
<1>2. Entry(FirstSubject, 1) \in Present(Subject)
  BY FirstSubjectIs DEF Present, Entry
<1>3. Entry({}, 1) \in Present(SUBSET Keys) /\ readIndex(Entry({}, 1)) = {}
  BY DEF Present, Entry, readIndex, Exists, NoETag
<1>4. ~Exists(Absent) /\ readIndex(Absent) = {}
  BY DEF Exists, Absent, readIndex
<1>5. StoreTyped
  <2>1. \A key \in StoreKeys : OfType(key, store[key])
    BY <1>1, <1>2, <1>3 DEF OfType, Entries
  <2> QED
    BY <1>1, <2>1 DEF StoreTyped
<1>6. IndexesExact
  BY <1>1, <1>3, <1>4 DEF IndexesExact
<1>7. HoldersLive
  BY <1>1, <1>4 DEF HoldersLive, KeyOf
<1>8. StoreOK
  BY <1>1, <1>4, <1>5, <1>6, <1>7 DEF StoreOK
<1>9. RequestsOK /\ Alone
  BY <1>1 DEF RequestsOK, Alone, UnderWay, Idle
<1> QED
  BY <1>8, <1>9 DEF RegistryInv
\* The steps of RepositoryNext that write.
Writes(h, q) ==
    /\ h \in Places /\ UnderWay(h) /\ Unread(request[h]) = {}
    /\ store' = Transact(store, Transaction(request[h]))
    /\ issued' = issued
    /\ q \in {Idle, Landed} /\ request' = [request EXCEPT ![h] = q]

LEMMA CommitWrites ==
    ASSUME NEW h \in Handlers, Unread(request[h]) = {}, Commit(h, Transaction(request[h]))
    PROVE  Writes(h, Idle)
  BY DEF Writes, Commit, Places, UnderWay

LEMMA LandWrites ==
    ASSUME RegistryInv, NEW g \in Strays, Land(g, Transaction(request[g]))
    PROVE  Writes(g, Landed)
<1>1. g \in Places /\ UnderWay(g) /\ request[g].phase = "late"
  BY DEF Land, Places, UnderWay
<1>2. OpOK(request[g], store, issued)
  BY <1>1, UnderWayOK DEF RegistryInv
<1> QED
  BY <1>1, <1>2 DEF Writes, Land, OpOK

\* The inductive step, one case per action.
LEMMA NextInv ==
    ASSUME RegistryInv, [Next]_vars
    PROVE  RegistryInv'
<1>1. ASSUME NEW h \in Handlers, NEW k \in Keys, NEW u \in Users,
             NEW ms \in (SUBSET Models) \ {{}}, NEW s \in Status,
             StartCreate(h, k, u, ms, s)
      PROVE  RegistryInv'
  BY <1>1, CreateArrives
<1>2. ASSUME NEW h \in Handlers, NEW k \in Keys, NEW u \in Users,
             NEW ms \in (SUBSET Models) \ {{}}, NEW s \in Status,
             updateVirtualKey(h, k, u, ms, s)
      PROVE  RegistryInv'
  BY <1>2, UpdateArrives
<1>3. ASSUME NEW h \in Handlers, NEW k \in Keys, deleteVirtualKey(h, k)
      PROVE  RegistryInv'
  BY <1>3, DeleteArrives
<1>4. ASSUME NEW h \in Handlers, NEW s \in Subjects, NEW subject \in Subject,
             CallArrives(h, s, subject)
      PROVE  RegistryInv'
  BY <1>4, SubjectArrives
<1>5. ASSUME NEW h \in Handlers, Lock(h) PROVE RegistryInv'
  BY <1>5, LockKeeps
<1>6. ASSUME NEW h \in Handlers, NEW key \in Unread(request[h]), IsNext(request[h], key),
             Read(h, key)
      PROVE  RegistryInv'
  BY <1>6, ReadKeeps
<1>7. ASSUME NEW h, NEW q, Writes(h, q) PROVE RegistryInv'
  BY <1>7, WriteKeeps DEF Writes
<1>8. ASSUME NEW h \in Handlers, NEW g \in Strays, Unread(request[h]) = {},
             Abandon(h, g, Transaction(request[h]))
      PROVE  RegistryInv'
  BY <1>8, AbandonKeeps
<1>9. CASE UNCHANGED vars
  <2>1. StoreOK' /\ DOMAIN request' = Places
    BY <1>9, StoreStays DEF vars, RegistryInv, RequestsOK
  <2> QED
    BY <1>9, <2>1 DEF vars, RegistryInv, RequestsOK, Alone, UnderWay
<1>10. ASSUME NEW h \in Handlers, StartNext(h) PROVE RegistryInv'
  BY <1>1, <1>2, <1>3, <1>4, <1>10 DEF StartNext
<1>11. CASE RepositoryNext
  BY <1>5, <1>6, <1>7, <1>8, <1>11, CommitWrites, LandWrites DEF RepositoryNext
<1> QED
  BY <1>9, <1>10, <1>11 DEF Next

(***************************************************************************)
(* Once the subjects and the collection index are there, whatever handlers *)
(* and late transactions do: the store is in order and what each operation *)
(* has read is still so, or its ETag is out of date for good.              *)
(***************************************************************************)
THEOREM RegistryInvariant ==
    ASSUME Bootstrapped
    PROVE  Spec => []RegistryInv
<1>1. Init => RegistryInv
  BY InitInv
<1>2. RegistryInv /\ [Next]_vars => RegistryInv'
  BY NextInv
<1> QED
  BY <1>1, <1>2, PTL DEF Spec

(***************************************************************************)
(* The collection index, the index of each user and model and the hash     *)
(* lookups of VirtualKeyRepository always agree with the stored keys.      *)
(***************************************************************************)
THEOREM IndexesStayExact ==
    ASSUME Bootstrapped
    PROVE  Spec => []IndexesExact
<1>1. RegistryInv => IndexesExact
  BY DEF RegistryInv, StoreOK
<1> QED
  BY <1>1, RegistryInvariant, PTL

(***************************************************************************)
(* No key is ever left with a user or a model that FenceSubject has        *)
(* fenced, whichever of the two transactions arrives first.                *)
(***************************************************************************)
THEOREM HoldersStayLive ==
    ASSUME Bootstrapped
    PROVE  Spec => []HoldersLive
<1>1. RegistryInv => HoldersLive
  BY DEF RegistryInv, StoreOK
<1> QED
  BY <1>1, RegistryInvariant, PTL

-----------------------------------------------------------------------------
(***************************************************************************)
(* What a step can do to the registry: the action properties.              *)
(***************************************************************************)
LEMMA StepKinds ==
    ASSUME RegistryInv, [Next]_vars
    PROVE  \/ store' = store
           \/ \E k, key : KeyPut(k, key)
           \/ \E k : KeyDropped(k)
           \/ \E s, subject : SubjectPut(s, subject)
<1>1. ASSUME NEW h, NEW q, Writes(h, q)
      PROVE  \/ store' = store
             \/ KeyPut(request[h].id, request[h].new)
             \/ KeyDropped(request[h].id)
             \/ SubjectPut(request[h].id, request[h].new)
  <2>1. StoreOK /\ OpOK(request[h], store, issued)
    BY <1>1, UnderWayOK DEF RegistryInv, Writes
  <2> QED
    BY <1>1, <2>1, TransactionEffect DEF Writes
<1>2. ASSUME NEW h \in Handlers, StartNext(h) PROVE store' = store
  BY <1>2 DEF StartNext, StartCreate, updateVirtualKey, deleteVirtualKey, CallArrives,
              Start, StartNew, Arrive
<1>3. ASSUME RepositoryNext
      PROVE  store' = store \/ \E h, q : Writes(h, q)
  <2>1. ASSUME NEW h \in Handlers, Lock(h) PROVE store' = store
    BY <2>1 DEF Lock
  <2>2. ASSUME NEW h \in Handlers, NEW key, Read(h, key) PROVE store' = store
    BY <2>2 DEF Read
  <2>3. ASSUME NEW h \in Handlers, NEW g, NEW tx, Abandon(h, g, tx) PROVE store' = store
    BY <2>3 DEF Abandon
  <2> QED
    BY <1>3, <2>1, <2>2, <2>3, CommitWrites, LandWrites DEF RepositoryNext
<1>4. CASE UNCHANGED vars
  BY <1>4 DEF vars
<1> QED
  BY <1>1, <1>2, <1>3, <1>4 DEF Next
LEMMA PutSubject ==
    ASSUME StoreOK, NEW s, NEW subject, SubjectPut(s, subject)
    PROVE  /\ s \in Subjects /\ subject \in Subject
           /\ SubjectOf(s)' = subject
           /\ \A t \in Subjects \ {s} : SubjectOf(t)' = SubjectOf(t)
           /\ \A k \in Keys : KeyOf(k)' = KeyOf(k)
           /\ subject.revision > SubjectOf(s).revision
           /\ SubjectOf(s).deleted => subject.deleted
<1>1. StoreTyped
  BY DEF StoreOK
<1>2. /\ s \in Subjects /\ subject \in Subject
      /\ \A k \in Keys : Same(virtualKeyKey(k))
      /\ \A t \in Subjects \ {s} : Same(subjectKey(t))
      /\ store'[subjectKey(s)].value = subject /\ Exists(store'[subjectKey(s)])
  BY <1>1, SubjectKeeps
<1>3. SubjectOf(s) = store[subjectKey(s)].value
  BY <1>1, <1>2, SubjectIs
<1>4. SubjectOf(s)' = subject
  BY <1>2 DEF SubjectOf
<1>5. \A t \in Subjects \ {s} : SubjectOf(t)' = SubjectOf(t)
  BY <1>2 DEF SubjectOf, Same
<1>6. \A k \in Keys : KeyOf(k)' = KeyOf(k)
  BY <1>2 DEF KeyOf, Same
<1> QED
  BY <1>2, <1>3, <1>4, <1>5, <1>6 DEF SubjectPut

(***************************************************************************)
(* SyncSubject and FenceSubject only ever store a later revision, and a    *)
(* tombstone stays one, even when an earlier call arrives late.            *)
(***************************************************************************)
THEOREM SubjectsOnlyAdvance ==
    ASSUME Bootstrapped
    PROVE  Spec => SubjectsAdvance
<1> DEFINE Advances ==
      \A s \in Subjects : SubjectOf(s) # None /\ SubjectOf(s)' # SubjectOf(s) =>
        /\ SubjectOf(s)' # None
        /\ SubjectOf(s)'.revision > SubjectOf(s).revision
        /\ SubjectOf(s).deleted => SubjectOf(s)'.deleted
<1>1. ASSUME RegistryInv, [Next]_vars PROVE Advances
  <2>1. StoreOK /\ StoreTyped
    BY <1>1 DEF RegistryInv, StoreOK
  <2>2. CASE store' = store
    BY <2>2 DEF SubjectOf
  <2>3. ASSUME NEW k, NEW key, KeyPut(k, key) PROVE Advances
    <3>1. k \in Keys /\ KeyStep(k, Holders(key))
      BY <2>3 DEF KeyPut
    <3> QED
      BY <2>1, <3>1, KeyStepKeeps
  <2>4. ASSUME NEW k, KeyDropped(k) PROVE Advances
    <3>1. k \in Keys /\ KeyStep(k, {})
      BY <2>4 DEF KeyDropped
    <3> QED
      BY <2>1, <3>1, KeyStepKeeps
  <2>5. ASSUME NEW s, NEW subject, SubjectPut(s, subject) PROVE Advances
    <3>1. /\ s \in Subjects /\ subject \in Subject
          /\ SubjectOf(s)' = subject
          /\ \A t \in Subjects \ {s} : SubjectOf(t)' = SubjectOf(t)
          /\ subject.revision > SubjectOf(s).revision
          /\ SubjectOf(s).deleted => subject.deleted
      BY <2>1, <2>5, PutSubject
    <3>2. subject # None
      BY <3>1, NoneAssumption
    <3> QED
      BY <3>1, <3>2
  <2> QED
    BY <1>1, <2>2, <2>3, <2>4, <2>5, StepKinds
<1>2. RegistryInv /\ [Next]_vars => [Advances]_vars
  BY <1>1
<1>3. SubjectsAdvance <=> [][Advances]_vars
  BY DEF SubjectsAdvance
<1> QED
  BY <1>2, <1>3, RegistryInvariant, PTL DEF Spec

-----------------------------------------------------------------------------
(***************************************************************************)
(* The refinement: what each kind of write is to KeyRegistry.              *)
(***************************************************************************)
keysNow == [k \in Keys |-> KeyOf(k)]
subjectsNow == [s \in Subjects |-> SubjectOf(s)]

LEMMA PutIsPutKey ==
    ASSUME StoreOK, NEW k, NEW key, KeyPut(k, key)
    PROVE  \E j \in Keys : \E v \in Abstract!Key : Abstract!PutKey(j, v)
<1> DEFINE v == [user |-> key.user, models |-> key.models, status |-> key.status]
<1>1. /\ k \in Keys /\ key \in VirtualKey /\ KeyStep(k, Holders(key)) /\ StoreTyped
      /\ \A s \in Holders(key) : ensureCanHold(store[subjectKey(s)], key)
  BY DEF KeyPut, StoreOK
<1>2. v \in Abstract!Key /\ v.models # {}
  BY <1>1 DEF Abstract!Key, Abstract!Status, VirtualKey, Status
<1>3. KeyOf(k)' = v
  <2>1. store[virtualKeyKey(k)].etag \in Nat
    BY <1>1, Found, EntryTypes
  <2>2. Exists(store'[virtualKeyKey(k)]) /\ store'[virtualKeyKey(k)].value = key
    BY <1>1, <2>1, NewEntry DEF KeyPut
  <2> QED
    BY <2>2 DEF KeyOf
<1>4. Abstract!Holders(v) = Holders(key) /\ v.status = key.status
  BY DEF Abstract!Holders, Holders
<1>5. \A s \in Holders(key) : Abstract!CanHold(s, v)
  <2> SUFFICES ASSUME NEW s \in Holders(key) PROVE Abstract!CanHold(s, v)
    OBVIOUS
  <2>1. s \in Subjects
    BY <1>1, HoldersAreSubjects
  <2>2. SubjectOf(s) = store[subjectKey(s)].value /\ SubjectOf(s) # None
    BY <1>1, <2>1, SubjectIs
  <2>3. subjectsNow[s] = SubjectOf(s)
    BY <2>1 DEF subjectsNow
  <2>4. /\ ~SubjectOf(s).deleted
        /\ key.status = "active" => SubjectOf(s).status = "active"
    BY <1>1, <2>2 DEF ensureCanHold
  <2> HIDE DEF v
  <2> QED
    BY <1>4, <2>2, <2>3, <2>4 DEF Abstract!CanHold, subjectsNow
<1>6. keysNow' = [keysNow EXCEPT ![k] = v]
  <2>1. \A j \in Keys \ {k} : KeyOf(j)' = KeyOf(j)
    BY <1>1, KeyStepKeeps
  <2> HIDE DEF v
  <2> QED
    BY <1>1, <1>3, <2>1 DEF keysNow
<1>7. subjectsNow' = subjectsNow
  <2>1. \A s \in Subjects : SubjectOf(s)' = SubjectOf(s)
    BY <1>1, KeyStepKeeps
  <2> QED
    BY <2>1 DEF subjectsNow
<1> HIDE DEF v
<1>8. Abstract!PutKey(k, v)
  BY <1>2, <1>4, <1>5, <1>6, <1>7 DEF Abstract!PutKey, keysNow, subjectsNow
<1> QED
  BY <1>1, <1>2, <1>8

LEMMA DropIsDropKey ==
    ASSUME StoreOK, NEW k, KeyDropped(k)
    PROVE  k \in Keys /\ Abstract!DropKey(k)
<1>1. k \in Keys /\ KeyStep(k, {}) /\ StoreTyped /\ Exists(store[virtualKeyKey(k)])
  BY DEF KeyDropped, StoreOK
<1>2. KeyOf(k) # None
  BY <1>1, KeyIs
<1>3. KeyOf(k)' = None
  BY DEF KeyDropped, KeyOf, Exists, Absent
<1>4. keysNow' = [keysNow EXCEPT ![k] = None]
  <2>1. \A j \in Keys \ {k} : KeyOf(j)' = KeyOf(j)
    BY <1>1, KeyStepKeeps
  <2> QED
    BY <1>1, <1>3, <2>1 DEF keysNow
<1>5. subjectsNow' = subjectsNow
  <2>1. \A s \in Subjects : SubjectOf(s)' = SubjectOf(s)
    BY <1>1, KeyStepKeeps
  <2> QED
    BY <2>1 DEF subjectsNow
<1>6. keysNow[k] # None
  BY <1>1, <1>2 DEF keysNow
<1> QED
  BY <1>1, <1>4, <1>5, <1>6 DEF Abstract!DropKey, keysNow, subjectsNow

LEMMA SubjectIsAdvance ==
    ASSUME StoreOK, NEW s, NEW subject, SubjectPut(s, subject)
    PROVE  s \in Subjects /\ subject \in Subject /\ Abstract!Advance(s, subject)
<1>1. /\ s \in Subjects /\ subject \in Subject
      /\ SubjectOf(s)' = subject
      /\ \A t \in Subjects \ {s} : SubjectOf(t)' = SubjectOf(t)
      /\ \A k \in Keys : KeyOf(k)' = KeyOf(k)
      /\ subject.revision > SubjectOf(s).revision
      /\ SubjectOf(s).deleted => subject.deleted
  BY PutSubject
<1>2. keysNow' = keysNow
  BY <1>1 DEF keysNow
<1>3. subjectsNow' = [subjectsNow EXCEPT ![s] = subject]
  BY <1>1 DEF subjectsNow
<1>4. subjectsNow[s] = SubjectOf(s)
  BY <1>1 DEF subjectsNow
<1>5. ASSUME subject.deleted, NEW k \in Keys, keysNow[k] # None
      PROVE  s \notin Abstract!Holders(keysNow[k])
  <2>1. keysNow[k] = KeyOf(k) /\ Exists(store[virtualKeyKey(k)])
    BY <1>5 DEF keysNow, KeyOf
  <2>2. k \notin readIndex(store[virtualKeysByIndexKey(s)])
    BY <1>5 DEF SubjectPut
  <2>3. s \notin Holders(KeyOf(k))
    BY <1>1, <2>1, <2>2 DEF StoreOK, IndexesExact
  <2> QED
    BY <2>1, <2>3 DEF Holders, Abstract!Holders
<1> QED
  BY <1>1, <1>2, <1>3, <1>4, <1>5 DEF Abstract!Advance, keysNow, subjectsNow

(***************************************************************************)
(* VirtualKeyRepository implements KeyRegistry: every write of the store   *)
(* is one whole operation of the registry, and no other step shows.        *)
(***************************************************************************)
THEOREM RegistryImplemented ==
    ASSUME Bootstrapped
    PROVE  Spec => ImplementsKeyRegistry
<1>1. ASSUME Init PROVE Abstract!Init
  <2>1. /\ \A k \in Keys : store[virtualKeyKey(k)] = Absent
        /\ \A s \in Subjects : store[subjectKey(s)] = Entry(FirstSubject, 1)
    BY <1>1, StartState
  <2>2. \A k \in Keys : KeyOf(k) = None
    BY <2>1 DEF KeyOf, Exists, Absent
  <2>3. \A s \in Subjects : SubjectOf(s) = FirstSubject
    BY <2>1 DEF SubjectOf, Exists, Entry, NoETag
  <2> QED
    BY <2>2, <2>3, FirstSubjectIs DEF Abstract!Init, Subjects
<1>2. ASSUME RegistryInv, [Next]_vars PROVE [Abstract!Next]_(Abstract!vars)
  <2>1. StoreOK
    BY <1>2 DEF RegistryInv
  <2>2. ASSUME store' = store PROVE UNCHANGED Abstract!vars
    BY <2>2 DEF Abstract!vars, KeyOf, SubjectOf
  <2>3. ASSUME NEW k, NEW key, KeyPut(k, key) PROVE Abstract!Next
    BY <2>1, <2>3, PutIsPutKey DEF Abstract!Next
  <2>4. ASSUME NEW k, KeyDropped(k) PROVE Abstract!Next
    BY <2>1, <2>4, DropIsDropKey DEF Abstract!Next
  <2>5. ASSUME NEW s, NEW subject, SubjectPut(s, subject) PROVE Abstract!Next
    BY <2>1, <2>5, SubjectIsAdvance DEF Abstract!Next, Subjects
  <2> QED
    BY <1>2, <2>2, <2>3, <2>4, <2>5, StepKinds
<1> QED
  BY <1>1, <1>2, RegistryInvariant, PTL DEF Spec, ImplementsKeyRegistry, Abstract!Spec
=============================================================================
