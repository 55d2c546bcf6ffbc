------------------------ MODULE ProviderCatalogProofs ------------------------
(***************************************************************************)
(* Proofs about ProviderCatalog, for any providers, models, names and      *)
(* handlers: as long as no transaction outlives its caller, the two        *)
(* repositories implement Catalog and keep indexes and lookups exact.      *)
(***************************************************************************)
EXTENDS ProviderCatalog, TLAPS

-----------------------------------------------------------------------------
(***************************************************************************)
(* The inductive invariant: what the store holds, that a mutex has one     *)
(* holder, and what its holder may rely on of what it has read.            *)
(***************************************************************************)
Present(values) == [value : values, etag : Nat \ {0}]
Entries(values) == {Absent} \cup Present(values)

\* What may be found under a key.
OfType(key, entry) ==
    /\ \A p \in Providers : key = providerKey(p) => entry \in Entries(Provider)
    /\ \A m \in Models : key = modelKey(m) => entry \in Entries(Model)
    /\ \A s \in Slugs : key = slugKey(s) => entry \in Entries(Providers)
    /\ \A a \in Apps : key = appKey(a) => entry \in Entries(Providers)
    /\ \A a \in Aliases : key = aliasKey(a) => entry \in Entries(Models)
    /\ \A p \in Providers :
          key = modelsByProviderIndexKey(p) => entry \in Entries(SUBSET Models)
    /\ key = providerIndexKey => entry \in Entries(SUBSET Providers)
    /\ key = modelIndexKey => entry \in Entries(SUBSET Models)

StoreTyped ==
    /\ store = [key \in StoreKeys |-> store[key]]
    /\ \A key \in StoreKeys : OfType(key, store[key])

StoreOK == StoreTyped /\ IndexesExact /\ LookupsExact

OpTyped(r) ==
    \/ r.op = "createProvider" /\ r.id \in Providers /\ r.new \in Provider
    \/ /\ r.op = "replaceProvider" /\ r.id \in Providers
       /\ r.old \in Provider /\ r.new \in Provider
       /\ r.new.slug = r.old.slug /\ r.new.app = r.old.app
    \/ r.op = "deleteProvider" /\ r.id \in Providers /\ r.old \in Provider
    \/ r.op = "createModel" /\ r.id \in Models /\ r.new \in Model
    \/ /\ r.op = "replaceModel" /\ r.id \in Models
       /\ r.old \in Model /\ r.new \in Model /\ r.new.alias = r.old.alias
    \/ r.op = "deleteModel" /\ r.id \in Models /\ r.old \in Model

ModelRepositoryOps == {"deleteProvider", "createModel", "replaceModel", "deleteModel"}

\* Only operations under the model repository's mutex write these.
ModelKeys ==
    {modelKey(m) : m \in Models} \cup {aliasKey(a) : a \in Aliases}
    \cup {modelsByProviderIndexKey(p) : p \in Providers} \cup {modelIndexKey}

LookupKeys == {slugKey(s) : s \in Slugs} \cup {appKey(a) : a \in Apps}

\* An entry that was read is still there, or its ETag is out of date for good.
Recalled(entry, now) == entry = now \/ (Exists(entry) /\ entry.etag < now.etag)

\* The holder of the provider repository's mutex: nobody else makes a provider or
\* gives it a name.
ProviderReadOK(r, db) ==
    /\ \A p \in Providers : providerKey(p) \in DOMAIN r.got =>
          db[providerKey(p)] = Absent \/ Recalled(r.got[providerKey(p)], db[providerKey(p)])
    /\ \A key \in LookupKeys :
          (key \in DOMAIN r.got /\ ~Exists(r.got[key])) => ~Exists(db[key])

\* The holder of the model repository's mutex: nobody else removes a provider or
\* writes anything about models.
ModelReadOK(r, db) ==
    /\ \A p \in Providers : providerKey(p) \in DOMAIN r.got =>
          \/ ~Exists(r.got[providerKey(p)])
          \/ Recalled(r.got[providerKey(p)], db[providerKey(p)])
    /\ \A key \in ModelKeys : key \in DOMAIN r.got => r.got[key] = db[key]

\* The index of the providers is written under both mutexes.
IndexReadOK(r, db) ==
    (r.op \in {"createProvider", "deleteProvider"} /\ providerIndexKey \in DOMAIN r.got) =>
        Recalled(r.got[providerIndexKey], db[providerIndexKey])

ReadOK(r, db) ==
    /\ \A key \in DOMAIN r.got : OfType(key, r.got[key])
    /\ r.op \in ProviderRepositoryOps => ProviderReadOK(r, db)
    /\ r.op \in ModelRepositoryOps => ModelReadOK(r, db)
    /\ IndexReadOK(r, db)

Shaped(r) ==
    r = [phase |-> r.phase, op |-> r.op, id |-> r.id, old |-> r.old, new |-> r.new,
         got |-> r.got]

\* Who deletes a provider has seen one: the index was written before.
OpOK(r, db) ==
    /\ Shaped(r)
    /\ OpTyped(r)
    /\ ReadOK(r, db)
    /\ r.op = "deleteProvider" => Exists(db[providerIndexKey])
    /\ r.phase = "loaded" => DOMAIN r.got = {}

UnderWay(h) == request[h].phase \in {"loaded", "reading"}

RequestsOK ==
    /\ DOMAIN request = Handlers
    /\ \A h \in Handlers :
          request[h] = Idle \/ (UnderWay(h) /\ OpOK(request[h], store))

MutexesHeld ==
    \A h, g \in InRepository : h # g => ~SameMutex(request[h], request[g])

CatalogInv == StoreOK /\ RequestsOK /\ MutexesHeld

-----------------------------------------------------------------------------
(***************************************************************************)
(* Keys of the store, types and transactions.                              *)
(***************************************************************************)
\* Keys of two kinds differ in their first part, keys of one kind in the second.
LEMMA KeyParts ==
    /\ \A x : providerKey(x)[1] = "providers" /\ providerKey(x)[2] = x
    /\ \A x : modelKey(x)[1] = "models" /\ modelKey(x)[2] = x
    /\ \A x : slugKey(x)[1] = "provider-slug" /\ slugKey(x)[2] = x
    /\ \A x : appKey(x)[1] = "provider-adapter-app-id" /\ appKey(x)[2] = x
    /\ \A x : aliasKey(x)[1] = "model-alias" /\ aliasKey(x)[2] = x
    /\ \A x : modelsByProviderIndexKey(x)[1] = "models-by-provider"
              /\ modelsByProviderIndexKey(x)[2] = x
    /\ providerIndexKey[1] = "index" /\ providerIndexKey[2] = "providers"
    /\ modelIndexKey[1] = "index" /\ modelIndexKey[2] = "models"
  BY DEF providerKey, modelKey, slugKey, appKey, aliasKey, modelsByProviderIndexKey,
         providerIndexKey, modelIndexKey

\* Every key of the two repositories is in the store.
LEMMA KeysStored ==
    /\ \A p \in Providers :
          providerKey(p) \in StoreKeys /\ modelsByProviderIndexKey(p) \in StoreKeys
    /\ \A m \in Models : modelKey(m) \in StoreKeys
    /\ \A s \in Slugs : slugKey(s) \in StoreKeys
    /\ \A a \in Apps : appKey(a) \in StoreKeys
    /\ \A a \in Aliases : aliasKey(a) \in StoreKeys
    /\ providerIndexKey \in StoreKeys /\ modelIndexKey \in StoreKeys
  BY DEF StoreKeys

\* What is found under each of the keys.
LEMMA Found ==
    ASSUME StoreTyped
    PROVE  /\ \A p \in Providers : store[providerKey(p)] \in Entries(Provider)
           /\ \A m \in Models : store[modelKey(m)] \in Entries(Model)
           /\ \A s \in Slugs : store[slugKey(s)] \in Entries(Providers)
           /\ \A a \in Apps : store[appKey(a)] \in Entries(Providers)
           /\ \A a \in Aliases : store[aliasKey(a)] \in Entries(Models)
           /\ \A p \in Providers : store[modelsByProviderIndexKey(p)] \in Entries(SUBSET Models)
           /\ store[providerIndexKey] \in Entries(SUBSET Providers)
           /\ store[modelIndexKey] \in Entries(SUBSET Models)
  BY KeysStored DEF StoreTyped, OfType

\* A provider or the index of the providers that was read has its type.
LEMMA Reading ==
    ASSUME NEW r, ReadOK(r, store)
    PROVE  /\ \A p \in Providers : providerKey(p) \in DOMAIN r.got =>
                r.got[providerKey(p)] \in Entries(Provider)
           /\ providerIndexKey \in DOMAIN r.got =>
                r.got[providerIndexKey] \in Entries(SUBSET Providers)
  BY DEF ReadOK, OfType

\* An entry is Absent, with ETag 0, or has a value and a positive ETag.
LEMMA EntryTypes ==
    ASSUME NEW values, NEW e \in Entries(values)
    PROVE  /\ e.etag \in Nat
           /\ Exists(e) => e.value \in values /\ e = Entry(e.value, e.etag) /\ e.etag > 0
                           /\ e \in Present(values)
           /\ ~Exists(e) => e = Absent
           /\ e = Absent => ~Exists(e)
  BY DEF Entries, Present, Absent, Entry, Exists, NoETag

\* The same of an entry that is there.
LEMMA PresentTypes ==
    ASSUME NEW values, NEW e \in Present(values)
    PROVE  /\ e.etag \in Nat /\ e.etag > 0 /\ e.value \in values
           /\ Exists(e) /\ e = Entry(e.value, e.etag)
           /\ e \in Entries(values)
  BY DEF Entries, Present, Entry, Exists, NoETag

\* Absent has no value, lists nothing, and may be found under any key.
LEMMA AbsentIs ==
    /\ ~Exists(Absent) /\ readIndex(Absent) = {} /\ Absent.etag = 0
    /\ \A values : Absent \in Entries(values)
  BY DEF Exists, Absent, NoETag, readIndex, Entries

\* What an upsert leaves under a key.
LEMMA NewEntry ==
    ASSUME NEW values, NEW v \in values, NEW n \in Nat
    PROVE  /\ Entry(v, n + 1) \in Present(values)
           /\ Entry(v, n + 1).value = v /\ Entry(v, n + 1).etag = n + 1
           /\ Exists(Entry(v, n + 1))
  BY DEF Present, Entry, Exists, NoETag

\* What an upsert of an index leaves under its key.
LEMMA NewIndex ==
    ASSUME NEW ids, NEW sub \in SUBSET ids, NEW n \in Nat
    PROVE  /\ Entry(sub, n + 1) \in Present(SUBSET ids)
           /\ Entry(sub, n + 1).value = sub /\ Entry(sub, n + 1).etag = n + 1
           /\ readIndex(Entry(sub, n + 1)) = sub
           /\ Exists(Entry(sub, n + 1))
  BY DEF Present, Entry, Exists, NoETag, readIndex

\* addIndexID and removeIndexID add and remove the one ID.
LEMMA IndexTypes ==
    ASSUME NEW ids, NEW e \in Entries(SUBSET ids), NEW i \in ids
    PROVE  /\ readIndex(e) \in SUBSET ids
           /\ addIndexID(e, i) \in SUBSET ids /\ addIndexID(e, i) = readIndex(e) \cup {i}
           /\ removeIndexID(e, i) \in SUBSET ids /\ removeIndexID(e, i) = readIndex(e) \ {i}
  BY EntryTypes DEF readIndex, addIndexID, removeIndexID

\* The parts of an upsert and of a deletion.
LEMMA OperationParts ==
    /\ \A v, e : Put(v, e).type = "upsert" /\ Put(v, e).value = v /\ Put(v, e).etag = e
    /\ \A e : Remove(e).type = "delete" /\ Remove(e).etag = e
  BY DEF Put, Remove

\* The providers and models that there are.
ProviderIn(e) ==
    IF Exists(e) THEN [slug |-> e.value.slug, app |-> e.value.app, status |-> e.value.status]
    ELSE None

ModelIn(e) ==
    IF Exists(e)
    THEN [alias |-> e.value.alias, provider |-> e.value.provider, status |-> e.value.status]
    ELSE None

\* The provider of the catalog that an entry stands for.
LEMMA ProviderEntry ==
    ASSUME NEW e \in Entries(Provider)
    PROVE  /\ ~Exists(e) => ProviderIn(e) = None
           /\ Exists(e) =>
                /\ e.value \in Provider
                /\ ProviderIn(e) \in [slug : Slugs, app : Apps, status : Status]
                /\ ProviderIn(e).slug = e.value.slug
                /\ ProviderIn(e).app = e.value.app
                /\ ProviderIn(e).status = e.value.status
                /\ ProviderIn(e) # None
<1>1. ~Exists(e) => ProviderIn(e) = None
  BY DEF ProviderIn
<1>2. ASSUME Exists(e)
      PROVE  /\ e.value \in Provider
             /\ ProviderIn(e) \in [slug : Slugs, app : Apps, status : Status]
             /\ ProviderIn(e).slug = e.value.slug
             /\ ProviderIn(e).app = e.value.app
             /\ ProviderIn(e).status = e.value.status
  <2>1. e.value \in Provider
    BY <1>2, EntryTypes
  <2> QED
    BY <1>2, <2>1 DEF ProviderIn, Provider
<1> QED
  BY <1>1, <1>2, NoneAssumption

\* The model of the catalog that an entry stands for.
LEMMA ModelEntry ==
    ASSUME NEW e \in Entries(Model)
    PROVE  /\ ~Exists(e) => ModelIn(e) = None
           /\ Exists(e) =>
                /\ e.value \in Model
                /\ ModelIn(e) \in [alias : Aliases, provider : Providers, status : Status]
                /\ ModelIn(e).alias = e.value.alias
                /\ ModelIn(e).provider = e.value.provider
                /\ ModelIn(e).status = e.value.status
                /\ ModelIn(e) # None
<1>1. ~Exists(e) => ModelIn(e) = None
  BY DEF ModelIn
<1>2. ASSUME Exists(e)
      PROVE  /\ e.value \in Model
             /\ ModelIn(e) \in [alias : Aliases, provider : Providers, status : Status]
             /\ ModelIn(e).alias = e.value.alias
             /\ ModelIn(e).provider = e.value.provider
             /\ ModelIn(e).status = e.value.status
  <2>1. e.value \in Model
    BY <1>2, EntryTypes
  <2> QED
    BY <1>2, <2>1 DEF ModelIn, Model
<1> QED
  BY <1>1, <1>2, NoneAssumption

\* ProviderOf and ModelOf look at one key of the store.
LEMMA RecordsAre ==
    /\ \A p : ProviderOf(p) = ProviderIn(store[providerKey(p)])
    /\ \A p : ProviderOf(p)' = ProviderIn(store'[providerKey(p)])
    /\ \A m : ModelOf(m) = ModelIn(store[modelKey(m)])
    /\ \A m : ModelOf(m)' = ModelIn(store'[modelKey(m)])
  BY DEF ProviderOf, ProviderIn, ModelOf, ModelIn

\* A provider of the catalog has the names and status stored.
LEMMA ProviderIs ==
    ASSUME StoreTyped, NEW p \in Providers
    PROVE  /\ ~Exists(store[providerKey(p)]) => ProviderOf(p) = None
           /\ Exists(store[providerKey(p)]) =>
                /\ store[providerKey(p)].value \in Provider
                /\ ProviderOf(p).slug = store[providerKey(p)].value.slug
                /\ ProviderOf(p).app = store[providerKey(p)].value.app
                /\ ProviderOf(p).status = store[providerKey(p)].value.status
                /\ ProviderOf(p) # None
  BY Found, ProviderEntry, RecordsAre

\* A model of the catalog has the alias, provider and status stored.
LEMMA ModelIs ==
    ASSUME StoreTyped, NEW m \in Models
    PROVE  /\ ~Exists(store[modelKey(m)]) => ModelOf(m) = None
           /\ Exists(store[modelKey(m)]) =>
                /\ store[modelKey(m)].value \in Model
                /\ ModelOf(m).alias = store[modelKey(m)].value.alias
                /\ ModelOf(m).provider = store[modelKey(m)].value.provider
                /\ ModelOf(m).status = store[modelKey(m)].value.status
                /\ ModelOf(m) # None
  BY Found, ModelEntry, RecordsAre

\* What is found under each of the keys after a step.
LEMMA FoundLater ==
    ASSUME StoreTyped'
    PROVE  /\ \A p \in Providers : store'[providerKey(p)] \in Entries(Provider)
           /\ \A m \in Models : store'[modelKey(m)] \in Entries(Model)
           /\ \A s \in Slugs : store'[slugKey(s)] \in Entries(Providers)
           /\ \A a \in Apps : store'[appKey(a)] \in Entries(Providers)
           /\ \A a \in Aliases : store'[aliasKey(a)] \in Entries(Models)
           /\ \A p \in Providers : store'[modelsByProviderIndexKey(p)] \in Entries(SUBSET Models)
           /\ store'[providerIndexKey] \in Entries(SUBSET Providers)
           /\ store'[modelIndexKey] \in Entries(SUBSET Models)
  BY KeysStored DEF StoreTyped, OfType

-----------------------------------------------------------------------------
(***************************************************************************)
(* What a transaction can come to: nothing, or one of four whole changes.  *)
(***************************************************************************)
Same(key) == store'[key] = store[key]

Written(key, value) == store'[key] = Entry(value, store[key].etag + 1)

Touched(p) ==
    Exists(store[providerKey(p)]) /\ Written(providerKey(p), store[providerKey(p)].value)

Whole == store' = [key \in StoreKeys |-> store'[key]]

\* An index holds these IDs now; if its entry changed, it was written.
Lists(key, ids) ==
    /\ readIndex(store'[key]) = ids
    /\ Same(key) \/ Written(key, ids)

ProviderPut(p, provider) ==
    /\ p \in Providers /\ provider \in Provider /\ Whole
    /\ Exists(store[providerKey(p)]) =>
          /\ store[providerKey(p)].value.slug = provider.slug
          /\ store[providerKey(p)].value.app = provider.app
    /\ NameFree(store[slugKey(provider.slug)], p)
    /\ NameFree(store[appKey(provider.app)], p)
    /\ Written(providerKey(p), provider)
    /\ Written(slugKey(provider.slug), p)
    /\ Written(appKey(provider.app), p)
    /\ Lists(providerIndexKey, readIndex(store[providerIndexKey]) \cup {p})
    /\ \A q \in Providers \ {p} : Same(providerKey(q))
    /\ \A s \in Slugs \ {provider.slug} : Same(slugKey(s))
    /\ \A a \in Apps \ {provider.app} : Same(appKey(a))
    /\ \A key \in ModelKeys : Same(key)

ProviderDropped(p, provider) ==
    /\ p \in Providers /\ provider \in Provider /\ Whole
    /\ Exists(store[providerKey(p)]) /\ store[providerKey(p)].value = provider
    /\ readIndex(store[modelsByProviderIndexKey(p)]) = {}
    /\ store'[providerKey(p)] = Absent
    /\ store'[slugKey(provider.slug)] = Absent
    /\ store'[appKey(provider.app)] = Absent
    /\ store'[modelsByProviderIndexKey(p)] = Absent
    /\ Lists(providerIndexKey, readIndex(store[providerIndexKey]) \ {p})
    /\ \A q \in Providers \ {p} : Same(providerKey(q))
    /\ \A s \in Slugs \ {provider.slug} : Same(slugKey(s))
    /\ \A a \in Apps \ {provider.app} : Same(appKey(a))
    /\ \A key \in ModelKeys \ {modelsByProviderIndexKey(p)} : Same(key)

\* The providers are left alone or touched; m is listed under these and no others.
ModelStep(m, alias, under) ==
    /\ m \in Models /\ alias \in Aliases /\ Whole
    /\ \A p \in Providers : Same(providerKey(p)) \/ Touched(p)
    /\ \A p \in Providers :
          Lists(modelsByProviderIndexKey(p),
                IF p \in under THEN readIndex(store[modelsByProviderIndexKey(p)]) \cup {m}
                ELSE readIndex(store[modelsByProviderIndexKey(p)]) \ {m})
    /\ \A n \in Models \ {m} : Same(modelKey(n))
    /\ \A a \in Aliases \ {alias} : Same(aliasKey(a))
    /\ \A key \in LookupKeys \cup {providerIndexKey} : Same(key)

ModelPut(m, model) ==
    /\ model \in Model
    /\ ModelStep(m, model.alias, {model.provider})
    /\ Exists(store[modelKey(m)]) => store[modelKey(m)].value.alias = model.alias
    /\ NameFree(store[aliasKey(model.alias)], m)
    /\ ensureProviderCanBackModel(store[providerKey(model.provider)], model)
    /\ Written(modelKey(m), model)
    /\ Written(aliasKey(model.alias), m)
    /\ Lists(modelIndexKey, readIndex(store[modelIndexKey]) \cup {m})

ModelDropped(m, model) ==
    /\ model \in Model
    /\ ModelStep(m, model.alias, {})
    /\ Exists(store[modelKey(m)]) /\ store[modelKey(m)].value = model
    /\ store'[modelKey(m)] = Absent
    /\ store'[aliasKey(model.alias)] = Absent
    /\ Lists(modelIndexKey, readIndex(store[modelIndexKey]) \ {m})

-----------------------------------------------------------------------------
\* A transaction that goes through, key by key.
Done(tx) ==
    /\ Whole
    /\ \A key \in StoreKeys : key \notin DOMAIN tx => Same(key)
    /\ \A key \in StoreKeys : key \in DOMAIN tx =>
          /\ tx[key].etag = 0 \/ tx[key].etag = store[key].etag
          /\ tx[key].type = "delete" => store'[key] = Absent
          /\ tx[key].type = "upsert" => Written(key, tx[key].value)

\* Transact is all or nothing.
LEMMA NothingOrDone ==
    ASSUME StoreTyped, NEW tx, store' = Transact(store, tx)
    PROVE  /\ store' = store \/ Done(tx)
           /\ tx = NoOperation => store' = store
<1>0. DOMAIN store = StoreKeys
  BY DEF StoreTyped
<1>1. ASSUME tx = NoOperation PROVE store' = store
  <2>1. Applied(store, tx) = store
    BY <1>1 DEF NoOperation, Applied, StoreTyped
  <2> QED
    BY <2>1 DEF Transact
<1>2. ASSUME Current(store, tx) PROVE Done(tx)
  <2>1. store' = Applied(store, tx)
    BY <1>2 DEF Transact
  <2>2. Whole
    BY <1>0, <2>1 DEF Whole, Applied
  <2>3. \A key \in StoreKeys : key \notin DOMAIN tx => Same(key)
    BY <1>0, <2>1 DEF Same, Applied
  <2>4. \A key \in StoreKeys : key \in DOMAIN tx =>
          (tx[key].etag = 0 \/ tx[key].etag = store[key].etag)
    BY <1>2 DEF Current, NoETag
  <2>5. ASSUME NEW key \in StoreKeys, key \in DOMAIN tx
        PROVE  /\ tx[key].type = "delete" => store'[key] = Absent
               /\ tx[key].type = "upsert" => Written(key, tx[key].value)
    BY <1>0, <2>1, <2>5 DEF Written, Applied
  <2> QED
    BY <2>2, <2>3, <2>4, <2>5 DEF Done
<1> QED
  BY <1>1, <1>2 DEF Transact

\* An upsert that is done has written, and its ETag was current or empty.
LEMMA PutDone ==
    ASSUME NEW tx, Done(tx), NEW key \in StoreKeys, key \in DOMAIN tx,
           NEW value, NEW etag, tx[key] = Put(value, etag)
    PROVE  Written(key, value) /\ (etag = 0 \/ etag = store[key].etag)
  BY OperationParts DEF Done

\* A deletion that is done has removed, and its ETag was current or empty.
LEMMA RemoveDone ==
    ASSUME NEW tx, Done(tx), NEW key \in StoreKeys, key \in DOMAIN tx,
           NEW etag, tx[key] = Remove(etag)
    PROVE  store'[key] = Absent /\ (etag = 0 \/ etag = store[key].etag)
  BY OperationParts DEF Done

\* What was read and has the current ETag is current.
LEMMA RecalledIsCurrent ==
    ASSUME NEW e, NEW now, e.etag \in Nat, Recalled(e, now), e.etag = 0 \/ e.etag = now.etag
    PROVE  e = now
  BY DEF Recalled, Exists, NoETag

\* What a completed operation has read.
LEMMA AllRead ==
    ASSUME NEW r, Unread(r) = {}
    PROVE  \A i \in DOMAIN ReadList(r) : ReadList(r)[i] \in DOMAIN r.got
  BY DEF Unread

-----------------------------------------------------------------------------
(***************************************************************************)
(* What each operation comes to.                                           *)
(***************************************************************************)
LEMMA ProviderReads ==
    ASSUME NEW r, Unread(r) = {}
    PROVE  /\ r.op = "createProvider" =>
                {providerKey(r.id), slugKey(r.new.slug), appKey(r.new.app), providerIndexKey}
                    \subseteq DOMAIN r.got
           /\ r.op = "replaceProvider" => providerKey(r.id) \in DOMAIN r.got
           /\ r.op = "deleteProvider" =>
                {providerKey(r.id), modelsByProviderIndexKey(r.id), providerIndexKey}
                    \subseteq DOMAIN r.got
<1>1. ASSUME r.op = "createProvider"
      PROVE  {providerKey(r.id), slugKey(r.new.slug), appKey(r.new.app), providerIndexKey}
                \subseteq DOMAIN r.got
  <2>1. ReadList(r) = <<providerKey(r.id), slugKey(r.new.slug), appKey(r.new.app),
                        providerIndexKey>>
    BY <1>1 DEF ReadList
  <2> QED
    BY <2>1, AllRead
<1>2. ASSUME r.op = "replaceProvider" PROVE providerKey(r.id) \in DOMAIN r.got
  <2>1. ReadList(r) = <<providerKey(r.id), slugKey(r.new.slug), appKey(r.new.app)>>
    BY <1>2 DEF ReadList
  <2> QED
    BY <2>1, AllRead
<1>3. ASSUME r.op = "deleteProvider"
      PROVE  {providerKey(r.id), modelsByProviderIndexKey(r.id), providerIndexKey}
                \subseteq DOMAIN r.got
  <2>1. ReadList(r) = <<providerKey(r.id), modelsByProviderIndexKey(r.id), providerIndexKey>>
    BY <1>3 DEF ReadList
  <2> QED
    BY <2>1, AllRead
<1> QED
  BY <1>1, <1>2, <1>3

\* The fields of a stored provider, and its lookups.
LEMMA ProviderParts ==
    ASSUME NEW v \in Provider
    PROVE  /\ v.slug \in Slugs /\ v.app \in Apps /\ v.status \in Status /\ v.writes \in Nat
           /\ providerLookups(v) = {slugKey(v.slug), appKey(v.app)}
  BY DEF Provider, providerLookups

\* The fields of a stored model.
LEMMA ModelParts ==
    ASSUME NEW v \in Model
    PROVE  v.alias \in Aliases /\ v.provider \in Providers /\ v.status \in Status
           /\ v.writes \in Nat
  BY DEF Model

\* The index of the providers that was read is the one stored, if its ETag is.
LEMMA IndexCurrent ==
    ASSUME StoreTyped, NEW r, ReadOK(r, store), r.op \in {"createProvider", "deleteProvider"},
           providerIndexKey \in DOMAIN r.got,
           \/ r.got[providerIndexKey].etag = 0
           \/ r.got[providerIndexKey].etag = store[providerIndexKey].etag
    PROVE  r.got[providerIndexKey] = store[providerIndexKey]
<1>1. r.got[providerIndexKey] \in Entries(SUBSET Providers)
  BY Reading
<1>2. r.got[providerIndexKey].etag \in Nat
  BY <1>1, EntryTypes
<1>3. Recalled(r.got[providerIndexKey], store[providerIndexKey])
  BY DEF ReadOK, IndexReadOK
<1> QED
  BY <1>2, <1>3, RecalledIsCurrent

\* A written index lists what was written.
LEMMA WrittenLists ==
    ASSUME NEW key, NEW ids, store[key].etag \in Nat, Written(key, ids)
    PROVE  Lists(key, ids)
<1>1. /\ Entry(ids, store[key].etag + 1).value = ids
      /\ Entry(ids, store[key].etag + 1).etag = store[key].etag + 1
  BY DEF Entry
<1>2. Exists(store'[key]) /\ store'[key].value = ids
  BY <1>1 DEF Written, Exists, NoETag
<1> QED
  BY <1>2 DEF Lists, readIndex

\* createProvider stores the provider with both its lookups, or nothing.
LEMMA createProviderEffect ==
    ASSUME StoreOK, NEW r, OpOK(r, store), r.op = "createProvider", Unread(r) = {},
           store' = Transact(store, createProvider(r))
    PROVE  store' = store \/ (ProviderPut(r.id, r.new) /\ ~Exists(store[providerKey(r.id)]))
<1> DEFINE p == r.id
           index == r.got[providerIndexKey]
           a == Upsert(providerKey(p), r.new, NoETag)
           b == Upsert(providerIndexKey, addIndexID(index, p), index.etag)
           c == UpsertLookups(providerLookups(r.new), p)
           tx == a ++ b ++ c
<1>1. /\ p \in Providers /\ r.new \in Provider /\ StoreTyped /\ ReadOK(r, store)
      /\ ProviderReadOK(r, store)
  BY DEF OpOK, OpTyped, StoreOK, ReadOK, ProviderRepositoryOps
<1>2. {providerKey(p), slugKey(r.new.slug), appKey(r.new.app), providerIndexKey}
         \subseteq DOMAIN r.got
  BY ProviderReads
<1>3. /\ r.new.slug \in Slugs /\ r.new.app \in Apps
      /\ providerLookups(r.new) = {slugKey(r.new.slug), appKey(r.new.app)}
  BY <1>1, ProviderParts
<1>4. SUFFICES ASSUME store' # store
               PROVE  ProviderPut(r.id, r.new) /\ ~Exists(store[providerKey(r.id)])
  OBVIOUS
<1>5. createProvider(r) # NoOperation /\ Done(createProvider(r))
  BY <1>1, <1>4, NothingOrDone
<1>6. /\ ~Exists(r.got[providerKey(p)])
      /\ ~Exists(r.got[slugKey(r.new.slug)]) /\ ~Exists(r.got[appKey(r.new.app)])
      /\ createProvider(r) = tx
  BY <1>3, <1>5 DEF createProvider
<1>7. /\ DOMAIN tx = {providerKey(p), providerIndexKey, slugKey(r.new.slug), appKey(r.new.app)}
      /\ tx[providerKey(p)] = Put(r.new, 0)
      /\ tx[providerIndexKey] = Put(addIndexID(index, p), index.etag)
      /\ tx[slugKey(r.new.slug)] = Put(p, 0)
      /\ tx[appKey(r.new.app)] = Put(p, 0)
  <2>1. DOMAIN a = {providerKey(p)} /\ a[providerKey(p)] = Put(r.new, 0)
    BY DEF Upsert, NoETag
  <2>2. DOMAIN b = {providerIndexKey} /\ b[providerIndexKey] = Put(addIndexID(index, p), index.etag)
    BY DEF Upsert
  <2>3. /\ DOMAIN c = {slugKey(r.new.slug), appKey(r.new.app)}
        /\ c[slugKey(r.new.slug)] = Put(p, 0) /\ c[appKey(r.new.app)] = Put(p, 0)
    BY <1>3 DEF UpsertLookups, NoETag
  <2> HIDE DEF a, b, c
  <2>4. /\ DOMAIN (a ++ b) = {providerKey(p), providerIndexKey}
        /\ (a ++ b)[providerKey(p)] = Put(r.new, 0)
        /\ (a ++ b)[providerIndexKey] = Put(addIndexID(index, p), index.etag)
    BY <2>1, <2>2, KeyParts DEF ++
  <2> QED
    BY <2>3, <2>4, KeyParts DEF ++
<1> HIDE DEF tx, p, index
<1>8. Done(tx)
  BY <1>5, <1>6
<1>9. /\ providerKey(p) \in StoreKeys /\ providerIndexKey \in StoreKeys
      /\ slugKey(r.new.slug) \in StoreKeys /\ appKey(r.new.app) \in StoreKeys
  BY <1>1, <1>3, KeysStored
<1>10. /\ Written(providerKey(p), r.new)
       /\ Written(slugKey(r.new.slug), p)
       /\ Written(appKey(r.new.app), p)
       /\ Written(providerIndexKey, addIndexID(index, p))
       /\ index.etag = 0 \/ index.etag = store[providerIndexKey].etag
  BY <1>7, <1>8, <1>9, PutDone
<1>11. ~Exists(store[providerKey(p)])
  BY <1>1, <1>2, <1>6, AbsentIs DEF ProviderReadOK, Recalled, p
<1>12. ~Exists(store[slugKey(r.new.slug)]) /\ ~Exists(store[appKey(r.new.app)])
  BY <1>1, <1>2, <1>3, <1>6 DEF ProviderReadOK, LookupKeys
<1>13. Lists(providerIndexKey, readIndex(store[providerIndexKey]) \cup {p})
  <2>1. index = store[providerIndexKey]
    BY <1>1, <1>2, <1>10, IndexCurrent DEF index
  <2>2. store[providerIndexKey].etag \in Nat
    BY <1>1, Found, EntryTypes
  <2> QED
    BY <1>10, <2>1, <2>2, WrittenLists DEF addIndexID
<1>14. \A key \in StoreKeys \ {providerKey(p), providerIndexKey, slugKey(r.new.slug),
                              appKey(r.new.app)} : Same(key)
  BY <1>7, <1>8 DEF Done
<1>15. /\ \A q \in Providers \ {p} : Same(providerKey(q))
       /\ \A s \in Slugs \ {r.new.slug} : Same(slugKey(s))
       /\ \A x \in Apps \ {r.new.app} : Same(appKey(x))
       /\ \A key \in ModelKeys : Same(key)
  BY <1>14, KeyParts, KeysStored DEF ModelKeys
<1>16. Whole
  BY <1>8 DEF Done
<1> QED
  BY <1>1, <1>10, <1>11, <1>12, <1>13, <1>15, <1>16 DEF ProviderPut, NameFree, p

\* The names of a provider that there is lead to it.
LEMMA NamesLead ==
    ASSUME StoreOK, NEW p \in Providers, Exists(store[providerKey(p)])
    PROVE  /\ Exists(store[slugKey(store[providerKey(p)].value.slug)])
           /\ store[slugKey(store[providerKey(p)].value.slug)].value = p
           /\ Exists(store[appKey(store[providerKey(p)].value.app)])
           /\ store[appKey(store[providerKey(p)].value.app)].value = p
<1>1. /\ ProviderOf(p) # None
      /\ ProviderOf(p).slug = store[providerKey(p)].value.slug
      /\ ProviderOf(p).app = store[providerKey(p)].value.app
  BY ProviderIs DEF StoreOK
<1>2. \A k \in providerLookups(ProviderOf(p)) : Exists(store[k]) /\ store[k].value = p
  BY <1>1 DEF StoreOK, LookupsExact
<1> QED
  BY <1>1, <1>2 DEF providerLookups

\* The alias of a model that there is leads to it.
LEMMA AliasLeads ==
    ASSUME StoreOK, NEW m \in Models, Exists(store[modelKey(m)])
    PROVE  /\ Exists(store[aliasKey(store[modelKey(m)].value.alias)])
           /\ store[aliasKey(store[modelKey(m)].value.alias)].value = m
<1>1. ModelOf(m) # None /\ ModelOf(m).alias = store[modelKey(m)].value.alias
  BY ModelIs DEF StoreOK
<1> QED
  BY <1>1 DEF StoreOK, LookupsExact

\* The indexes list what there is, each model under its provider.
LEMMA ExistingListed ==
    ASSUME StoreOK
    PROVE  /\ \A p \in Providers : Exists(store[providerKey(p)]) =>
                p \in readIndex(store[providerIndexKey])
           /\ \A m \in Models : Exists(store[modelKey(m)]) =>
                m \in readIndex(store[modelIndexKey])
           /\ \A p \in Providers, m \in Models :
                m \in readIndex(store[modelsByProviderIndexKey(p)])
                  <=> Exists(store[modelKey(m)]) /\ store[modelKey(m)].value.provider = p
<1>1. /\ readIndex(store[providerIndexKey])
            = {p \in Providers : Exists(store[providerKey(p)])}
      /\ readIndex(store[modelIndexKey]) = {m \in Models : Exists(store[modelKey(m)])}
  BY DEF StoreOK, IndexesExact, Existing
<1>2. ASSUME NEW p \in Providers, NEW m \in Models
      PROVE  m \in readIndex(store[modelsByProviderIndexKey(p)])
                <=> Exists(store[modelKey(m)]) /\ store[modelKey(m)].value.provider = p
  <2>1. m \in readIndex(store[modelsByProviderIndexKey(p)])
          <=> ModelOf(m) # None /\ ModelOf(m).provider = p
    BY DEF StoreOK, IndexesExact
  <2> QED
    BY <2>1, ModelIs DEF StoreOK
<1> QED
  BY <1>1, <1>2

\* replaceProvider stores the provider over an existing one, or nothing.
LEMMA replaceProviderEffect ==
    ASSUME StoreOK, NEW r, OpOK(r, store), r.op = "replaceProvider", Unread(r) = {},
           store' = Transact(store, replaceProvider(r))
    PROVE  store' = store \/ (ProviderPut(r.id, r.new) /\ Exists(store[providerKey(r.id)]))
<1> DEFINE p == r.id
           entity == r.got[providerKey(p)]
           a == Upsert(providerKey(p), r.new, entity.etag)
           b == UpsertLookups(providerLookups(r.new), p)
           tx == a ++ b
<1>1. /\ p \in Providers /\ r.new \in Provider /\ r.old \in Provider
      /\ r.new.slug = r.old.slug /\ r.new.app = r.old.app
      /\ StoreTyped /\ ReadOK(r, store) /\ ProviderReadOK(r, store)
  BY DEF OpOK, OpTyped, StoreOK, ReadOK, ProviderRepositoryOps
<1>2. providerKey(p) \in DOMAIN r.got
  BY ProviderReads
<1>3. /\ r.new.slug \in Slugs /\ r.new.app \in Apps
      /\ providerLookups(r.new) = {slugKey(r.new.slug), appKey(r.new.app)}
  BY <1>1, ProviderParts
<1>4. SUFFICES ASSUME store' # store
               PROVE  ProviderPut(r.id, r.new) /\ Exists(store[providerKey(r.id)])
  OBVIOUS
<1>5. replaceProvider(r) # NoOperation /\ Done(replaceProvider(r))
  BY <1>1, <1>4, NothingOrDone
<1>6. Exists(entity) /\ entity.value = r.old /\ replaceProvider(r) = tx
  BY <1>3, <1>5 DEF replaceProvider
<1>7. /\ DOMAIN tx = {providerKey(p), slugKey(r.new.slug), appKey(r.new.app)}
      /\ tx[providerKey(p)] = Put(r.new, entity.etag)
      /\ tx[slugKey(r.new.slug)] = Put(p, 0)
      /\ tx[appKey(r.new.app)] = Put(p, 0)
  <2>1. DOMAIN a = {providerKey(p)} /\ a[providerKey(p)] = Put(r.new, entity.etag)
    BY DEF Upsert
  <2>2. /\ DOMAIN b = {slugKey(r.new.slug), appKey(r.new.app)}
        /\ b[slugKey(r.new.slug)] = Put(p, 0) /\ b[appKey(r.new.app)] = Put(p, 0)
    BY <1>3 DEF UpsertLookups, NoETag
  <2> HIDE DEF a, b
  <2> QED
    BY <2>1, <2>2, KeyParts DEF ++
<1> HIDE DEF tx, p, entity
<1>8. Done(tx)
  BY <1>5, <1>6
<1>9. /\ providerKey(p) \in StoreKeys /\ slugKey(r.new.slug) \in StoreKeys
      /\ appKey(r.new.app) \in StoreKeys
  BY <1>1, <1>3, KeysStored
<1>10. /\ Written(providerKey(p), r.new)
       /\ Written(slugKey(r.new.slug), p)
       /\ Written(appKey(r.new.app), p)
       /\ entity.etag = 0 \/ entity.etag = store[providerKey(p)].etag
  BY <1>7, <1>8, <1>9, PutDone
<1>11. entity = store[providerKey(p)]
  <2>1. entity \in Entries(Provider)
    BY <1>1, <1>2, Reading DEF entity, p
  <2>2. entity.etag \in Nat /\ entity.etag > 0
    BY <1>6, <2>1, EntryTypes
  <2>3. store[providerKey(p)] # Absent
    BY <1>10, <2>2, AbsentIs
  <2>4. Recalled(entity, store[providerKey(p)])
    BY <1>1, <1>2, <2>3 DEF ProviderReadOK, entity, p
  <2> QED
    BY <1>10, <2>2, <2>4, RecalledIsCurrent
<1>12. /\ Exists(store[providerKey(p)]) /\ store[providerKey(p)].value = r.old
       /\ store[slugKey(r.new.slug)].value = p /\ store[appKey(r.new.app)].value = p
       /\ p \in readIndex(store[providerIndexKey])
  BY <1>1, <1>6, <1>11, NamesLead, ExistingListed
<1>14. \A key \in StoreKeys \ {providerKey(p), slugKey(r.new.slug), appKey(r.new.app)} :
          Same(key)
  BY <1>7, <1>8 DEF Done
<1>15. /\ \A q \in Providers \ {p} : Same(providerKey(q))
       /\ \A s \in Slugs \ {r.new.slug} : Same(slugKey(s))
       /\ \A x \in Apps \ {r.new.app} : Same(appKey(x))
       /\ \A key \in ModelKeys : Same(key)
       /\ Same(providerIndexKey)
  BY <1>14, KeyParts, KeysStored DEF ModelKeys
<1>16. Lists(providerIndexKey, readIndex(store[providerIndexKey]) \cup {p})
  BY <1>12, <1>15 DEF Lists, Same
<1>17. Whole
  BY <1>8 DEF Done
<1> QED
  BY <1>1, <1>10, <1>12, <1>15, <1>16, <1>17 DEF ProviderPut, NameFree, p

\* DeleteProviderIfNoModels removes a provider without models, or nothing.
LEMMA deleteProviderEffect ==
    ASSUME StoreOK, NEW r, OpOK(r, store), r.op = "deleteProvider", Unread(r) = {},
           store' = Transact(store, DeleteProviderIfNoModels(r))
    PROVE  store' = store \/ ProviderDropped(r.id, r.old)
<1> DEFINE p == r.id
           entity == r.got[providerKey(p)]
           ofProvider == r.got[modelsByProviderIndexKey(p)]
           index == r.got[providerIndexKey]
           a == Delete(providerKey(p), entity.etag)
           b == Upsert(providerIndexKey, removeIndexID(index, p), index.etag)
           c == DeleteLookups(providerLookups(r.old))
           d == IF Exists(ofProvider)
                THEN Delete(modelsByProviderIndexKey(p), ofProvider.etag)
                ELSE NoOperation
           tx == a ++ b ++ c ++ d
<1>1. /\ p \in Providers /\ r.old \in Provider
      /\ StoreTyped /\ ReadOK(r, store) /\ ModelReadOK(r, store)
  BY DEF OpOK, OpTyped, StoreOK, ReadOK, ModelRepositoryOps
<1>2. {providerKey(p), modelsByProviderIndexKey(p), providerIndexKey} \subseteq DOMAIN r.got
  BY ProviderReads
<1>3. /\ r.old.slug \in Slugs /\ r.old.app \in Apps
      /\ providerLookups(r.old) = {slugKey(r.old.slug), appKey(r.old.app)}
  BY <1>1, ProviderParts
<1>4. SUFFICES ASSUME store' # store PROVE ProviderDropped(r.id, r.old)
  OBVIOUS
<1>5. /\ DeleteProviderIfNoModels(r) # NoOperation
      /\ Done(DeleteProviderIfNoModels(r))
  BY <1>1, <1>4, NothingOrDone
<1>6. /\ Exists(entity) /\ entity.value = r.old /\ readIndex(ofProvider) = {}
      /\ DeleteProviderIfNoModels(r) = tx
  BY <1>5 DEF DeleteProviderIfNoModels
<1>7. /\ {providerKey(p), providerIndexKey, slugKey(r.old.slug), appKey(r.old.app)}
            \subseteq DOMAIN tx
      /\ DOMAIN tx \subseteq {providerKey(p), providerIndexKey, slugKey(r.old.slug),
                              appKey(r.old.app), modelsByProviderIndexKey(p)}
      /\ tx[providerKey(p)] = Remove(entity.etag)
      /\ tx[providerIndexKey] = Put(removeIndexID(index, p), index.etag)
      /\ tx[slugKey(r.old.slug)] = Remove(0)
      /\ tx[appKey(r.old.app)] = Remove(0)
      /\ Exists(ofProvider) =>
           /\ modelsByProviderIndexKey(p) \in DOMAIN tx
           /\ tx[modelsByProviderIndexKey(p)] = Remove(ofProvider.etag)
      /\ ~Exists(ofProvider) => modelsByProviderIndexKey(p) \notin DOMAIN tx
  <2>1. DOMAIN a = {providerKey(p)} /\ a[providerKey(p)] = Remove(entity.etag)
    BY DEF Delete
  <2>2. /\ DOMAIN b = {providerIndexKey}
        /\ b[providerIndexKey] = Put(removeIndexID(index, p), index.etag)
    BY DEF Upsert
  <2>3. /\ DOMAIN c = {slugKey(r.old.slug), appKey(r.old.app)}
        /\ c[slugKey(r.old.slug)] = Remove(0) /\ c[appKey(r.old.app)] = Remove(0)
    BY <1>3 DEF DeleteLookups, NoETag
  <2>4. /\ DOMAIN d \subseteq {modelsByProviderIndexKey(p)}
        /\ Exists(ofProvider) =>
              /\ DOMAIN d = {modelsByProviderIndexKey(p)}
              /\ d[modelsByProviderIndexKey(p)] = Remove(ofProvider.etag)
        /\ ~Exists(ofProvider) => DOMAIN d = {}
    BY DEF Delete, NoOperation
  <2> HIDE DEF a, b, c, d
  <2>5. /\ DOMAIN (a ++ b) = {providerKey(p), providerIndexKey}
        /\ (a ++ b)[providerKey(p)] = Remove(entity.etag)
        /\ (a ++ b)[providerIndexKey] = Put(removeIndexID(index, p), index.etag)
    BY <2>1, <2>2, KeyParts DEF ++
  <2>6. /\ DOMAIN (a ++ b ++ c) = {providerKey(p), providerIndexKey, slugKey(r.old.slug),
                                   appKey(r.old.app)}
        /\ (a ++ b ++ c)[providerKey(p)] = Remove(entity.etag)
        /\ (a ++ b ++ c)[providerIndexKey] = Put(removeIndexID(index, p), index.etag)
        /\ (a ++ b ++ c)[slugKey(r.old.slug)] = Remove(0)
        /\ (a ++ b ++ c)[appKey(r.old.app)] = Remove(0)
    BY <2>3, <2>5, KeyParts DEF ++
  <2> QED
    BY <2>4, <2>6, KeyParts DEF ++
<1> HIDE DEF tx, p, entity, index, ofProvider
<1>8. Done(tx)
  BY <1>5, <1>6
<1>9. /\ providerKey(p) \in StoreKeys /\ slugKey(r.old.slug) \in StoreKeys
      /\ appKey(r.old.app) \in StoreKeys /\ providerIndexKey \in StoreKeys
      /\ modelsByProviderIndexKey(p) \in StoreKeys
  BY <1>1, <1>3, KeysStored
<1>10. /\ store'[providerKey(p)] = Absent
       /\ entity.etag = 0 \/ entity.etag = store[providerKey(p)].etag
       /\ store'[slugKey(r.old.slug)] = Absent /\ store'[appKey(r.old.app)] = Absent
       /\ Exists(ofProvider) => store'[modelsByProviderIndexKey(p)] = Absent
  BY <1>7, <1>8, <1>9, RemoveDone
<1>11. /\ Written(providerIndexKey, removeIndexID(index, p))
       /\ index.etag = 0 \/ index.etag = store[providerIndexKey].etag
  BY <1>7, <1>8, <1>9, PutDone
<1>12. entity = store[providerKey(p)]
  <2>1. entity \in Entries(Provider)
    BY <1>1, <1>2, Reading DEF entity, p
  <2>2. entity.etag \in Nat /\ entity.etag > 0
    BY <1>6, <2>1, EntryTypes
  <2>3. Recalled(entity, store[providerKey(p)])
    BY <1>1, <1>2, <1>6 DEF ModelReadOK, entity, p
  <2> QED
    BY <1>10, <2>2, <2>3, RecalledIsCurrent
<1>13. ofProvider = store[modelsByProviderIndexKey(p)]
  BY <1>1, <1>2 DEF ModelReadOK, ModelKeys, ofProvider, p
<1>14. store'[modelsByProviderIndexKey(p)] = Absent
  <2>1. CASE Exists(ofProvider)
    BY <1>10, <2>1
  <2>2. CASE ~Exists(ofProvider)
    <3>1. ofProvider = Absent
      BY <1>1, <1>13, <2>2, Found, EntryTypes
    <3>2. \/ Same(modelsByProviderIndexKey(p))
          \/ modelsByProviderIndexKey(p) \in DOMAIN tx
      BY <1>8, <1>9 DEF Done
    <3>3. modelsByProviderIndexKey(p) \notin DOMAIN tx
      BY <1>7, <2>2
    <3> QED
      BY <1>13, <3>1, <3>2, <3>3 DEF Same
  <2> QED
    BY <2>1, <2>2
<1>15. Lists(providerIndexKey, readIndex(store[providerIndexKey]) \ {p})
  <2>1. index = store[providerIndexKey]
    BY <1>1, <1>2, <1>11, IndexCurrent DEF index
  <2>2. store[providerIndexKey].etag \in Nat
    BY <1>1, Found, EntryTypes
  <2> QED
    BY <1>11, <2>1, <2>2, WrittenLists DEF removeIndexID
<1>16. \A key \in StoreKeys \ {providerKey(p), providerIndexKey, slugKey(r.old.slug),
                              appKey(r.old.app), modelsByProviderIndexKey(p)} : Same(key)
  BY <1>7, <1>8 DEF Done
<1>17. /\ \A q \in Providers \ {p} : Same(providerKey(q))
       /\ \A s \in Slugs \ {r.old.slug} : Same(slugKey(s))
       /\ \A x \in Apps \ {r.old.app} : Same(appKey(x))
       /\ \A key \in ModelKeys \ {modelsByProviderIndexKey(p)} : Same(key)
  BY <1>16, KeyParts, KeysStored DEF ModelKeys
<1>18. Whole
  BY <1>8 DEF Done
<1> QED
  BY <1>1, <1>6, <1>10, <1>12, <1>13, <1>14, <1>15, <1>17, <1>18 DEF ProviderDropped, p

\* What a completed operation on models has read.
LEMMA ModelReads ==
    ASSUME NEW r, Unread(r) = {}
    PROVE  /\ r.op = "createModel" =>
                {modelKey(r.id), aliasKey(r.new.alias), providerKey(r.new.provider),
                 modelIndexKey, modelsByProviderIndexKey(r.new.provider)} \subseteq DOMAIN r.got
           /\ r.op = "replaceModel" =>
                {modelKey(r.id), aliasKey(r.new.alias), providerKey(r.old.provider),
                 providerKey(r.new.provider), modelsByProviderIndexKey(r.old.provider),
                 modelsByProviderIndexKey(r.new.provider)} \subseteq DOMAIN r.got
           /\ r.op = "deleteModel" =>
                {modelKey(r.id), modelIndexKey, modelsByProviderIndexKey(r.old.provider),
                 providerKey(r.old.provider)} \subseteq DOMAIN r.got
<1>1. ASSUME r.op = "createModel"
      PROVE  {modelKey(r.id), aliasKey(r.new.alias), providerKey(r.new.provider),
              modelIndexKey, modelsByProviderIndexKey(r.new.provider)} \subseteq DOMAIN r.got
  <2>1. ReadList(r) = <<modelKey(r.id), aliasKey(r.new.alias), providerKey(r.new.provider),
                        modelIndexKey, modelsByProviderIndexKey(r.new.provider)>>
    BY <1>1 DEF ReadList
  <2> QED
    BY <2>1, AllRead
<1>2. ASSUME r.op = "replaceModel"
      PROVE  {modelKey(r.id), aliasKey(r.new.alias), providerKey(r.old.provider),
              providerKey(r.new.provider), modelsByProviderIndexKey(r.old.provider),
              modelsByProviderIndexKey(r.new.provider)} \subseteq DOMAIN r.got
  <2>1. CASE r.new.provider = r.old.provider
    <3>1. ReadList(r) = <<modelKey(r.id), aliasKey(r.new.alias), providerKey(r.old.provider),
                          modelsByProviderIndexKey(r.old.provider)>>
      BY <1>2, <2>1 DEF ReadList
    <3> QED
      BY <2>1, <3>1, AllRead
  <2>2. CASE r.new.provider # r.old.provider
    <3>1. ReadList(r) = <<modelKey(r.id), aliasKey(r.new.alias), providerKey(r.old.provider),
                          providerKey(r.new.provider),
                          modelsByProviderIndexKey(r.old.provider),
                          modelsByProviderIndexKey(r.new.provider)>>
      BY <1>2, <2>2 DEF ReadList
    <3> QED
      BY <3>1, AllRead
  <2> QED
    BY <2>1, <2>2
<1>3. ASSUME r.op = "deleteModel"
      PROVE  {modelKey(r.id), modelIndexKey, modelsByProviderIndexKey(r.old.provider),
              providerKey(r.old.provider)} \subseteq DOMAIN r.got
  <2>1. ReadList(r) = <<modelKey(r.id), modelIndexKey,
                        modelsByProviderIndexKey(r.old.provider), providerKey(r.old.provider)>>
    BY <1>3 DEF ReadList
  <2> QED
    BY <2>1, AllRead
<1> QED
  BY <1>1, <1>2, <1>3

\* A provider that was read and is claimed by its ETag is the one stored.
LEMMA ProviderCurrent ==
    ASSUME NEW r, ReadOK(r, store), r.op \in ModelRepositoryOps, NEW p \in Providers,
           providerKey(p) \in DOMAIN r.got, Exists(r.got[providerKey(p)]),
           \/ r.got[providerKey(p)].etag = 0
           \/ r.got[providerKey(p)].etag = store[providerKey(p)].etag
    PROVE  r.got[providerKey(p)] = store[providerKey(p)]
<1>1. r.got[providerKey(p)] \in Entries(Provider)
  BY Reading
<1>2. r.got[providerKey(p)].etag \in Nat
  BY <1>1, EntryTypes
<1>3. Recalled(r.got[providerKey(p)], store[providerKey(p)])
  BY DEF ReadOK, ModelReadOK
<1> QED
  BY <1>2, <1>3, RecalledIsCurrent

\* Stored ETags are numbers.
LEMMA EtagsAreNat ==
    ASSUME StoreTyped
    PROVE  /\ store[providerIndexKey].etag \in Nat /\ store[modelIndexKey].etag \in Nat
           /\ \A p \in Providers : store[providerKey(p)].etag \in Nat
           /\ \A p \in Providers : store[modelsByProviderIndexKey(p)].etag \in Nat
           /\ \A m \in Models : store[modelKey(m)].etag \in Nat
           /\ \A s \in Slugs : store[slugKey(s)].etag \in Nat
           /\ \A a \in Apps : store[appKey(a)].etag \in Nat
           /\ \A a \in Aliases : store[aliasKey(a)].etag \in Nat
<1>1. store[providerIndexKey].etag \in Nat /\ store[modelIndexKey].etag \in Nat
  BY Found, EntryTypes
<1>2. \A p \in Providers : store[providerKey(p)].etag \in Nat
  BY Found, EntryTypes
<1>3. \A p \in Providers : store[modelsByProviderIndexKey(p)].etag \in Nat
  <2> TAKE p \in Providers
  <2>1. store[modelsByProviderIndexKey(p)] \in Entries(SUBSET Models)
    BY Found
  <2> QED
    BY <2>1, EntryTypes
<1>4. \A m \in Models : store[modelKey(m)].etag \in Nat
  BY Found, EntryTypes
<1>5. /\ \A s \in Slugs : store[slugKey(s)].etag \in Nat
      /\ \A a \in Apps : store[appKey(a)].etag \in Nat
      /\ \A a \in Aliases : store[aliasKey(a)].etag \in Nat
  BY Found, EntryTypes
<1> QED
  BY <1>1, <1>2, <1>3, <1>4, <1>5

\* CreateModel stores the model and touches its provider, or stores nothing.
LEMMA CreateModelEffect ==
    ASSUME StoreOK, NEW r, OpOK(r, store), r.op = "createModel", Unread(r) = {},
           store' = Transact(store, CreateModel(r))
    PROVE  store' = store \/ (ModelPut(r.id, r.new) /\ ~Exists(store[modelKey(r.id)]))
<1> DEFINE m == r.id
           p == r.new.provider
           al == r.new.alias
           provider == r.got[providerKey(p)]
           index == r.got[modelIndexKey]
           ofProvider == r.got[modelsByProviderIndexKey(p)]
           a == Upsert(modelKey(m), r.new, NoETag)
           b == Upsert(modelIndexKey, addIndexID(index, m), index.etag)
           c == Upsert(aliasKey(al), m, NoETag)
           d == Upsert(modelsByProviderIndexKey(p), addIndexID(ofProvider, m), ofProvider.etag)
           e == providerTouchOperation(p, provider)
           tx == a ++ b ++ c ++ d ++ e
<1>1. /\ m \in Models /\ r.new \in Model
      /\ StoreTyped /\ ReadOK(r, store) /\ ModelReadOK(r, store)
      /\ r.op \in ModelRepositoryOps
  BY DEF OpOK, OpTyped, StoreOK, ReadOK, ModelRepositoryOps
<1>2. {modelKey(m), aliasKey(al), providerKey(p), modelIndexKey, modelsByProviderIndexKey(p)}
         \subseteq DOMAIN r.got
  BY ModelReads
<1>3. al \in Aliases /\ p \in Providers
  BY <1>1, ModelParts
<1>4. SUFFICES ASSUME store' # store
               PROVE  ModelPut(r.id, r.new) /\ ~Exists(store[modelKey(r.id)])
  OBVIOUS
<1>5. CreateModel(r) # NoOperation /\ Done(CreateModel(r))
  BY <1>1, <1>4, NothingOrDone
<1>6. /\ ~Exists(r.got[modelKey(m)]) /\ ~Exists(r.got[aliasKey(al)])
      /\ ensureProviderCanBackModel(provider, r.new)
      /\ CreateModel(r) = tx
  BY <1>5 DEF CreateModel
<1>7. /\ DOMAIN tx = {modelKey(m), modelIndexKey, aliasKey(al), modelsByProviderIndexKey(p),
                      providerKey(p)}
      /\ tx[modelKey(m)] = Put(r.new, 0)
      /\ tx[modelIndexKey] = Put(addIndexID(index, m), index.etag)
      /\ tx[aliasKey(al)] = Put(m, 0)
      /\ tx[modelsByProviderIndexKey(p)] = Put(addIndexID(ofProvider, m), ofProvider.etag)
      /\ tx[providerKey(p)] = Put(provider.value, provider.etag)
  <2>1. DOMAIN a = {modelKey(m)} /\ a[modelKey(m)] = Put(r.new, 0)
    BY DEF Upsert, NoETag
  <2>2. /\ DOMAIN b = {modelIndexKey}
        /\ b[modelIndexKey] = Put(addIndexID(index, m), index.etag)
    BY DEF Upsert
  <2>3. DOMAIN c = {aliasKey(al)} /\ c[aliasKey(al)] = Put(m, 0)
    BY DEF Upsert, NoETag
  <2>4. /\ DOMAIN d = {modelsByProviderIndexKey(p)}
        /\ d[modelsByProviderIndexKey(p)] = Put(addIndexID(ofProvider, m), ofProvider.etag)
    BY DEF Upsert
  <2>5. DOMAIN e = {providerKey(p)} /\ e[providerKey(p)] = Put(provider.value, provider.etag)
    BY DEF Upsert, providerTouchOperation
  <2> HIDE DEF a, b, c, d, e
  <2>6. /\ DOMAIN (a ++ b) = {modelKey(m), modelIndexKey}
        /\ (a ++ b)[modelKey(m)] = Put(r.new, 0)
        /\ (a ++ b)[modelIndexKey] = Put(addIndexID(index, m), index.etag)
    BY <2>1, <2>2, KeyParts DEF ++
  <2>7. /\ DOMAIN (a ++ b ++ c) = {modelKey(m), modelIndexKey, aliasKey(al)}
        /\ (a ++ b ++ c)[modelKey(m)] = Put(r.new, 0)
        /\ (a ++ b ++ c)[modelIndexKey] = Put(addIndexID(index, m), index.etag)
        /\ (a ++ b ++ c)[aliasKey(al)] = Put(m, 0)
    BY <2>3, <2>6, KeyParts DEF ++
  <2>8. /\ DOMAIN (a ++ b ++ c ++ d) = {modelKey(m), modelIndexKey, aliasKey(al),
                                        modelsByProviderIndexKey(p)}
        /\ (a ++ b ++ c ++ d)[modelKey(m)] = Put(r.new, 0)
        /\ (a ++ b ++ c ++ d)[modelIndexKey] = Put(addIndexID(index, m), index.etag)
        /\ (a ++ b ++ c ++ d)[aliasKey(al)] = Put(m, 0)
        /\ (a ++ b ++ c ++ d)[modelsByProviderIndexKey(p)]
              = Put(addIndexID(ofProvider, m), ofProvider.etag)
    BY <2>4, <2>7, KeyParts DEF ++
  <2> QED
    BY <2>5, <2>8, KeyParts DEF ++
<1> HIDE DEF tx, m, p, al, provider, index, ofProvider
<1>8. Done(tx) /\ Whole
  BY <1>5, <1>6 DEF Done
<1>9. /\ modelKey(m) \in StoreKeys /\ modelIndexKey \in StoreKeys /\ aliasKey(al) \in StoreKeys
      /\ modelsByProviderIndexKey(p) \in StoreKeys /\ providerKey(p) \in StoreKeys
  BY <1>1, <1>3, KeysStored
<1>10. /\ Written(modelKey(m), r.new) /\ Written(aliasKey(al), m)
       /\ Written(modelIndexKey, addIndexID(index, m))
       /\ Written(modelsByProviderIndexKey(p), addIndexID(ofProvider, m))
       /\ Written(providerKey(p), provider.value)
       /\ provider.etag = 0 \/ provider.etag = store[providerKey(p)].etag
  BY <1>7, <1>8, <1>9, PutDone
<1>11. /\ r.got[modelKey(m)] = store[modelKey(m)] /\ r.got[aliasKey(al)] = store[aliasKey(al)]
       /\ index = store[modelIndexKey] /\ ofProvider = store[modelsByProviderIndexKey(p)]
  BY <1>1, <1>2, <1>3 DEF ModelReadOK, ModelKeys, index, ofProvider
<1>12. provider = store[providerKey(p)] /\ Exists(store[providerKey(p)])
  <2>1. Exists(provider)
    BY <1>6 DEF ensureProviderCanBackModel
  <2> QED
    BY <1>1, <1>2, <1>3, <1>10, <2>1, ProviderCurrent DEF provider
<1>13. /\ Lists(modelIndexKey, readIndex(store[modelIndexKey]) \cup {m})
       /\ Lists(modelsByProviderIndexKey(p), readIndex(store[modelsByProviderIndexKey(p)]) \cup {m})
  BY <1>1, <1>3, <1>10, <1>11, WrittenLists, EtagsAreNat DEF addIndexID
<1>14. \A key \in StoreKeys \ {modelKey(m), modelIndexKey, aliasKey(al),
                              modelsByProviderIndexKey(p), providerKey(p)} : Same(key)
  BY <1>7, <1>8 DEF Done
<1>15. /\ \A q \in Providers \ {p} : Same(providerKey(q)) /\ Same(modelsByProviderIndexKey(q))
       /\ \A n \in Models \ {m} : Same(modelKey(n))
       /\ \A x \in Aliases \ {al} : Same(aliasKey(x))
       /\ \A key \in LookupKeys \cup {providerIndexKey} : Same(key)
  BY <1>14, KeyParts, KeysStored DEF LookupKeys
<1>16. Touched(p)
  BY <1>10, <1>12 DEF Touched
<1>17. ASSUME NEW q \in Providers
       PROVE  /\ Same(providerKey(q)) \/ Touched(q)
              /\ Lists(modelsByProviderIndexKey(q),
                    IF q \in {p} THEN readIndex(store[modelsByProviderIndexKey(q)]) \cup {m}
                    ELSE readIndex(store[modelsByProviderIndexKey(q)]) \ {m})
  <2>1. CASE q = p
    BY <1>13, <1>16, <2>1
  <2>2. CASE q # p
    <3>1. m \notin readIndex(store[modelsByProviderIndexKey(q)])
      BY <1>1, <1>6, <1>11, ExistingListed
    <3> QED
      BY <1>15, <2>2, <3>1 DEF Lists, Same
  <2> QED
    BY <2>1, <2>2
<1>18. ModelStep(m, al, {p})
  BY <1>1, <1>3, <1>8, <1>15, <1>17 DEF ModelStep
<1> QED
  BY <1>1, <1>6, <1>10, <1>11, <1>12, <1>13, <1>18 DEF ModelPut, NameFree, m, al, p

\* DeleteModel removes model, lookup and listings, or nothing.
LEMMA DeleteModelEffect ==
    ASSUME StoreOK, NEW r, OpOK(r, store), r.op = "deleteModel", Unread(r) = {},
           store' = Transact(store, DeleteModel(r))
    PROVE  store' = store \/ ModelDropped(r.id, r.old)
<1> DEFINE m == r.id
           p == r.old.provider
           al == r.old.alias
           entity == r.got[modelKey(m)]
           provider == r.got[providerKey(p)]
           index == r.got[modelIndexKey]
           ofProvider == r.got[modelsByProviderIndexKey(p)]
           a == Delete(modelKey(m), entity.etag)
           b == Upsert(modelIndexKey, removeIndexID(index, m), index.etag)
           c == Upsert(modelsByProviderIndexKey(p), removeIndexID(ofProvider, m),
                       ofProvider.etag)
           d == Delete(aliasKey(al), NoETag)
           e == IF Exists(provider) THEN providerTouchOperation(p, provider) ELSE NoOperation
           tx == a ++ b ++ c ++ d ++ e
<1>1. /\ m \in Models /\ r.old \in Model
      /\ StoreTyped /\ ReadOK(r, store) /\ ModelReadOK(r, store)
      /\ r.op \in ModelRepositoryOps
  BY DEF OpOK, OpTyped, StoreOK, ReadOK, ModelRepositoryOps
<1>2. {modelKey(m), modelIndexKey, modelsByProviderIndexKey(p), providerKey(p)}
         \subseteq DOMAIN r.got
  BY ModelReads
<1>3. al \in Aliases /\ p \in Providers
  BY <1>1, ModelParts
<1>4. SUFFICES ASSUME store' # store PROVE ModelDropped(r.id, r.old)
  OBVIOUS
<1>5. DeleteModel(r) # NoOperation /\ Done(DeleteModel(r))
  BY <1>1, <1>4, NothingOrDone
<1>6. Exists(entity) /\ entity.value = r.old /\ DeleteModel(r) = tx
  BY <1>5 DEF DeleteModel
<1>7. /\ {modelKey(m), modelIndexKey, modelsByProviderIndexKey(p), aliasKey(al)}
            \subseteq DOMAIN tx
      /\ DOMAIN tx \subseteq {modelKey(m), modelIndexKey, modelsByProviderIndexKey(p),
                              aliasKey(al), providerKey(p)}
      /\ tx[modelKey(m)] = Remove(entity.etag)
      /\ tx[modelIndexKey] = Put(removeIndexID(index, m), index.etag)
      /\ tx[modelsByProviderIndexKey(p)] = Put(removeIndexID(ofProvider, m), ofProvider.etag)
      /\ tx[aliasKey(al)] = Remove(0)
      /\ IF Exists(provider)
         THEN /\ providerKey(p) \in DOMAIN tx
              /\ tx[providerKey(p)] = Put(provider.value, provider.etag)
         ELSE providerKey(p) \notin DOMAIN tx
  <2>1. DOMAIN a = {modelKey(m)} /\ a[modelKey(m)] = Remove(entity.etag)
    BY DEF Delete
  <2>2. /\ DOMAIN b = {modelIndexKey}
        /\ b[modelIndexKey] = Put(removeIndexID(index, m), index.etag)
    BY DEF Upsert
  <2>3. /\ DOMAIN c = {modelsByProviderIndexKey(p)}
        /\ c[modelsByProviderIndexKey(p)] = Put(removeIndexID(ofProvider, m), ofProvider.etag)
    BY DEF Upsert
  <2>4. DOMAIN d = {aliasKey(al)} /\ d[aliasKey(al)] = Remove(0)
    BY DEF Delete, NoETag
  <2>5. IF Exists(provider)
        THEN /\ DOMAIN e = {providerKey(p)}
             /\ e[providerKey(p)] = Put(provider.value, provider.etag)
        ELSE DOMAIN e = {}
    BY DEF Upsert, NoOperation, providerTouchOperation
  <2> HIDE DEF a, b, c, d, e
  <2>6. /\ DOMAIN (a ++ b) = {modelKey(m), modelIndexKey}
        /\ (a ++ b)[modelKey(m)] = Remove(entity.etag)
        /\ (a ++ b)[modelIndexKey] = Put(removeIndexID(index, m), index.etag)
    BY <2>1, <2>2, KeyParts DEF ++
  <2>7. /\ DOMAIN (a ++ b ++ c) = {modelKey(m), modelIndexKey, modelsByProviderIndexKey(p)}
        /\ (a ++ b ++ c)[modelKey(m)] = Remove(entity.etag)
        /\ (a ++ b ++ c)[modelIndexKey] = Put(removeIndexID(index, m), index.etag)
        /\ (a ++ b ++ c)[modelsByProviderIndexKey(p)]
              = Put(removeIndexID(ofProvider, m), ofProvider.etag)
    BY <2>3, <2>6, KeyParts DEF ++
  <2>8. /\ DOMAIN (a ++ b ++ c ++ d) = {modelKey(m), modelIndexKey,
                                        modelsByProviderIndexKey(p), aliasKey(al)}
        /\ (a ++ b ++ c ++ d)[modelKey(m)] = Remove(entity.etag)
        /\ (a ++ b ++ c ++ d)[modelIndexKey] = Put(removeIndexID(index, m), index.etag)
        /\ (a ++ b ++ c ++ d)[modelsByProviderIndexKey(p)]
              = Put(removeIndexID(ofProvider, m), ofProvider.etag)
        /\ (a ++ b ++ c ++ d)[aliasKey(al)] = Remove(0)
    BY <2>4, <2>7, KeyParts DEF ++
  <2> DEFINE f == a ++ b ++ c ++ d
  <2> HIDE DEF f
  <2>9. tx = f ++ e
    BY DEF f
  <2> HIDE DEF tx
  <2>10. /\ DOMAIN tx = DOMAIN f \cup DOMAIN e
         /\ \A key \in DOMAIN f : tx[key] = f[key]
         /\ \A key \in DOMAIN e \ DOMAIN f : tx[key] = e[key]
    BY <2>9 DEF ++
  <2>11. /\ DOMAIN f = {modelKey(m), modelIndexKey, modelsByProviderIndexKey(p), aliasKey(al)}
         /\ f[modelKey(m)] = Remove(entity.etag)
         /\ f[modelIndexKey] = Put(removeIndexID(index, m), index.etag)
         /\ f[modelsByProviderIndexKey(p)] = Put(removeIndexID(ofProvider, m), ofProvider.etag)
         /\ f[aliasKey(al)] = Remove(0)
    BY <2>8 DEF f
  <2> HIDE DEF m, p, al, entity, provider, index, ofProvider
  <2>12. providerKey(p) \notin DOMAIN f
    BY <2>11, KeyParts
  <2> QED
    BY <2>5, <2>10, <2>11, <2>12
<1> HIDE DEF tx, m, p, al, entity, provider, index, ofProvider
<1>8. Done(tx) /\ Whole
  BY <1>5, <1>6 DEF Done
<1>9. /\ modelKey(m) \in StoreKeys /\ modelIndexKey \in StoreKeys /\ aliasKey(al) \in StoreKeys
      /\ modelsByProviderIndexKey(p) \in StoreKeys /\ providerKey(p) \in StoreKeys
  BY <1>1, <1>3, KeysStored
<1>10. /\ Written(modelIndexKey, removeIndexID(index, m))
       /\ Written(modelsByProviderIndexKey(p), removeIndexID(ofProvider, m))
  BY <1>7, <1>8, <1>9, PutDone
<1>11. store'[modelKey(m)] = Absent /\ store'[aliasKey(al)] = Absent
  BY <1>7, <1>8, <1>9, RemoveDone
<1>12. /\ entity = store[modelKey(m)]
       /\ index = store[modelIndexKey] /\ ofProvider = store[modelsByProviderIndexKey(p)]
  BY <1>1, <1>2, <1>3 DEF ModelReadOK, ModelKeys, entity, index, ofProvider
<1>13. Same(providerKey(p)) \/ Touched(p)
  <2>1. CASE Exists(provider)
    <3>1. /\ Written(providerKey(p), provider.value)
          /\ provider.etag = 0 \/ provider.etag = store[providerKey(p)].etag
      BY <1>7, <1>8, <1>9, <2>1, PutDone
    <3>2. provider = store[providerKey(p)]
      BY <1>1, <1>2, <1>3, <2>1, <3>1, ProviderCurrent DEF provider
    <3> QED
      BY <2>1, <3>1, <3>2 DEF Touched
  <2>2. CASE ~Exists(provider)
    BY <1>7, <1>8, <1>9, <2>2 DEF Done
  <2> QED
    BY <2>1, <2>2
<1>14. /\ Lists(modelIndexKey, readIndex(store[modelIndexKey]) \ {m})
       /\ Lists(modelsByProviderIndexKey(p), readIndex(store[modelsByProviderIndexKey(p)]) \ {m})
  BY <1>1, <1>3, <1>10, <1>12, WrittenLists, EtagsAreNat DEF removeIndexID
<1>15. \A key \in StoreKeys \ {modelKey(m), modelIndexKey, aliasKey(al),
                              modelsByProviderIndexKey(p), providerKey(p)} : Same(key)
  BY <1>7, <1>8 DEF Done
<1>16. /\ \A q \in Providers \ {p} : Same(providerKey(q)) /\ Same(modelsByProviderIndexKey(q))
       /\ \A n \in Models \ {m} : Same(modelKey(n))
       /\ \A x \in Aliases \ {al} : Same(aliasKey(x))
       /\ \A key \in LookupKeys \cup {providerIndexKey} : Same(key)
  BY <1>15, KeyParts, KeysStored DEF LookupKeys
<1>17. ASSUME NEW q \in Providers
       PROVE  /\ Same(providerKey(q)) \/ Touched(q)
              /\ Lists(modelsByProviderIndexKey(q),
                       readIndex(store[modelsByProviderIndexKey(q)]) \ {m})
  <2>1. CASE q = p
    BY <1>13, <1>14, <2>1
  <2>2. CASE q # p
    <3>1. m \notin readIndex(store[modelsByProviderIndexKey(q)])
      BY <1>1, <1>6, <1>12, <2>2, ExistingListed DEF p
    <3> QED
      BY <1>16, <2>2, <3>1 DEF Lists, Same
  <2> QED
    BY <2>1, <2>2
<1>18. ModelStep(m, al, {})
  BY <1>1, <1>3, <1>8, <1>16, <1>17 DEF ModelStep
<1> QED
  BY <1>1, <1>6, <1>11, <1>12, <1>14, <1>18 DEF ModelDropped, m, al

\* ReplaceModel stores the model and moves its listing, or stores nothing.
LEMMA ReplaceModelEffect ==
    ASSUME StoreOK, NEW r, OpOK(r, store), r.op = "replaceModel", Unread(r) = {},
           store' = Transact(store, ReplaceModel(r))
    PROVE  store' = store \/ (ModelPut(r.id, r.new) /\ Exists(store[modelKey(r.id)]))
<1> DEFINE m == r.id
           p == r.old.provider
           q == r.new.provider
           al == r.new.alias
           entity == r.got[modelKey(m)]
           ofOld == r.got[modelsByProviderIndexKey(p)]
           ofNew == r.got[modelsByProviderIndexKey(q)]
           old == r.got[providerKey(p)]
           new == r.got[providerKey(q)]
           a == Upsert(modelKey(m), r.new, entity.etag)
           b == Upsert(aliasKey(al), m, NoETag)
           c == Upsert(modelsByProviderIndexKey(q), addIndexID(ofNew, m), ofNew.etag)
           d == providerTouchOperation(p, old)
           e == IF p = q THEN NoOperation
                ELSE Upsert(modelsByProviderIndexKey(p), removeIndexID(ofOld, m), ofOld.etag)
                     ++ providerTouchOperation(q, new)
           tx == a ++ b ++ c ++ d ++ e
<1>1. /\ m \in Models /\ r.old \in Model /\ r.new \in Model /\ r.new.alias = r.old.alias
      /\ StoreTyped /\ ReadOK(r, store) /\ ModelReadOK(r, store)
      /\ r.op \in ModelRepositoryOps
  BY DEF OpOK, OpTyped, StoreOK, ReadOK, ModelRepositoryOps
<1>2. {modelKey(m), aliasKey(al), providerKey(p), providerKey(q), modelsByProviderIndexKey(p),
       modelsByProviderIndexKey(q)} \subseteq DOMAIN r.got
  BY ModelReads
<1>3. al \in Aliases /\ p \in Providers /\ q \in Providers
  BY <1>1, ModelParts
<1>4. SUFFICES ASSUME store' # store
               PROVE  ModelPut(r.id, r.new) /\ Exists(store[modelKey(r.id)])
  OBVIOUS
<1>5. ReplaceModel(r) # NoOperation /\ Done(ReplaceModel(r))
  BY <1>1, <1>4, NothingOrDone
<1>6. /\ Exists(entity) /\ entity.value = r.old /\ Exists(old)
      /\ ensureProviderCanBackModel(new, r.new)
      /\ ReplaceModel(r) = tx
  BY <1>5 DEF ReplaceModel
<1>7. /\ {modelKey(m), aliasKey(al), modelsByProviderIndexKey(q), providerKey(p)}
            \subseteq DOMAIN tx
      /\ DOMAIN tx \subseteq {modelKey(m), aliasKey(al), modelsByProviderIndexKey(q),
                              providerKey(p), modelsByProviderIndexKey(p), providerKey(q)}
      /\ tx[modelKey(m)] = Put(r.new, entity.etag)
      /\ tx[aliasKey(al)] = Put(m, 0)
      /\ tx[modelsByProviderIndexKey(q)] = Put(addIndexID(ofNew, m), ofNew.etag)
      /\ tx[providerKey(p)] = Put(old.value, old.etag)
      /\ p # q =>
           /\ {modelsByProviderIndexKey(p), providerKey(q)} \subseteq DOMAIN tx
           /\ tx[modelsByProviderIndexKey(p)] = Put(removeIndexID(ofOld, m), ofOld.etag)
           /\ tx[providerKey(q)] = Put(new.value, new.etag)
  <2>1. DOMAIN a = {modelKey(m)} /\ a[modelKey(m)] = Put(r.new, entity.etag)
    BY DEF Upsert
  <2>2. DOMAIN b = {aliasKey(al)} /\ b[aliasKey(al)] = Put(m, 0)
    BY DEF Upsert, NoETag
  <2>3. /\ DOMAIN c = {modelsByProviderIndexKey(q)}
        /\ c[modelsByProviderIndexKey(q)] = Put(addIndexID(ofNew, m), ofNew.etag)
    BY DEF Upsert
  <2>4. DOMAIN d = {providerKey(p)} /\ d[providerKey(p)] = Put(old.value, old.etag)
    BY DEF Upsert, providerTouchOperation
  <2>5. /\ p = q => DOMAIN e = {}
        /\ p # q =>
             /\ DOMAIN e = {modelsByProviderIndexKey(p), providerKey(q)}
             /\ e[modelsByProviderIndexKey(p)] = Put(removeIndexID(ofOld, m), ofOld.etag)
             /\ e[providerKey(q)] = Put(new.value, new.etag)
    BY KeyParts DEF Upsert, NoOperation, providerTouchOperation, ++
  <2> HIDE DEF a, b, c, d, e, p, q
  <2>6. /\ DOMAIN (a ++ b) = {modelKey(m), aliasKey(al)}
        /\ (a ++ b)[modelKey(m)] = Put(r.new, entity.etag)
        /\ (a ++ b)[aliasKey(al)] = Put(m, 0)
    BY <2>1, <2>2, KeyParts DEF ++
  <2>7. /\ DOMAIN (a ++ b ++ c) = {modelKey(m), aliasKey(al), modelsByProviderIndexKey(q)}
        /\ (a ++ b ++ c)[modelKey(m)] = Put(r.new, entity.etag)
        /\ (a ++ b ++ c)[aliasKey(al)] = Put(m, 0)
        /\ (a ++ b ++ c)[modelsByProviderIndexKey(q)] = Put(addIndexID(ofNew, m), ofNew.etag)
    BY <2>3, <2>6, KeyParts DEF ++
  <2>8. /\ DOMAIN (a ++ b ++ c ++ d) = {modelKey(m), aliasKey(al),
                                        modelsByProviderIndexKey(q), providerKey(p)}
        /\ (a ++ b ++ c ++ d)[modelKey(m)] = Put(r.new, entity.etag)
        /\ (a ++ b ++ c ++ d)[aliasKey(al)] = Put(m, 0)
        /\ (a ++ b ++ c ++ d)[modelsByProviderIndexKey(q)]
              = Put(addIndexID(ofNew, m), ofNew.etag)
        /\ (a ++ b ++ c ++ d)[providerKey(p)] = Put(old.value, old.etag)
    BY <2>4, <2>7, KeyParts DEF ++
  <2> DEFINE f == a ++ b ++ c ++ d
  <2> HIDE DEF f
  <2>9. tx = f ++ e
    BY DEF f
  <2> HIDE DEF tx
  <2>10. /\ DOMAIN tx = DOMAIN f \cup DOMAIN e
         /\ \A key \in DOMAIN f : tx[key] = f[key]
         /\ \A key \in DOMAIN e \ DOMAIN f : tx[key] = e[key]
    BY <2>9 DEF ++
  <2>11. /\ DOMAIN f = {modelKey(m), aliasKey(al), modelsByProviderIndexKey(q), providerKey(p)}
         /\ f[modelKey(m)] = Put(r.new, entity.etag)
         /\ f[aliasKey(al)] = Put(m, 0)
         /\ f[modelsByProviderIndexKey(q)] = Put(addIndexID(ofNew, m), ofNew.etag)
         /\ f[providerKey(p)] = Put(old.value, old.etag)
    BY <2>8 DEF f
  <2>12. p # q => modelsByProviderIndexKey(p) \notin DOMAIN f /\ providerKey(q) \notin DOMAIN f
    BY <2>11, KeyParts
  <2> QED
    BY <2>5, <2>10, <2>11, <2>12
<1> HIDE DEF tx, m, p, q, al, entity, old, new, ofOld, ofNew
<1>8. Done(tx) /\ Whole
  BY <1>5, <1>6 DEF Done
<1>9. /\ modelKey(m) \in StoreKeys /\ aliasKey(al) \in StoreKeys
      /\ modelsByProviderIndexKey(p) \in StoreKeys /\ providerKey(p) \in StoreKeys
      /\ modelsByProviderIndexKey(q) \in StoreKeys /\ providerKey(q) \in StoreKeys
  BY <1>1, <1>3, KeysStored
<1>10. /\ Written(modelKey(m), r.new) /\ Written(aliasKey(al), m)
       /\ Written(modelsByProviderIndexKey(q), addIndexID(ofNew, m))
       /\ Written(providerKey(p), old.value)
       /\ old.etag = 0 \/ old.etag = store[providerKey(p)].etag
  BY <1>7, <1>8, <1>9, PutDone
<1>11. ASSUME p # q
       PROVE  /\ Written(modelsByProviderIndexKey(p), removeIndexID(ofOld, m))
              /\ Written(providerKey(q), new.value)
              /\ new.etag = 0 \/ new.etag = store[providerKey(q)].etag
  BY <1>7, <1>8, <1>9, <1>11, PutDone
<1>12. /\ entity = store[modelKey(m)]
       /\ ofOld = store[modelsByProviderIndexKey(p)]
       /\ ofNew = store[modelsByProviderIndexKey(q)]
  BY <1>1, <1>2, <1>3 DEF ModelReadOK, ModelKeys, entity, ofOld, ofNew
<1>13. old = store[providerKey(p)] /\ Touched(p)
  <2>1. old = store[providerKey(p)]
    BY <1>1, <1>2, <1>3, <1>6, <1>10, ProviderCurrent DEF old
  <2> QED
    BY <1>6, <1>10, <2>1 DEF Touched
<1>14. new = store[providerKey(q)] /\ Touched(q)
  <2>1. CASE p = q
    BY <1>13, <2>1 DEF new, old
  <2>2. CASE p # q
    <3>1. Exists(new)
      BY <1>6 DEF ensureProviderCanBackModel
    <3>2. new = store[providerKey(q)]
      BY <1>1, <1>2, <1>3, <1>11, <2>2, <3>1, ProviderCurrent DEF new
    <3> QED
      BY <1>11, <2>2, <3>1, <3>2 DEF Touched
  <2> QED
    BY <2>1, <2>2
<1>15. /\ Lists(modelsByProviderIndexKey(q), readIndex(store[modelsByProviderIndexKey(q)]) \cup {m})
       /\ p # q => Lists(modelsByProviderIndexKey(p),
                         readIndex(store[modelsByProviderIndexKey(p)]) \ {m})
  BY <1>1, <1>3, <1>10, <1>11, <1>12, WrittenLists, EtagsAreNat DEF addIndexID, removeIndexID
<1>16. /\ Exists(store[modelKey(m)]) /\ store[modelKey(m)].value = r.old
       /\ store[aliasKey(al)].value = m
       /\ m \in readIndex(store[modelIndexKey])
  BY <1>1, <1>6, <1>12, AliasLeads, ExistingListed DEF al
<1>17. \A key \in StoreKeys \ {modelKey(m), aliasKey(al), modelsByProviderIndexKey(q),
                              providerKey(p), modelsByProviderIndexKey(p), providerKey(q)} :
          Same(key)
  BY <1>7, <1>8 DEF Done
<1>18. /\ \A x \in Providers \ {p, q} : Same(providerKey(x)) /\ Same(modelsByProviderIndexKey(x))
       /\ \A n \in Models \ {m} : Same(modelKey(n))
       /\ \A x \in Aliases \ {al} : Same(aliasKey(x))
       /\ \A key \in LookupKeys \cup {providerIndexKey} : Same(key)
       /\ Same(modelIndexKey)
  BY <1>17, KeyParts, KeysStored DEF LookupKeys
<1>19. Lists(modelIndexKey, readIndex(store[modelIndexKey]) \cup {m})
  BY <1>16, <1>18 DEF Lists, Same
<1>20. ASSUME NEW x \in Providers
       PROVE  /\ Same(providerKey(x)) \/ Touched(x)
              /\ Lists(modelsByProviderIndexKey(x),
                    IF x \in {q} THEN readIndex(store[modelsByProviderIndexKey(x)]) \cup {m}
                    ELSE readIndex(store[modelsByProviderIndexKey(x)]) \ {m})
  <2>1. CASE x = q
    BY <1>14, <1>15, <2>1
  <2>2. CASE x # q /\ x = p
    BY <1>13, <1>15, <2>2
  <2>3. CASE x # q /\ x # p
    <3>1. m \notin readIndex(store[modelsByProviderIndexKey(x)])
      BY <1>1, <1>16, <2>3, ExistingListed DEF p
    <3> QED
      BY <1>18, <2>3, <3>1 DEF Lists, Same
  <2> QED
    BY <2>1, <2>2, <2>3
<1>21. ModelStep(m, al, {q})
  BY <1>1, <1>3, <1>8, <1>18, <1>20 DEF ModelStep
<1> QED
  BY <1>1, <1>6, <1>10, <1>14, <1>16, <1>19, <1>21 DEF ModelPut, NameFree, m, al, q

\* Whatever the operation, its transaction has one of four effects or none.
LEMMA TransactionEffect ==
    ASSUME StoreOK, NEW r, OpOK(r, store), Unread(r) = {},
           store' = Transact(store, Transaction(r))
    PROVE  \/ store' = store
           \/ r.op \in ProviderRepositoryOps /\ ProviderPut(r.id, r.new)
           \/ r.op \in ModelRepositoryOps /\ ProviderDropped(r.id, r.old)
           \/ r.op \in ModelRepositoryOps /\ ModelPut(r.id, r.new)
           \/ r.op \in ModelRepositoryOps /\ ModelDropped(r.id, r.old)
<1>1. CASE r.op = "createProvider"
  <2>1. Transaction(r) = createProvider(r)
    BY <1>1 DEF Transaction
  <2> QED
    BY <1>1, <2>1, createProviderEffect DEF ProviderRepositoryOps
<1>2. CASE r.op = "replaceProvider"
  <2>1. Transaction(r) = replaceProvider(r)
    BY <1>2 DEF Transaction
  <2> QED
    BY <1>2, <2>1, replaceProviderEffect DEF ProviderRepositoryOps
<1>3. CASE r.op = "deleteProvider"
  <2>1. Transaction(r) = DeleteProviderIfNoModels(r)
    BY <1>3 DEF Transaction
  <2> QED
    BY <1>3, <2>1, deleteProviderEffect DEF ModelRepositoryOps
<1>4. CASE r.op = "createModel"
  <2>1. Transaction(r) = CreateModel(r)
    BY <1>4 DEF Transaction
  <2> QED
    BY <1>4, <2>1, CreateModelEffect DEF ModelRepositoryOps
<1>5. CASE r.op = "replaceModel"
  <2>1. Transaction(r) = ReplaceModel(r)
    BY <1>5 DEF Transaction
  <2> QED
    BY <1>5, <2>1, ReplaceModelEffect DEF ModelRepositoryOps
<1>6. CASE r.op = "deleteModel"
  <2>1. Transaction(r) = DeleteModel(r)
    BY <1>6 DEF Transaction
  <2> QED
    BY <1>6, <2>1, DeleteModelEffect DEF ModelRepositoryOps
<1> QED
  BY <1>1, <1>2, <1>3, <1>4, <1>5, <1>6 DEF OpOK, OpTyped

-----------------------------------------------------------------------------
(***************************************************************************)
(* What a transaction leaves behind: types, indexes and lookups.           *)
(***************************************************************************)
\* IndexesExact and LookupsExact, entry by entry.
Exact(db) ==
    /\ \A p \in Providers :
          p \in readIndex(db[providerIndexKey]) <=> Exists(db[providerKey(p)])
    /\ \A m \in Models : m \in readIndex(db[modelIndexKey]) <=> Exists(db[modelKey(m)])
    /\ \A p \in Providers, m \in Models :
          m \in readIndex(db[modelsByProviderIndexKey(p)])
             <=> Exists(db[modelKey(m)]) /\ db[modelKey(m)].value.provider = p
    /\ \A p \in Providers : Exists(db[providerKey(p)]) =>
          /\ Exists(db[slugKey(db[providerKey(p)].value.slug)])
          /\ db[slugKey(db[providerKey(p)].value.slug)].value = p
          /\ Exists(db[appKey(db[providerKey(p)].value.app)])
          /\ db[appKey(db[providerKey(p)].value.app)].value = p
    /\ \A m \in Models : Exists(db[modelKey(m)]) =>
          /\ Exists(db[aliasKey(db[modelKey(m)].value.alias)])
          /\ db[aliasKey(db[modelKey(m)].value.alias)].value = m
    /\ \A s \in Slugs : Exists(db[slugKey(s)]) =>
          /\ Exists(db[providerKey(db[slugKey(s)].value)])
          /\ db[providerKey(db[slugKey(s)].value)].value.slug = s
    /\ \A a \in Apps : Exists(db[appKey(a)]) =>
          /\ Exists(db[providerKey(db[appKey(a)].value)])
          /\ db[providerKey(db[appKey(a)].value)].value.app = a
    /\ \A a \in Aliases : Exists(db[aliasKey(a)]) =>
          /\ Exists(db[modelKey(db[aliasKey(a)].value)])
          /\ db[modelKey(db[aliasKey(a)].value)].value.alias = a

\* A store in order, key by key.
LEMMA ExactNow ==
    ASSUME StoreOK
    PROVE  Exact(store)
<1>1. StoreTyped
  BY DEF StoreOK
<1>2. /\ \A p \in Providers :
           p \in readIndex(store[providerIndexKey]) <=> Exists(store[providerKey(p)])
      /\ \A m \in Models :
           m \in readIndex(store[modelIndexKey]) <=> Exists(store[modelKey(m)])
  BY DEF StoreOK, IndexesExact, Existing
<1>3. \A p \in Providers, m \in Models :
        m \in readIndex(store[modelsByProviderIndexKey(p)])
           <=> Exists(store[modelKey(m)]) /\ store[modelKey(m)].value.provider = p
  BY ExistingListed
<1>4. ASSUME NEW s \in Slugs, Exists(store[slugKey(s)])
      PROVE  /\ Exists(store[providerKey(store[slugKey(s)].value)])
             /\ store[providerKey(store[slugKey(s)].value)].value.slug = s
  <2>1. store[slugKey(s)].value \in Providers
    BY <1>1, <1>4, Found, EntryTypes
  <2>2. /\ ProviderOf(store[slugKey(s)].value) # None
        /\ ProviderOf(store[slugKey(s)].value).slug = s
    BY <1>4 DEF StoreOK, LookupsExact
  <2> QED
    BY <1>1, <2>1, <2>2, ProviderIs
<1>5. ASSUME NEW a \in Apps, Exists(store[appKey(a)])
      PROVE  /\ Exists(store[providerKey(store[appKey(a)].value)])
             /\ store[providerKey(store[appKey(a)].value)].value.app = a
  <2>1. store[appKey(a)].value \in Providers
    BY <1>1, <1>5, Found, EntryTypes
  <2>2. /\ ProviderOf(store[appKey(a)].value) # None
        /\ ProviderOf(store[appKey(a)].value).app = a
    BY <1>5 DEF StoreOK, LookupsExact
  <2> QED
    BY <1>1, <2>1, <2>2, ProviderIs
<1>6. ASSUME NEW a \in Aliases, Exists(store[aliasKey(a)])
      PROVE  /\ Exists(store[modelKey(store[aliasKey(a)].value)])
             /\ store[modelKey(store[aliasKey(a)].value)].value.alias = a
  <2>1. store[aliasKey(a)].value \in Models
    BY <1>1, <1>6, Found, EntryTypes
  <2>2. /\ ModelOf(store[aliasKey(a)].value) # None
        /\ ModelOf(store[aliasKey(a)].value).alias = a
    BY <1>6 DEF StoreOK, LookupsExact
  <2> QED
    BY <1>1, <2>1, <2>2, ModelIs
<1> QED
  BY <1>2, <1>3, <1>4, <1>5, <1>6, NamesLead, AliasLeads DEF Exact

\* A store that is exact key by key is in order.
LEMMA ExactLater ==
    ASSUME StoreTyped', Exact(store')
    PROVE  StoreOK'
<1>1. ASSUME NEW p \in Providers
      PROVE  /\ ProviderOf(p)' # None <=> Exists(store'[providerKey(p)])
             /\ Exists(store'[providerKey(p)]) =>
                  /\ ProviderOf(p)'.slug = store'[providerKey(p)].value.slug
                  /\ ProviderOf(p)'.app = store'[providerKey(p)].value.app
  BY FoundLater, ProviderEntry, RecordsAre
<1>2. ASSUME NEW m \in Models
      PROVE  /\ ModelOf(m)' # None <=> Exists(store'[modelKey(m)])
             /\ Exists(store'[modelKey(m)]) =>
                  /\ ModelOf(m)'.alias = store'[modelKey(m)].value.alias
                  /\ ModelOf(m)'.provider = store'[modelKey(m)].value.provider
  BY FoundLater, ModelEntry, RecordsAre
<1>3. IndexesExact'
  <2>1. /\ readIndex(store'[providerIndexKey]) \subseteq Providers
        /\ readIndex(store'[modelIndexKey]) \subseteq Models
    BY FoundLater, EntryTypes DEF readIndex
  <2>2. ASSUME NEW p \in Providers
        PROVE  readIndex(store'[modelsByProviderIndexKey(p)]) \subseteq Models
    <3>1. store'[modelsByProviderIndexKey(p)] \in Entries(SUBSET Models)
      BY FoundLater
    <3> QED
      BY <3>1, EntryTypes DEF readIndex
  <2>3. /\ readIndex(store'[providerIndexKey])
             = {p \in Providers : Exists(store'[providerKey(p)])}
        /\ readIndex(store'[modelIndexKey]) = {m \in Models : Exists(store'[modelKey(m)])}
    BY <2>1 DEF Exact
  <2>4. \A p \in Providers :
          readIndex(store'[modelsByProviderIndexKey(p)])
             = {m \in Models : ModelOf(m)' # None /\ ModelOf(m)'.provider = p}
    BY <1>2, <2>2 DEF Exact
  <2> QED
    BY <2>3, <2>4 DEF IndexesExact, Existing
<1>4. LookupsExact'
  <2>1. ASSUME NEW p \in Providers, ProviderOf(p)' # None,
               NEW k \in providerLookups(ProviderOf(p)')
        PROVE  Exists(store'[k]) /\ store'[k].value = p
    BY <1>1, <2>1 DEF Exact, providerLookups
  <2>2. ASSUME NEW m \in Models, ModelOf(m)' # None
        PROVE  /\ Exists(store'[aliasKey(ModelOf(m)'.alias)])
               /\ store'[aliasKey(ModelOf(m)'.alias)].value = m
    BY <1>2, <2>2 DEF Exact
  <2>3. ASSUME NEW s \in Slugs, Exists(store'[slugKey(s)])
        PROVE  /\ ProviderOf(store[slugKey(s)].value)' # None
               /\ ProviderOf(store[slugKey(s)].value)'.slug = s
    <3>1. store'[slugKey(s)].value \in Providers
      BY <2>3, FoundLater, EntryTypes
    <3>2. /\ Exists(store'[providerKey(store'[slugKey(s)].value)])
          /\ store'[providerKey(store'[slugKey(s)].value)].value.slug = s
      BY <2>3 DEF Exact
    <3>3. /\ ProviderIn(store'[providerKey(store'[slugKey(s)].value)]) # None
          /\ ProviderIn(store'[providerKey(store'[slugKey(s)].value)]).slug = s
      BY <3>1, <3>2, FoundLater, ProviderEntry
    <3> QED
      BY <3>3 DEF ProviderOf, ProviderIn
  <2>4. ASSUME NEW a \in Apps, Exists(store'[appKey(a)])
        PROVE  /\ ProviderOf(store[appKey(a)].value)' # None
               /\ ProviderOf(store[appKey(a)].value)'.app = a
    <3>1. store'[appKey(a)].value \in Providers
      BY <2>4, FoundLater, EntryTypes
    <3>2. /\ Exists(store'[providerKey(store'[appKey(a)].value)])
          /\ store'[providerKey(store'[appKey(a)].value)].value.app = a
      BY <2>4 DEF Exact
    <3>3. /\ ProviderIn(store'[providerKey(store'[appKey(a)].value)]) # None
          /\ ProviderIn(store'[providerKey(store'[appKey(a)].value)]).app = a
      BY <3>1, <3>2, FoundLater, ProviderEntry
    <3> QED
      BY <3>3 DEF ProviderOf, ProviderIn
  <2>5. ASSUME NEW a \in Aliases, Exists(store'[aliasKey(a)])
        PROVE  /\ ModelOf(store[aliasKey(a)].value)' # None
               /\ ModelOf(store[aliasKey(a)].value)'.alias = a
    <3>1. store'[aliasKey(a)].value \in Models
      BY <2>5, FoundLater, EntryTypes
    <3>2. /\ Exists(store'[modelKey(store'[aliasKey(a)].value)])
          /\ store'[modelKey(store'[aliasKey(a)].value)].value.alias = a
      BY <2>5 DEF Exact
    <3>3. /\ ModelIn(store'[modelKey(store'[aliasKey(a)].value)]) # None
          /\ ModelIn(store'[modelKey(store'[aliasKey(a)].value)]).alias = a
      BY <3>1, <3>2, FoundLater, ModelEntry
    <3> QED
      BY <3>3 DEF ModelOf, ModelIn
  <2> QED
    BY <2>1, <2>2, <2>3, <2>4, <2>5 DEF LookupsExact
<1> QED
  BY <1>3, <1>4 DEF StoreOK

\* A written entry has the value, and the next ETag.
LEMMA WrittenIs ==
    ASSUME NEW values, NEW v \in values, NEW key, store[key].etag \in Nat, Written(key, v)
    PROVE  /\ store'[key] \in Entries(values)
           /\ store'[key].value = v /\ store'[key].etag = store[key].etag + 1
           /\ Exists(store'[key])
<1>1. Entry(v, store[key].etag + 1) \in Present(values)
  BY NewEntry
<1>2. store'[key] \in Present(values)
  BY <1>1 DEF Written
<1>3. store'[key].value = v /\ store'[key].etag = store[key].etag + 1
  BY NewEntry DEF Written
<1> QED
  BY <1>2, <1>3, PresentTypes

\* An index that lists known IDs has its type.
LEMMA ListsTyped ==
    ASSUME NEW key, NEW universe, NEW ids \in SUBSET universe,
           store[key] \in Entries(SUBSET universe), Lists(key, ids)
    PROVE  store'[key] \in Entries(SUBSET universe)
<1>1. store[key].etag \in Nat
  BY EntryTypes
<1>2. Entry(ids, store[key].etag + 1) \in Present(SUBSET universe)
  BY <1>1, NewIndex
<1> QED
  BY <1>2 DEF Lists, Same, Written, Entries

\* The store is typed if each of its entries is.
LEMMA TypedLater ==
    ASSUME Whole,
           \A p \in Providers : store'[providerKey(p)] \in Entries(Provider),
           \A m \in Models : store'[modelKey(m)] \in Entries(Model),
           \A s \in Slugs : store'[slugKey(s)] \in Entries(Providers),
           \A a \in Apps : store'[appKey(a)] \in Entries(Providers),
           \A a \in Aliases : store'[aliasKey(a)] \in Entries(Models),
           \A p \in Providers : store'[modelsByProviderIndexKey(p)] \in Entries(SUBSET Models),
           store'[providerIndexKey] \in Entries(SUBSET Providers),
           store'[modelIndexKey] \in Entries(SUBSET Models)
    PROVE  StoreTyped'
<1>1. \A key \in StoreKeys : OfType(key, store'[key])
  BY DEF OfType
<1> QED
  BY <1>1 DEF StoreTyped, Whole

\* The keys that are only written under the model repository's mutex.
LEMMA ModelKeysAre ==
    /\ \A m \in Models : modelKey(m) \in ModelKeys
    /\ \A a \in Aliases : aliasKey(a) \in ModelKeys
    /\ \A p \in Providers : modelsByProviderIndexKey(p) \in ModelKeys
    /\ modelIndexKey \in ModelKeys
  BY DEF ModelKeys

\* Models and their aliases that stay as they are lead to each other as before.
LEMMA AliasesStay ==
    ASSUME StoreOK,
           \A m \in Models : store'[modelKey(m)] = store[modelKey(m)],
           \A a \in Aliases : store'[aliasKey(a)] = store[aliasKey(a)]
    PROVE  /\ \A m \in Models : Exists(store'[modelKey(m)]) =>
                 /\ Exists(store'[aliasKey(store'[modelKey(m)].value.alias)])
                 /\ store'[aliasKey(store'[modelKey(m)].value.alias)].value = m
           /\ \A a \in Aliases : Exists(store'[aliasKey(a)]) =>
                 /\ Exists(store'[modelKey(store'[aliasKey(a)].value)])
                 /\ store'[modelKey(store'[aliasKey(a)].value)].value.alias = a
<1>1. ASSUME NEW m \in Models, Exists(store[modelKey(m)])
      PROVE  store[modelKey(m)].value.alias \in Aliases
  BY <1>1, ModelIs, ModelParts DEF StoreOK
<1>2. ASSUME NEW a \in Aliases, Exists(store[aliasKey(a)])
      PROVE  store[aliasKey(a)].value \in Models
  BY <1>2, Found, EntryTypes DEF StoreOK
<1> QED
  BY <1>1, <1>2, ExactNow DEF Exact

\* Storing a provider keeps the store in order.
LEMMA ProviderPutKeeps ==
    ASSUME StoreOK, NEW p, NEW provider, ProviderPut(p, provider)
    PROVE  StoreOK'
<1>1. p \in Providers /\ provider \in Provider /\ StoreTyped /\ Whole
  BY DEF ProviderPut, StoreOK
<1>2. provider.slug \in Slugs /\ provider.app \in Apps
  BY <1>1, ProviderParts
<1>3. /\ store'[providerKey(p)] \in Entries(Provider)
      /\ store'[providerKey(p)].value = provider /\ Exists(store'[providerKey(p)])
  BY <1>1, EtagsAreNat, WrittenIs DEF ProviderPut
<1>4. /\ store'[slugKey(provider.slug)] \in Entries(Providers)
      /\ store'[slugKey(provider.slug)].value = p /\ Exists(store'[slugKey(provider.slug)])
  BY <1>1, <1>2, EtagsAreNat, WrittenIs DEF ProviderPut
<1>5. /\ store'[appKey(provider.app)] \in Entries(Providers)
      /\ store'[appKey(provider.app)].value = p /\ Exists(store'[appKey(provider.app)])
  BY <1>1, <1>2, EtagsAreNat, WrittenIs DEF ProviderPut
<1>6. /\ \A q \in Providers \ {p} : store'[providerKey(q)] = store[providerKey(q)]
      /\ \A s \in Slugs \ {provider.slug} : store'[slugKey(s)] = store[slugKey(s)]
      /\ \A a \in Apps \ {provider.app} : store'[appKey(a)] = store[appKey(a)]
  BY DEF ProviderPut, Same
<1>7. /\ \A m \in Models : store'[modelKey(m)] = store[modelKey(m)]
      /\ \A a \in Aliases : store'[aliasKey(a)] = store[aliasKey(a)]
      /\ \A q \in Providers :
            store'[modelsByProviderIndexKey(q)] = store[modelsByProviderIndexKey(q)]
      /\ store'[modelIndexKey] = store[modelIndexKey]
  BY ModelKeysAre DEF ProviderPut, Same
<1>8. readIndex(store'[providerIndexKey]) = readIndex(store[providerIndexKey]) \cup {p}
  BY DEF ProviderPut, Lists
<1>9. store'[providerIndexKey] \in Entries(SUBSET Providers)
  <2>1. store[providerIndexKey] \in Entries(SUBSET Providers)
    BY <1>1, Found
  <2>2. readIndex(store[providerIndexKey]) \cup {p} \in SUBSET Providers
    BY <1>1, <2>1, IndexTypes
  <2> QED
    BY <2>1, <2>2, ListsTyped DEF ProviderPut
<1>10. StoreTyped'
  <2>1. /\ \A q \in Providers : store'[providerKey(q)] \in Entries(Provider)
        /\ \A s \in Slugs : store'[slugKey(s)] \in Entries(Providers)
        /\ \A a \in Apps : store'[appKey(a)] \in Entries(Providers)
    BY <1>1, <1>3, <1>4, <1>5, <1>6, Found
  <2>2. /\ \A m \in Models : store'[modelKey(m)] \in Entries(Model)
        /\ \A a \in Aliases : store'[aliasKey(a)] \in Entries(Models)
        /\ \A q \in Providers : store'[modelsByProviderIndexKey(q)] \in Entries(SUBSET Models)
        /\ store'[modelIndexKey] \in Entries(SUBSET Models)
    BY <1>1, <1>7, Found
  <2> QED
    BY <1>1, <1>9, <2>1, <2>2, TypedLater
<1>11. Exact(store)
  BY ExactNow
<1>12. /\ \A q \in Providers : q \in readIndex(store'[providerIndexKey])
                                  <=> Exists(store'[providerKey(q)])
       /\ \A m \in Models : m \in readIndex(store'[modelIndexKey])
                               <=> Exists(store'[modelKey(m)])
       /\ \A q \in Providers, m \in Models :
             m \in readIndex(store'[modelsByProviderIndexKey(q)])
                <=> Exists(store'[modelKey(m)]) /\ store'[modelKey(m)].value.provider = q
  BY <1>3, <1>6, <1>7, <1>8, <1>11 DEF Exact
\* A name of p was free or its own: no other provider bears it.
<1>13. ASSUME NEW q \in Providers, Exists(store'[providerKey(q)])
       PROVE  /\ Exists(store'[slugKey(store'[providerKey(q)].value.slug)])
              /\ store'[slugKey(store'[providerKey(q)].value.slug)].value = q
              /\ Exists(store'[appKey(store'[providerKey(q)].value.app)])
              /\ store'[appKey(store'[providerKey(q)].value.app)].value = q
  <2>1. CASE q = p
    BY <1>3, <1>4, <1>5, <2>1
  <2>2. CASE q # p
    <3>1. store'[providerKey(q)] = store[providerKey(q)] /\ Exists(store[providerKey(q)])
      BY <1>6, <1>13, <2>2
    <3>2. /\ Exists(store[slugKey(store[providerKey(q)].value.slug)])
          /\ store[slugKey(store[providerKey(q)].value.slug)].value = q
          /\ Exists(store[appKey(store[providerKey(q)].value.app)])
          /\ store[appKey(store[providerKey(q)].value.app)].value = q
      BY <3>1, NamesLead
    <3>3. store[providerKey(q)].value.slug \in Slugs /\ store[providerKey(q)].value.app \in Apps
      BY <1>1, <3>1, ProviderIs, ProviderParts
    <3>4. /\ store[providerKey(q)].value.slug # provider.slug
          /\ store[providerKey(q)].value.app # provider.app
      BY <2>2, <3>2 DEF ProviderPut, NameFree
    <3> QED
      BY <1>6, <3>1, <3>2, <3>3, <3>4
  <2> QED
    BY <2>1, <2>2
<1>14. ASSUME NEW s \in Slugs, Exists(store'[slugKey(s)])
       PROVE  /\ Exists(store'[providerKey(store'[slugKey(s)].value)])
              /\ store'[providerKey(store'[slugKey(s)].value)].value.slug = s
  <2>1. CASE s = provider.slug
    BY <1>3, <1>4, <2>1
  <2>2. CASE s # provider.slug
    <3>1. store'[slugKey(s)] = store[slugKey(s)] /\ store[slugKey(s)].value \in Providers
      BY <1>1, <1>6, <1>14, <2>2, Found, EntryTypes
    <3>2. /\ Exists(store[providerKey(store[slugKey(s)].value)])
          /\ store[providerKey(store[slugKey(s)].value)].value.slug = s
      BY <1>11, <1>14, <3>1 DEF Exact
    <3>3. store[slugKey(s)].value # p
      BY <2>2, <3>2 DEF ProviderPut
    <3> QED
      BY <1>6, <3>1, <3>2, <3>3
  <2> QED
    BY <2>1, <2>2
<1>15. ASSUME NEW a \in Apps, Exists(store'[appKey(a)])
       PROVE  /\ Exists(store'[providerKey(store'[appKey(a)].value)])
              /\ store'[providerKey(store'[appKey(a)].value)].value.app = a
  <2>1. CASE a = provider.app
    BY <1>3, <1>5, <2>1
  <2>2. CASE a # provider.app
    <3>1. store'[appKey(a)] = store[appKey(a)] /\ store[appKey(a)].value \in Providers
      BY <1>1, <1>6, <1>15, <2>2, Found, EntryTypes
    <3>2. /\ Exists(store[providerKey(store[appKey(a)].value)])
          /\ store[providerKey(store[appKey(a)].value)].value.app = a
      BY <1>11, <1>15, <3>1 DEF Exact
    <3>3. store[appKey(a)].value # p
      BY <2>2, <3>2 DEF ProviderPut
    <3> QED
      BY <1>6, <3>1, <3>2, <3>3
  <2> QED
    BY <2>1, <2>2
<1>16. /\ \A m \in Models : Exists(store'[modelKey(m)]) =>
             /\ Exists(store'[aliasKey(store'[modelKey(m)].value.alias)])
             /\ store'[aliasKey(store'[modelKey(m)].value.alias)].value = m
       /\ \A a \in Aliases : Exists(store'[aliasKey(a)]) =>
             /\ Exists(store'[modelKey(store'[aliasKey(a)].value)])
             /\ store'[modelKey(store'[aliasKey(a)].value)].value.alias = a
  BY <1>7, AliasesStay
<1>17. Exact(store')
  BY <1>12, <1>13, <1>14, <1>15, <1>16 DEF Exact
<1> QED
  BY <1>10, <1>17, ExactLater

\* Removing a provider without models keeps the store in order.
LEMMA ProviderDroppedKeeps ==
    ASSUME StoreOK, NEW p, NEW provider, ProviderDropped(p, provider)
    PROVE  StoreOK'
<1>1. p \in Providers /\ provider \in Provider /\ StoreTyped /\ Whole
  BY DEF ProviderDropped, StoreOK
<1>2. provider.slug \in Slugs /\ provider.app \in Apps
  BY <1>1, ProviderParts
<1>3. /\ store'[providerKey(p)] = Absent /\ ~Exists(store'[providerKey(p)])
      /\ store'[slugKey(provider.slug)] = Absent /\ ~Exists(store'[slugKey(provider.slug)])
      /\ store'[appKey(provider.app)] = Absent /\ ~Exists(store'[appKey(provider.app)])
      /\ store'[modelsByProviderIndexKey(p)] = Absent
      /\ readIndex(store'[modelsByProviderIndexKey(p)]) = {}
  BY AbsentIs DEF ProviderDropped
<1>4. /\ \A q \in Providers \ {p} : store'[providerKey(q)] = store[providerKey(q)]
      /\ \A s \in Slugs \ {provider.slug} : store'[slugKey(s)] = store[slugKey(s)]
      /\ \A a \in Apps \ {provider.app} : store'[appKey(a)] = store[appKey(a)]
  BY DEF ProviderDropped, Same
<1>5. /\ \A m \in Models : store'[modelKey(m)] = store[modelKey(m)]
      /\ \A a \in Aliases : store'[aliasKey(a)] = store[aliasKey(a)]
      /\ \A q \in Providers \ {p} :
            store'[modelsByProviderIndexKey(q)] = store[modelsByProviderIndexKey(q)]
      /\ store'[modelIndexKey] = store[modelIndexKey]
  BY ModelKeysAre, KeyParts DEF ProviderDropped, Same
<1>6. readIndex(store'[providerIndexKey]) = readIndex(store[providerIndexKey]) \ {p}
  BY DEF ProviderDropped, Lists
<1>7. store'[providerIndexKey] \in Entries(SUBSET Providers)
  <2>1. store[providerIndexKey] \in Entries(SUBSET Providers)
    BY <1>1, Found
  <2>2. readIndex(store[providerIndexKey]) \ {p} \in SUBSET Providers
    BY <1>1, <2>1, IndexTypes
  <2> QED
    BY <2>1, <2>2, ListsTyped DEF ProviderDropped
<1>8. StoreTyped'
  <2>1. /\ \A q \in Providers : store'[providerKey(q)] \in Entries(Provider)
        /\ \A s \in Slugs : store'[slugKey(s)] \in Entries(Providers)
        /\ \A a \in Apps : store'[appKey(a)] \in Entries(Providers)
    BY <1>1, <1>3, <1>4, Found DEF Entries
  <2>2. /\ \A m \in Models : store'[modelKey(m)] \in Entries(Model)
        /\ \A a \in Aliases : store'[aliasKey(a)] \in Entries(Models)
        /\ store'[modelIndexKey] \in Entries(SUBSET Models)
    BY <1>1, <1>5, Found
  <2>3. \A q \in Providers : store'[modelsByProviderIndexKey(q)] \in Entries(SUBSET Models)
    <3> TAKE q \in Providers
    <3>1. CASE q = p
      BY <1>3, <3>1 DEF Entries
    <3>2. CASE q # p
      BY <1>1, <1>5, <3>2, Found
    <3> QED
      BY <3>1, <3>2
  <2> QED
    BY <1>1, <1>7, <2>1, <2>2, <2>3, TypedLater
<1>9. Exact(store)
  BY ExactNow
<1>10. /\ \A q \in Providers : q \in readIndex(store'[providerIndexKey])
                                  <=> Exists(store'[providerKey(q)])
       /\ \A m \in Models : m \in readIndex(store'[modelIndexKey])
                               <=> Exists(store'[modelKey(m)])
  BY <1>3, <1>4, <1>5, <1>6, <1>9 DEF Exact
<1>11. ASSUME NEW q \in Providers, NEW m \in Models
       PROVE  m \in readIndex(store'[modelsByProviderIndexKey(q)])
                <=> Exists(store'[modelKey(m)]) /\ store'[modelKey(m)].value.provider = q
  <2>1. m \in readIndex(store[modelsByProviderIndexKey(q)])
          <=> Exists(store[modelKey(m)]) /\ store[modelKey(m)].value.provider = q
    BY <1>9 DEF Exact
  <2>2. readIndex(store'[modelsByProviderIndexKey(q)])
          = readIndex(store[modelsByProviderIndexKey(q)])
    BY <1>3, <1>5 DEF ProviderDropped
  <2> QED
    BY <1>5, <2>1, <2>2
\* The names of p led to p alone.
<1>12. ASSUME NEW q \in Providers, Exists(store'[providerKey(q)])
       PROVE  /\ Exists(store'[slugKey(store'[providerKey(q)].value.slug)])
              /\ store'[slugKey(store'[providerKey(q)].value.slug)].value = q
              /\ Exists(store'[appKey(store'[providerKey(q)].value.app)])
              /\ store'[appKey(store'[providerKey(q)].value.app)].value = q
  <2>1. q # p
    BY <1>3, <1>12
  <2>2. store'[providerKey(q)] = store[providerKey(q)] /\ Exists(store[providerKey(q)])
    BY <1>4, <1>12, <2>1
  <2>3. /\ Exists(store[slugKey(store[providerKey(q)].value.slug)])
        /\ store[slugKey(store[providerKey(q)].value.slug)].value = q
        /\ Exists(store[appKey(store[providerKey(q)].value.app)])
        /\ store[appKey(store[providerKey(q)].value.app)].value = q
    BY <2>2, NamesLead
  <2>4. store[providerKey(q)].value.slug \in Slugs /\ store[providerKey(q)].value.app \in Apps
    BY <1>1, <2>2, ProviderIs, ProviderParts
  <2>5. store[slugKey(provider.slug)].value = p /\ store[appKey(provider.app)].value = p
    BY <1>1, NamesLead DEF ProviderDropped
  <2>6. /\ store[providerKey(q)].value.slug # provider.slug
        /\ store[providerKey(q)].value.app # provider.app
    BY <2>1, <2>3, <2>5
  <2> QED
    BY <1>4, <2>2, <2>3, <2>4, <2>6
<1>13. ASSUME NEW s \in Slugs, Exists(store'[slugKey(s)])
       PROVE  /\ Exists(store'[providerKey(store'[slugKey(s)].value)])
              /\ store'[providerKey(store'[slugKey(s)].value)].value.slug = s
  <2>1. s # provider.slug
    BY <1>3, <1>13
  <2>2. store'[slugKey(s)] = store[slugKey(s)] /\ store[slugKey(s)].value \in Providers
    BY <1>1, <1>4, <1>13, <2>1, Found, EntryTypes
  <2>3. /\ Exists(store[providerKey(store[slugKey(s)].value)])
        /\ store[providerKey(store[slugKey(s)].value)].value.slug = s
    BY <1>9, <1>13, <2>2 DEF Exact
  <2>4. store[slugKey(s)].value # p
    BY <2>1, <2>3 DEF ProviderDropped
  <2> QED
    BY <1>4, <2>2, <2>3, <2>4
<1>14. ASSUME NEW a \in Apps, Exists(store'[appKey(a)])
       PROVE  /\ Exists(store'[providerKey(store'[appKey(a)].value)])
              /\ store'[providerKey(store'[appKey(a)].value)].value.app = a
  <2>1. a # provider.app
    BY <1>3, <1>14
  <2>2. store'[appKey(a)] = store[appKey(a)] /\ store[appKey(a)].value \in Providers
    BY <1>1, <1>4, <1>14, <2>1, Found, EntryTypes
  <2>3. /\ Exists(store[providerKey(store[appKey(a)].value)])
        /\ store[providerKey(store[appKey(a)].value)].value.app = a
    BY <1>9, <1>14, <2>2 DEF Exact
  <2>4. store[appKey(a)].value # p
    BY <2>1, <2>3 DEF ProviderDropped
  <2> QED
    BY <1>4, <2>2, <2>3, <2>4
<1>15. Exact(store')
  BY <1>5, <1>10, <1>11, <1>12, <1>13, <1>14, AliasesStay DEF Exact
<1> QED
  BY <1>8, <1>15, ExactLater

\* A model operation leaves every provider what it was.
LEMMA ModelStepKeeps ==
    ASSUME StoreOK, NEW m, NEW alias, NEW under, ModelStep(m, alias, under)
    PROVE  /\ \A p \in Providers :
                 /\ store'[providerKey(p)] \in Entries(Provider)
                 /\ Exists(store'[providerKey(p)]) <=> Exists(store[providerKey(p)])
                 /\ Exists(store[providerKey(p)]) =>
                      store'[providerKey(p)].value = store[providerKey(p)].value
           /\ \A s \in Slugs : store'[slugKey(s)] = store[slugKey(s)]
           /\ \A a \in Apps : store'[appKey(a)] = store[appKey(a)]
           /\ store'[providerIndexKey] = store[providerIndexKey]
           /\ \A p \in Providers : store'[modelsByProviderIndexKey(p)] \in Entries(SUBSET Models)
<1>0. StoreTyped /\ m \in Models
  BY DEF StoreOK, ModelStep
<1>1. ASSUME NEW p \in Providers
      PROVE  /\ store'[providerKey(p)] \in Entries(Provider)
             /\ Exists(store'[providerKey(p)]) <=> Exists(store[providerKey(p)])
             /\ Exists(store[providerKey(p)]) =>
                  store'[providerKey(p)].value = store[providerKey(p)].value
  <2>1. store[providerKey(p)] \in Entries(Provider) /\ store[providerKey(p)].etag \in Nat
    BY <1>0, Found, EtagsAreNat
  <2>2. CASE Same(providerKey(p))
    BY <2>1, <2>2 DEF Same
  <2>3. CASE Touched(p)
    <3>1. store[providerKey(p)].value \in Provider
      BY <1>0, <2>3, ProviderIs DEF Touched
    <3> QED
      BY <2>1, <2>3, <3>1, WrittenIs DEF Touched
  <2> QED
    BY <2>2, <2>3 DEF ModelStep
<1>2. /\ \A s \in Slugs : store'[slugKey(s)] = store[slugKey(s)]
      /\ \A a \in Apps : store'[appKey(a)] = store[appKey(a)]
      /\ store'[providerIndexKey] = store[providerIndexKey]
  BY DEF ModelStep, Same, LookupKeys
<1>3. ASSUME NEW p \in Providers
      PROVE  store'[modelsByProviderIndexKey(p)] \in Entries(SUBSET Models)
  <2>1. store[modelsByProviderIndexKey(p)] \in Entries(SUBSET Models)
    BY <1>0, Found
  <2>2. /\ readIndex(store[modelsByProviderIndexKey(p)]) \cup {m} \in SUBSET Models
        /\ readIndex(store[modelsByProviderIndexKey(p)]) \ {m} \in SUBSET Models
    BY <1>0, <2>1, IndexTypes
  <2>3. \/ Lists(modelsByProviderIndexKey(p),
                 readIndex(store[modelsByProviderIndexKey(p)]) \cup {m})
        \/ Lists(modelsByProviderIndexKey(p),
                 readIndex(store[modelsByProviderIndexKey(p)]) \ {m})
    BY DEF ModelStep
  <2> QED
    BY <2>1, <2>2, <2>3, ListsTyped
<1> QED
  BY <1>1, <1>2, <1>3

\* An operation on models leaves providers and their names exact.
LEMMA NamesStay ==
    ASSUME StoreOK, NEW m, NEW alias, NEW under, ModelStep(m, alias, under)
    PROVE  /\ \A p \in Providers :
                 p \in readIndex(store'[providerIndexKey]) <=> Exists(store'[providerKey(p)])
           /\ \A p \in Providers : Exists(store'[providerKey(p)]) =>
                 /\ Exists(store'[slugKey(store'[providerKey(p)].value.slug)])
                 /\ store'[slugKey(store'[providerKey(p)].value.slug)].value = p
                 /\ Exists(store'[appKey(store'[providerKey(p)].value.app)])
                 /\ store'[appKey(store'[providerKey(p)].value.app)].value = p
           /\ \A s \in Slugs : Exists(store'[slugKey(s)]) =>
                 /\ Exists(store'[providerKey(store'[slugKey(s)].value)])
                 /\ store'[providerKey(store'[slugKey(s)].value)].value.slug = s
           /\ \A a \in Apps : Exists(store'[appKey(a)]) =>
                 /\ Exists(store'[providerKey(store'[appKey(a)].value)])
                 /\ store'[providerKey(store'[appKey(a)].value)].value.app = a
<1>1. /\ \A p \in Providers :
            /\ Exists(store'[providerKey(p)]) <=> Exists(store[providerKey(p)])
            /\ Exists(store[providerKey(p)]) =>
                 store'[providerKey(p)].value = store[providerKey(p)].value
      /\ \A s \in Slugs : store'[slugKey(s)] = store[slugKey(s)]
      /\ \A a \in Apps : store'[appKey(a)] = store[appKey(a)]
      /\ store'[providerIndexKey] = store[providerIndexKey]
  BY ModelStepKeeps
<1>2. Exact(store)
  BY ExactNow
<1>3. ASSUME NEW p \in Providers, Exists(store[providerKey(p)])
      PROVE  store[providerKey(p)].value.slug \in Slugs
             /\ store[providerKey(p)].value.app \in Apps
  BY <1>3, ProviderIs, ProviderParts DEF StoreOK
<1>4. /\ \A s \in Slugs : Exists(store[slugKey(s)]) => store[slugKey(s)].value \in Providers
      /\ \A a \in Apps : Exists(store[appKey(a)]) => store[appKey(a)].value \in Providers
  BY Found, EntryTypes DEF StoreOK
<1> QED
  BY <1>1, <1>2, <1>3, <1>4 DEF Exact

\* Storing a model keeps the store in order.
LEMMA ModelPutKeeps ==
    ASSUME StoreOK, NEW m, NEW model, ModelPut(m, model)
    PROVE  StoreOK'
<1>1. /\ m \in Models /\ model \in Model /\ model.alias \in Aliases /\ StoreTyped /\ Whole
      /\ ModelStep(m, model.alias, {model.provider})
  BY DEF ModelPut, ModelStep, StoreOK
<1>2. /\ store'[modelKey(m)] \in Entries(Model)
      /\ store'[modelKey(m)].value = model /\ Exists(store'[modelKey(m)])
  BY <1>1, EtagsAreNat, WrittenIs DEF ModelPut
<1>3. /\ store'[aliasKey(model.alias)] \in Entries(Models)
      /\ store'[aliasKey(model.alias)].value = m /\ Exists(store'[aliasKey(model.alias)])
  BY <1>1, EtagsAreNat, WrittenIs DEF ModelPut
<1>4. /\ \A n \in Models \ {m} : store'[modelKey(n)] = store[modelKey(n)]
      /\ \A a \in Aliases \ {model.alias} : store'[aliasKey(a)] = store[aliasKey(a)]
  BY <1>1 DEF ModelStep, Same
<1>5. readIndex(store'[modelIndexKey]) = readIndex(store[modelIndexKey]) \cup {m}
  BY DEF ModelPut, Lists
<1>6. store'[modelIndexKey] \in Entries(SUBSET Models)
  <2>1. store[modelIndexKey] \in Entries(SUBSET Models)
    BY <1>1, Found
  <2>2. readIndex(store[modelIndexKey]) \cup {m} \in SUBSET Models
    BY <1>1, <2>1, IndexTypes
  <2> QED
    BY <2>1, <2>2, ListsTyped DEF ModelPut
<1>7. StoreTyped'
  <2>1. /\ \A p \in Providers : store'[providerKey(p)] \in Entries(Provider)
        /\ \A p \in Providers : store'[modelsByProviderIndexKey(p)] \in Entries(SUBSET Models)
    BY <1>1, ModelStepKeeps
  <2>2. /\ \A s \in Slugs : store'[slugKey(s)] \in Entries(Providers)
        /\ \A a \in Apps : store'[appKey(a)] \in Entries(Providers)
        /\ store'[providerIndexKey] \in Entries(SUBSET Providers)
    BY <1>1, ModelStepKeeps, Found
  <2>3. /\ \A n \in Models : store'[modelKey(n)] \in Entries(Model)
        /\ \A a \in Aliases : store'[aliasKey(a)] \in Entries(Models)
    BY <1>1, <1>2, <1>3, <1>4, Found
  <2> QED
    BY <1>1, <1>6, <2>1, <2>2, <2>3, TypedLater
<1>8. Exact(store)
  BY ExactNow
<1>9. \A n \in Models : n \in readIndex(store'[modelIndexKey]) <=> Exists(store'[modelKey(n)])
  BY <1>2, <1>4, <1>5, <1>8 DEF Exact
<1>10. ASSUME NEW p \in Providers, NEW n \in Models
       PROVE  n \in readIndex(store'[modelsByProviderIndexKey(p)])
                <=> Exists(store'[modelKey(n)]) /\ store'[modelKey(n)].value.provider = p
  <2>1. readIndex(store'[modelsByProviderIndexKey(p)])
          = IF p \in {model.provider}
            THEN readIndex(store[modelsByProviderIndexKey(p)]) \cup {m}
            ELSE readIndex(store[modelsByProviderIndexKey(p)]) \ {m}
    BY <1>1 DEF ModelStep, Lists
  <2>2. n \in readIndex(store[modelsByProviderIndexKey(p)])
          <=> Exists(store[modelKey(n)]) /\ store[modelKey(n)].value.provider = p
    BY <1>8 DEF Exact
  <2> QED
    BY <1>2, <1>4, <2>1, <2>2
<1>11. ASSUME NEW n \in Models, Exists(store'[modelKey(n)])
       PROVE  /\ Exists(store'[aliasKey(store'[modelKey(n)].value.alias)])
              /\ store'[aliasKey(store'[modelKey(n)].value.alias)].value = n
  <2>1. CASE n = m
    BY <1>2, <1>3, <2>1
  <2>2. CASE n # m
    <3>1. store'[modelKey(n)] = store[modelKey(n)] /\ Exists(store[modelKey(n)])
      BY <1>4, <1>11, <2>2
    <3>2. /\ Exists(store[aliasKey(store[modelKey(n)].value.alias)])
          /\ store[aliasKey(store[modelKey(n)].value.alias)].value = n
      BY <3>1, AliasLeads
    <3>3. store[modelKey(n)].value.alias \in Aliases
      BY <1>1, <3>1, ModelIs, ModelParts
    <3>4. store[modelKey(n)].value.alias # model.alias
      BY <2>2, <3>2 DEF ModelPut, NameFree
    <3> QED
      BY <1>4, <3>1, <3>2, <3>3, <3>4
  <2> QED
    BY <2>1, <2>2
<1>12. ASSUME NEW a \in Aliases, Exists(store'[aliasKey(a)])
       PROVE  /\ Exists(store'[modelKey(store'[aliasKey(a)].value)])
              /\ store'[modelKey(store'[aliasKey(a)].value)].value.alias = a
  <2>1. CASE a = model.alias
    BY <1>2, <1>3, <2>1
  <2>2. CASE a # model.alias
    <3>1. store'[aliasKey(a)] = store[aliasKey(a)] /\ store[aliasKey(a)].value \in Models
      BY <1>1, <1>4, <1>12, <2>2, Found, EntryTypes
    <3>2. /\ Exists(store[modelKey(store[aliasKey(a)].value)])
          /\ store[modelKey(store[aliasKey(a)].value)].value.alias = a
      BY <1>8, <1>12, <3>1 DEF Exact
    <3>3. store[aliasKey(a)].value # m
      BY <2>2, <3>2 DEF ModelPut
    <3> QED
      BY <1>4, <3>1, <3>2, <3>3
  <2> QED
    BY <2>1, <2>2
<1>13. Exact(store')
  BY <1>1, <1>9, <1>10, <1>11, <1>12, NamesStay DEF Exact
<1> QED
  BY <1>7, <1>13, ExactLater

\* Removing a model keeps the store in order.
LEMMA ModelDroppedKeeps ==
    ASSUME StoreOK, NEW m, NEW model, ModelDropped(m, model)
    PROVE  StoreOK'
<1>1. /\ m \in Models /\ model \in Model /\ model.alias \in Aliases /\ StoreTyped /\ Whole
      /\ ModelStep(m, model.alias, {})
  BY DEF ModelDropped, ModelStep, StoreOK
<1>2. /\ store'[modelKey(m)] = Absent /\ ~Exists(store'[modelKey(m)])
      /\ store'[aliasKey(model.alias)] = Absent /\ ~Exists(store'[aliasKey(model.alias)])
  BY AbsentIs DEF ModelDropped
<1>3. /\ \A n \in Models \ {m} : store'[modelKey(n)] = store[modelKey(n)]
      /\ \A a \in Aliases \ {model.alias} : store'[aliasKey(a)] = store[aliasKey(a)]
  BY <1>1 DEF ModelStep, Same
<1>4. readIndex(store'[modelIndexKey]) = readIndex(store[modelIndexKey]) \ {m}
  BY DEF ModelDropped, Lists
<1>5. store'[modelIndexKey] \in Entries(SUBSET Models)
  <2>1. store[modelIndexKey] \in Entries(SUBSET Models)
    BY <1>1, Found
  <2>2. readIndex(store[modelIndexKey]) \ {m} \in SUBSET Models
    BY <1>1, <2>1, IndexTypes
  <2> QED
    BY <2>1, <2>2, ListsTyped DEF ModelDropped
<1>6. StoreTyped'
  <2>1. /\ \A p \in Providers : store'[providerKey(p)] \in Entries(Provider)
        /\ \A p \in Providers : store'[modelsByProviderIndexKey(p)] \in Entries(SUBSET Models)
    BY <1>1, ModelStepKeeps
  <2>2. /\ \A s \in Slugs : store'[slugKey(s)] \in Entries(Providers)
        /\ \A a \in Apps : store'[appKey(a)] \in Entries(Providers)
        /\ store'[providerIndexKey] \in Entries(SUBSET Providers)
    BY <1>1, ModelStepKeeps, Found
  <2>3. /\ \A n \in Models : store'[modelKey(n)] \in Entries(Model)
        /\ \A a \in Aliases : store'[aliasKey(a)] \in Entries(Models)
    BY <1>1, <1>2, <1>3, Found DEF Entries
  <2> QED
    BY <1>1, <1>5, <2>1, <2>2, <2>3, TypedLater
<1>7. Exact(store)
  BY ExactNow
<1>8. \A n \in Models : n \in readIndex(store'[modelIndexKey]) <=> Exists(store'[modelKey(n)])
  BY <1>2, <1>3, <1>4, <1>7 DEF Exact
<1>9. ASSUME NEW p \in Providers, NEW n \in Models
      PROVE  n \in readIndex(store'[modelsByProviderIndexKey(p)])
               <=> Exists(store'[modelKey(n)]) /\ store'[modelKey(n)].value.provider = p
  <2>1. readIndex(store'[modelsByProviderIndexKey(p)])
          = readIndex(store[modelsByProviderIndexKey(p)]) \ {m}
    BY <1>1 DEF ModelStep, Lists
  <2>2. n \in readIndex(store[modelsByProviderIndexKey(p)])
          <=> Exists(store[modelKey(n)]) /\ store[modelKey(n)].value.provider = p
    BY <1>7 DEF Exact
  <2> QED
    BY <1>2, <1>3, <2>1, <2>2
<1>10. ASSUME NEW n \in Models, Exists(store'[modelKey(n)])
       PROVE  /\ Exists(store'[aliasKey(store'[modelKey(n)].value.alias)])
              /\ store'[aliasKey(store'[modelKey(n)].value.alias)].value = n
  <2>1. n # m
    BY <1>2, <1>10
  <2>2. store'[modelKey(n)] = store[modelKey(n)] /\ Exists(store[modelKey(n)])
    BY <1>3, <1>10, <2>1
  <2>3. /\ Exists(store[aliasKey(store[modelKey(n)].value.alias)])
        /\ store[aliasKey(store[modelKey(n)].value.alias)].value = n
    BY <2>2, AliasLeads
  <2>4. store[modelKey(n)].value.alias \in Aliases
    BY <1>1, <2>2, ModelIs, ModelParts
  <2>5. store[aliasKey(model.alias)].value = m
    BY <1>1, AliasLeads DEF ModelDropped
  <2> QED
    BY <1>3, <2>1, <2>2, <2>3, <2>4, <2>5
<1>11. ASSUME NEW a \in Aliases, Exists(store'[aliasKey(a)])
       PROVE  /\ Exists(store'[modelKey(store'[aliasKey(a)].value)])
              /\ store'[modelKey(store'[aliasKey(a)].value)].value.alias = a
  <2>1. a # model.alias
    BY <1>2, <1>11
  <2>2. store'[aliasKey(a)] = store[aliasKey(a)] /\ store[aliasKey(a)].value \in Models
    BY <1>1, <1>3, <1>11, <2>1, Found, EntryTypes
  <2>3. /\ Exists(store[modelKey(store[aliasKey(a)].value)])
        /\ store[modelKey(store[aliasKey(a)].value)].value.alias = a
    BY <1>7, <1>11, <2>2 DEF Exact
  <2>4. store[aliasKey(a)].value # m
    BY <2>1, <2>3 DEF ModelDropped
  <2> QED
    BY <1>3, <2>2, <2>3, <2>4
<1>12. Exact(store')
  BY <1>1, <1>8, <1>9, <1>10, <1>11, NamesStay DEF Exact
<1> QED
  BY <1>6, <1>12, ExactLater

-----------------------------------------------------------------------------
(***************************************************************************)
(* What an operation has read stays true of the store, or out of date for  *)
(* good, whatever the holder of the other mutex commits.                   *)
(***************************************************************************)
Moves(key) == Exists(store'[key]) /\ store'[key].etag = store[key].etag + 1

\* Writing a key puts every ETag read of it out of date.
LEMMA WrittenMoves ==
    ASSUME NEW key, NEW v, store[key].etag \in Nat, Written(key, v)
    PROVE  Moves(key)
  BY DEF Written, Moves, Entry, Exists, NoETag

\* What was read stays so, or out of date for good.
LEMMA RecalledStays ==
    ASSUME NEW e, NEW key, e.etag \in Nat, store[key].etag \in Nat, Recalled(e, store[key]),
           Same(key) \/ (Moves(key) /\ Exists(e))
    PROVE  Recalled(e, store'[key])
  BY DEF Recalled, Same, Moves

\* The other operation is under the model repository's mutex.
LEMMA ProviderPutMoves ==
    ASSUME StoreTyped, NEW p, NEW provider, ProviderPut(p, provider)
    PROVE  /\ \A q \in Providers : Same(providerKey(q)) \/ Moves(providerKey(q))
           /\ \A key \in ModelKeys : Same(key)
           /\ Same(providerIndexKey) \/ Moves(providerIndexKey)
<1>1. \A q \in Providers : Same(providerKey(q)) \/ Moves(providerKey(q))
  BY EtagsAreNat, WrittenMoves DEF ProviderPut
<1>2. Same(providerIndexKey) \/ Moves(providerIndexKey)
  BY EtagsAreNat, WrittenMoves DEF ProviderPut, Lists
<1> QED
  BY <1>1, <1>2 DEF ProviderPut

\* The holder of the model mutex keeps what it relies on.
LEMMA ModelReadStays ==
    ASSUME StoreTyped, NEW r, OpOK(r, store), r.op \in ModelRepositoryOps,
           \A q \in Providers : Same(providerKey(q)) \/ Moves(providerKey(q)),
           \A key \in ModelKeys : Same(key),
           Same(providerIndexKey) \/ Moves(providerIndexKey)
    PROVE  OpOK(r, store')
<1>1. ReadOK(r, store) /\ ModelReadOK(r, store) /\ r.op \notin ProviderRepositoryOps
  BY DEF OpOK, ReadOK, ModelRepositoryOps, ProviderRepositoryOps
<1>2. ASSUME NEW q \in Providers, providerKey(q) \in DOMAIN r.got,
             Exists(r.got[providerKey(q)])
      PROVE  Recalled(r.got[providerKey(q)], store'[providerKey(q)])
  <2>1. r.got[providerKey(q)].etag \in Nat /\ store[providerKey(q)].etag \in Nat
    BY <1>1, <1>2, Reading, EntryTypes, EtagsAreNat
  <2>2. Recalled(r.got[providerKey(q)], store[providerKey(q)])
    BY <1>1, <1>2 DEF ModelReadOK
  <2> QED
    BY <1>2, <2>1, <2>2, RecalledStays
<1>3. ModelReadOK(r, store')
  BY <1>1, <1>2 DEF ModelReadOK, Same
<1>4. r.op = "deleteProvider" => Exists(store'[providerIndexKey])
  BY DEF OpOK, Same, Moves
<1>5. IndexReadOK(r, store')
  <2> SUFFICES ASSUME r.op \in {"createProvider", "deleteProvider"},
                      providerIndexKey \in DOMAIN r.got
               PROVE  Recalled(r.got[providerIndexKey], store'[providerIndexKey])
    BY DEF IndexReadOK
  <2>1. r.op = "deleteProvider"
    BY DEF ModelRepositoryOps
  <2>2. Recalled(r.got[providerIndexKey], store[providerIndexKey])
    BY <1>1 DEF ReadOK, IndexReadOK
  <2>3. Exists(r.got[providerIndexKey])
    BY <2>1, <2>2 DEF OpOK, Recalled
  <2>4. r.got[providerIndexKey] \in Entries(SUBSET Providers)
    BY <1>1, Reading
  <2>5. r.got[providerIndexKey].etag \in Nat /\ store[providerIndexKey].etag \in Nat
    BY <2>4, EntryTypes, EtagsAreNat
  <2> QED
    BY <2>2, <2>3, <2>5, RecalledStays
<1> QED
  BY <1>1, <1>3, <1>4, <1>5 DEF OpOK, ReadOK

\* The other operation is under the provider repository's mutex.
ProviderMoves(p) ==
    \/ Same(providerKey(p))
    \/ store'[providerKey(p)] = Absent
    \/ Exists(store[providerKey(p)]) /\ Moves(providerKey(p))

ProvidersMove ==
    /\ \A p \in Providers : ProviderMoves(p)
    /\ \A key \in LookupKeys : Same(key) \/ store'[key] = Absent
    /\ Same(providerIndexKey) \/ (Exists(store[providerIndexKey]) /\ Moves(providerIndexKey))

\* Removing a provider frees its names and takes none.
LEMMA ProviderDroppedMoves ==
    ASSUME StoreOK, NEW p, NEW provider, ProviderDropped(p, provider)
    PROVE  ProvidersMove
<1>1. \A q \in Providers : ProviderMoves(q)
  BY DEF ProviderDropped, ProviderMoves
<1>2. \A key \in LookupKeys : Same(key) \/ store'[key] = Absent
  BY DEF ProviderDropped, LookupKeys
<1>3. Same(providerIndexKey) \/ (Exists(store[providerIndexKey]) /\ Moves(providerIndexKey))
  <2>1. p \in readIndex(store[providerIndexKey])
    BY ExistingListed DEF ProviderDropped
  <2>2. Exists(store[providerIndexKey])
    BY <2>1 DEF readIndex
  <2>3. store[providerIndexKey].etag \in Nat
    BY EtagsAreNat DEF StoreOK
  <2> QED
    BY <2>2, <2>3, WrittenMoves DEF ProviderDropped, Lists
<1> QED
  BY <1>1, <1>2, <1>3 DEF ProvidersMove

\* An operation on models touches providers and leaves their names alone.
LEMMA ModelStepMoves ==
    ASSUME StoreOK, NEW m, NEW alias, NEW under, ModelStep(m, alias, under)
    PROVE  ProvidersMove
<1>1. ASSUME NEW p \in Providers PROVE ProviderMoves(p)
  <2>1. store[providerKey(p)].etag \in Nat
    BY EtagsAreNat DEF StoreOK
  <2> QED
    BY <2>1, WrittenMoves DEF ModelStep, Touched, ProviderMoves
<1> QED
  BY <1>1 DEF ModelStep, ProvidersMove

\* The holder of the provider mutex keeps what it relies on.
LEMMA ProviderReadStays ==
    ASSUME StoreTyped, NEW r, OpOK(r, store), r.op \in ProviderRepositoryOps, ProvidersMove
    PROVE  OpOK(r, store')
<1>1. ReadOK(r, store) /\ ProviderReadOK(r, store) /\ r.op \notin ModelRepositoryOps
  BY DEF OpOK, ReadOK, ModelRepositoryOps, ProviderRepositoryOps
<1>2. ASSUME NEW p \in Providers, providerKey(p) \in DOMAIN r.got
      PROVE  \/ store'[providerKey(p)] = Absent
             \/ Recalled(r.got[providerKey(p)], store'[providerKey(p)])
  <2>1. r.got[providerKey(p)].etag \in Nat /\ store[providerKey(p)].etag \in Nat
    BY <1>1, <1>2, Reading, EntryTypes, EtagsAreNat
  <2>2. \/ store[providerKey(p)] = Absent
        \/ Recalled(r.got[providerKey(p)], store[providerKey(p)])
    BY <1>1, <1>2 DEF ProviderReadOK
  <2>3. CASE store'[providerKey(p)] = Absent
    BY <2>3
  <2>4. CASE Same(providerKey(p))
    BY <2>2, <2>4 DEF Same
  <2>5. CASE Exists(store[providerKey(p)]) /\ Moves(providerKey(p))
    <3>1. Recalled(r.got[providerKey(p)], store[providerKey(p)])
      BY <2>2, <2>5, AbsentIs
    <3>2. Exists(r.got[providerKey(p)])
      BY <2>5, <3>1 DEF Recalled
    <3> QED
      BY <2>1, <2>5, <3>1, <3>2, RecalledStays
  <2> QED
    BY <2>3, <2>4, <2>5 DEF ProvidersMove, ProviderMoves
<1>3. ProviderReadOK(r, store')
  BY <1>1, <1>2, AbsentIs DEF ProviderReadOK, ProvidersMove, Same
<1>4. IndexReadOK(r, store')
  <2> SUFFICES ASSUME r.op \in {"createProvider", "deleteProvider"},
                      providerIndexKey \in DOMAIN r.got
               PROVE  Recalled(r.got[providerIndexKey], store'[providerIndexKey])
    BY DEF IndexReadOK
  <2>1. Recalled(r.got[providerIndexKey], store[providerIndexKey])
    BY <1>1 DEF ReadOK, IndexReadOK
  <2>2. r.got[providerIndexKey] \in Entries(SUBSET Providers)
    BY <1>1, Reading
  <2>3. r.got[providerIndexKey].etag \in Nat /\ store[providerIndexKey].etag \in Nat
    BY <2>2, EntryTypes, EtagsAreNat
  <2>4. Same(providerIndexKey) \/ (Moves(providerIndexKey) /\ Exists(r.got[providerIndexKey]))
    BY <2>1 DEF ProvidersMove, Recalled
  <2> QED
    BY <2>1, <2>3, <2>4, RecalledStays
<1>5. r.op # "deleteProvider"
  BY DEF ProviderRepositoryOps
<1> QED
  BY <1>1, <1>3, <1>4, <1>5 DEF OpOK, ReadOK

\* An operation that has read nothing yet relies on nothing, but for the index.
LEMMA LoadedStays ==
    ASSUME NEW r, NEW now, NEW later, OpOK(r, now), r.phase = "loaded",
           Exists(now[providerIndexKey]) => Exists(later[providerIndexKey])
    PROVE  OpOK(r, later)
<1>1. DOMAIN r.got = {} /\ Shaped(r) /\ OpTyped(r)
  BY DEF OpOK
<1>2. ReadOK(r, later)
  BY <1>1 DEF ReadOK, ProviderReadOK, ModelReadOK, IndexReadOK
<1>3. r.op = "deleteProvider" => Exists(later[providerIndexKey])
  BY DEF OpOK
<1> QED
  BY <1>1, <1>2, <1>3 DEF OpOK

\* What a transaction of r may mean for another operation q.
LEMMA OthersStay ==
    ASSUME StoreOK, NEW r, OpOK(r, store), Unread(r) = {},
           store' = Transact(store, Transaction(r)),
           NEW q, OpOK(q, store), q.phase = "loaded" \/ ~SameMutex(q, r)
    PROVE  OpOK(q, store')
<1>1. StoreTyped
  BY DEF StoreOK
<1>2. ASSUME Exists(store[providerIndexKey]) => Exists(store'[providerIndexKey]),
             q.phase = "loaded"
      PROVE  OpOK(q, store')
  BY <1>2, LoadedStays
<1>3. CASE store' = store
  BY <1>3
<1>4. CASE r.op \in ProviderRepositoryOps /\ ProviderPut(r.id, r.new)
  <2>1. /\ \A p \in Providers : Same(providerKey(p)) \/ Moves(providerKey(p))
        /\ \A key \in ModelKeys : Same(key)
        /\ Same(providerIndexKey) \/ Moves(providerIndexKey)
    BY <1>1, <1>4, ProviderPutMoves
  <2>2. Exists(store[providerIndexKey]) => Exists(store'[providerIndexKey])
    BY <2>1 DEF Same, Moves
  <2>3. ASSUME ~SameMutex(q, r) PROVE OpOK(q, store')
    <3>1. q.op \in ModelRepositoryOps
      BY <1>4, <2>3 DEF SameMutex, OpOK, OpTyped, ProviderRepositoryOps, ModelRepositoryOps
    <3> QED
      BY <1>1, <2>1, <3>1, ModelReadStays
  <2> QED
    BY <1>2, <2>2, <2>3
<1>5. ASSUME ProvidersMove, r.op \in ModelRepositoryOps PROVE OpOK(q, store')
  <2>1. Exists(store[providerIndexKey]) => Exists(store'[providerIndexKey])
    BY <1>5 DEF ProvidersMove, Same, Moves
  <2>2. ASSUME ~SameMutex(q, r) PROVE OpOK(q, store')
    <3>1. q.op \in ProviderRepositoryOps
      BY <1>5, <2>2 DEF SameMutex, ProviderRepositoryOps, ModelRepositoryOps
    <3> QED
      BY <1>1, <1>5, <3>1, ProviderReadStays
  <2> QED
    BY <1>2, <2>1, <2>2
<1>6. CASE r.op \in ModelRepositoryOps /\ ProviderDropped(r.id, r.old)
  BY <1>5, <1>6, ProviderDroppedMoves
<1>7. CASE r.op \in ModelRepositoryOps /\ ModelPut(r.id, r.new)
  BY <1>5, <1>7, ModelStepMoves DEF ModelPut
<1>8. CASE r.op \in ModelRepositoryOps /\ ModelDropped(r.id, r.old)
  BY <1>5, <1>8, ModelStepMoves DEF ModelDropped
<1> QED
  BY <1>3, <1>4, <1>6, <1>7, <1>8, TransactionEffect

\* A transaction keeps the store in order.
LEMMA TransactionKeepsStore ==
    ASSUME StoreOK, NEW r, OpOK(r, store), Unread(r) = {},
           store' = Transact(store, Transaction(r))
    PROVE  StoreOK'
<1>1. ASSUME store' = store PROVE StoreOK'
  <2>1. StoreTyped'
    BY <1>1 DEF StoreOK, StoreTyped
  <2>2. Exact(store')
    BY <1>1, ExactNow
  <2> QED
    BY <2>1, <2>2, ExactLater
<1> QED
  BY <1>1, TransactionEffect, ProviderPutKeeps, ProviderDroppedKeeps, ModelPutKeeps,
     ModelDroppedKeeps

-----------------------------------------------------------------------------
(***************************************************************************)
(* Every step keeps the invariant.                                         *)
(***************************************************************************)
LEMMA UnderWayOK ==
    ASSUME RequestsOK, NEW h \in Handlers, UnderWay(h)
    PROVE  OpOK(request[h], store)
  BY DEF RequestsOK, UnderWay, Idle

\* A step that does not write keeps the store in order.
LEMMA StoreStays ==
    ASSUME StoreOK, store' = store
    PROVE  StoreOK'
<1>1. StoreTyped'
  BY DEF StoreOK, StoreTyped
<1>2. Exact(store')
  BY ExactNow
<1> QED
  BY <1>1, <1>2, ExactLater

\* One handler changes, and what it does now is in order.
LEMMA OneHandler ==
    ASSUME CatalogInv, StoreOK', NEW h \in Handlers, NEW q,
           request' = [request EXCEPT ![h] = q],
           \A g \in Handlers \ {h} : UnderWay(g) => OpOK(request[g], store'),
           \/ q = Idle
           \/ /\ q.phase \in {"loaded", "reading"}
              /\ OpOK(q, store')
              /\ q.phase = "reading" =>
                    \A g \in InRepository \ {h} : ~SameMutex(q, request[g])
    PROVE  CatalogInv'
<1>1. DOMAIN request = Handlers /\ DOMAIN request' = Handlers
  BY DEF CatalogInv, RequestsOK
<1>2. request'[h] = q /\ \A g \in Handlers \ {h} : request'[g] = request[g]
  BY <1>1
<1>3. q = Idle => q.phase \notin {"loaded", "reading"}
  BY DEF Idle
<1>4. RequestsOK'
  <2>1. ASSUME NEW g \in Handlers
        PROVE  request'[g] = Idle \/ (UnderWay(g)' /\ OpOK(request'[g], store'))
    <3>1. CASE g = h
      BY <1>2, <3>1 DEF UnderWay
    <3>2. CASE g # h
      BY <1>2, <3>2 DEF UnderWay, CatalogInv, RequestsOK
    <3> QED
      BY <3>1, <3>2
  <2> QED
    BY <1>1, <2>1 DEF RequestsOK
<1>5. MutexesHeld'
  <2> SUFFICES ASSUME NEW g \in Handlers, NEW f \in Handlers, g # f,
                      request'[g].phase = "reading", request'[f].phase = "reading"
               PROVE  ~SameMutex(request'[g], request'[f])
    BY DEF MutexesHeld, InRepository
  <2>1. CASE g = h
    BY <1>2, <1>3, <2>1 DEF InRepository
  <2>2. CASE f = h
    <3>1. ~SameMutex(q, request[g])
      BY <1>2, <1>3, <2>2 DEF InRepository
    <3> QED
      BY <1>2, <2>2, <3>1 DEF SameMutex
  <2>3. CASE g # h /\ f # h
    BY <1>2, <2>3 DEF CatalogInv, MutexesHeld, InRepository
  <2> QED
    BY <2>1, <2>2, <2>3
<1> QED
  BY <1>4, <1>5 DEF CatalogInv

\* A request that has not read anything yet is in order.
LEMMA Arriving ==
    ASSUME CatalogInv, NEW h \in Handlers, NEW op, NEW id, NEW old, NEW new,
           Arrive(h, Request(op, id, old, new)), OpTyped(Request(op, id, old, new)),
           op = "deleteProvider" => Exists(store[providerIndexKey])
    PROVE  CatalogInv'
<1> DEFINE r == Request(op, id, old, new)
<1>1. StoreOK /\ RequestsOK /\ store' = store /\ request' = [request EXCEPT ![h] = r]
  BY DEF CatalogInv, Arrive
<1>2. Shaped(r) /\ r.phase = "loaded" /\ r.op = op /\ DOMAIN r.got = {}
  BY DEF Request, Shaped
<1>3. OpTyped(r)
  OBVIOUS
<1> HIDE DEF r
<1>4. StoreOK'
  BY <1>1, StoreStays
<1>5. ReadOK(r, store')
  BY <1>2 DEF ReadOK, ProviderReadOK, ModelReadOK, IndexReadOK
<1>6. OpOK(r, store')
  BY <1>1, <1>2, <1>3, <1>5 DEF OpOK
<1>7. \A g \in Handlers \ {h} : UnderWay(g) => OpOK(request[g], store')
  BY <1>1, UnderWayOK
<1> QED
  BY <1>1, <1>2, <1>4, <1>6, <1>7, OneHandler

\* The parts of a request.
LEMMA RequestIs ==
    ASSUME NEW op, NEW id, NEW old, NEW new
    PROVE  /\ Request(op, id, old, new).op = op /\ Request(op, id, old, new).id = id
           /\ Request(op, id, old, new).old = old /\ Request(op, id, old, new).new = new
  BY DEF Request

\* A POST of a provider relies on nothing yet.
LEMMA CreateProviderArrives ==
    ASSUME CatalogInv, NEW h \in Handlers, NEW p \in Providers, NEW slug \in Slugs,
           NEW app \in Apps, NEW status \in Status,
           StartCreateProvider(h, p, slug, app, status)
    PROVE  CatalogInv'
<1> DEFINE new == [slug |-> slug, app |-> app, status |-> status, writes |-> 0]
<1>1. new \in Provider
  BY DEF Provider
<1>2. Arrive(h, Request("createProvider", p, None, new))
  BY DEF StartCreateProvider, StartNew
<1> HIDE DEF new
<1>3. OpTyped(Request("createProvider", p, None, new))
  BY <1>1, RequestIs DEF OpTyped
<1> QED
  BY <1>2, <1>3, Arriving

\* A PUT of a provider relies on the names of the record it loaded.
LEMMA UpdateProviderArrives ==
    ASSUME CatalogInv, NEW h \in Handlers, NEW p \in Providers, NEW status \in Status,
           updateProvider(h, p, status)
    PROVE  CatalogInv'
<1> DEFINE old == store[providerKey(p)].value
           new == [slug |-> old.slug, app |-> old.app, status |-> status,
                   writes |-> old.writes + 1]
<1>1. old \in Provider
  BY ProviderIs DEF updateProvider, CatalogInv, StoreOK
<1>2. Arrive(h, Request("replaceProvider", p, old, new))
  BY DEF updateProvider, Start
<1> HIDE DEF old
<1>3. new \in Provider /\ new.slug = old.slug /\ new.app = old.app
  <2>1. old.slug \in Slugs /\ old.app \in Apps /\ old.writes + 1 \in Nat
    BY <1>1, ProviderParts
  <2> QED
    BY <2>1 DEF Provider
<1> HIDE DEF new
<1>4. OpTyped(Request("replaceProvider", p, old, new))
  BY <1>1, <1>3, RequestIs DEF OpTyped
<1> QED
  BY <1>2, <1>4, Arriving

\* A DELETE of a provider finds the index: there has been a provider.
LEMMA DeleteProviderArrives ==
    ASSUME CatalogInv, NEW h \in Handlers, NEW p \in Providers, deleteProvider(h, p)
    PROVE  CatalogInv'
<1> DEFINE old == store[providerKey(p)].value
<1>1. old \in Provider /\ Exists(store[providerKey(p)])
  BY ProviderIs DEF deleteProvider, CatalogInv, StoreOK
<1>2. Arrive(h, Request("deleteProvider", p, old, None))
  BY DEF deleteProvider, Start
<1>3. Exists(store[providerIndexKey])
  BY <1>1, ExistingListed DEF CatalogInv, readIndex
<1> HIDE DEF old
<1>4. OpTyped(Request("deleteProvider", p, old, None))
  BY <1>1, RequestIs DEF OpTyped
<1> QED
  BY <1>2, <1>3, <1>4, Arriving

\* A POST of a model relies on nothing yet.
LEMMA CreateModelArrives ==
    ASSUME CatalogInv, NEW h \in Handlers, NEW m \in Models, NEW alias \in Aliases,
           NEW p \in Providers, NEW status \in Status,
           StartCreateModel(h, m, alias, p, status)
    PROVE  CatalogInv'
<1> DEFINE new == [alias |-> alias, provider |-> p, status |-> status, writes |-> 0]
<1>1. new \in Model
  BY DEF Model
<1>2. Arrive(h, Request("createModel", m, None, new))
  BY DEF StartCreateModel, StartNew
<1> HIDE DEF new
<1>3. OpTyped(Request("createModel", m, None, new))
  BY <1>1, RequestIs DEF OpTyped
<1> QED
  BY <1>2, <1>3, Arriving

\* A PUT of a model relies on the alias of the record it loaded.
LEMMA UpdateModelArrives ==
    ASSUME CatalogInv, NEW h \in Handlers, NEW m \in Models, NEW p \in Providers,
           NEW status \in Status, updateModel(h, m, p, status)
    PROVE  CatalogInv'
<1> DEFINE old == store[modelKey(m)].value
           new == [alias |-> old.alias, provider |-> p, status |-> status,
                   writes |-> old.writes + 1]
<1>1. old \in Model
  BY ModelIs DEF updateModel, CatalogInv, StoreOK
<1>2. Arrive(h, Request("replaceModel", m, old, new))
  BY DEF updateModel, Start
<1> HIDE DEF old
<1>3. new \in Model /\ new.alias = old.alias
  <2>1. old.alias \in Aliases /\ old.writes + 1 \in Nat
    BY <1>1, ModelParts
  <2> QED
    BY <2>1 DEF Model
<1> HIDE DEF new
<1>4. OpTyped(Request("replaceModel", m, old, new))
  BY <1>1, <1>3, RequestIs DEF OpTyped
<1> QED
  BY <1>2, <1>4, Arriving

\* A DELETE of a model relies on the record it loaded only by its type.
LEMMA DeleteModelArrives ==
    ASSUME CatalogInv, NEW h \in Handlers, NEW m \in Models, deleteModel(h, m)
    PROVE  CatalogInv'
<1> DEFINE old == store[modelKey(m)].value
<1>1. old \in Model
  BY ModelIs DEF deleteModel, CatalogInv, StoreOK
<1>2. Arrive(h, Request("deleteModel", m, old, None))
  BY DEF deleteModel, Start
<1> HIDE DEF old
<1>3. OpTyped(Request("deleteModel", m, old, None))
  BY <1>1, RequestIs DEF OpTyped
<1> QED
  BY <1>2, <1>3, Arriving

\* Taking a mutex that nobody holds.
LEMMA LockKeeps ==
    ASSUME CatalogInv, NEW h \in Handlers, Lock(h),
           \A g \in InRepository : ~SameMutex(request[h], request[g])
    PROVE  CatalogInv'
<1> DEFINE r == request[h]
           q == [r EXCEPT !.phase = "reading"]
<1>1. /\ StoreOK /\ RequestsOK /\ UnderWay(h) /\ store' = store
      /\ request' = [request EXCEPT ![h] = q]
  BY DEF CatalogInv, Lock, UnderWay
<1>2. OpOK(r, store)
  BY <1>1, UnderWayOK
<1> HIDE DEF r
<1>3. /\ Shaped(q) /\ q.phase = "reading" /\ q.op = r.op /\ q.id = r.id /\ q.old = r.old
      /\ q.new = r.new /\ q.got = r.got
  BY <1>2 DEF OpOK, Shaped
<1> HIDE DEF q
<1>4. OpTyped(q)
  BY <1>2, <1>3 DEF OpOK, OpTyped
<1>5. ReadOK(q, store)
  BY <1>2, <1>3 DEF OpOK, ReadOK, ProviderReadOK, ModelReadOK, IndexReadOK
<1>6. OpOK(q, store')
  BY <1>1, <1>2, <1>3, <1>4, <1>5 DEF OpOK
<1>7. \A g \in InRepository \ {h} : ~SameMutex(q, request[g])
  BY <1>3 DEF SameMutex, r
<1>8. StoreOK' /\ \A g \in Handlers \ {h} : UnderWay(g) => OpOK(request[g], store')
  BY <1>1, StoreStays, UnderWayOK
<1> QED
  BY <1>1, <1>3, <1>6, <1>7, <1>8, OneHandler

\* Every key an operation reads is a key of the store.
LEMMA ReadsStored ==
    ASSUME NEW r, OpTyped(r), NEW i \in DOMAIN ReadList(r)
    PROVE  ReadList(r)[i] \in StoreKeys
<1>1. CASE r.op = "createProvider"
  <2>1. ReadList(r) = <<providerKey(r.id), slugKey(r.new.slug), appKey(r.new.app),
                        providerIndexKey>>
    BY <1>1 DEF ReadList
  <2>2. r.id \in Providers /\ r.new.slug \in Slugs /\ r.new.app \in Apps
    BY <1>1, ProviderParts DEF OpTyped
  <2> QED
    BY <2>1, <2>2, KeysStored
<1>2. CASE r.op = "replaceProvider"
  <2>1. ReadList(r) = <<providerKey(r.id), slugKey(r.new.slug), appKey(r.new.app)>>
    BY <1>2 DEF ReadList
  <2>2. r.id \in Providers /\ r.new.slug \in Slugs /\ r.new.app \in Apps
    BY <1>2, ProviderParts DEF OpTyped
  <2> QED
    BY <2>1, <2>2, KeysStored
<1>3. CASE r.op = "deleteProvider"
  <2>1. ReadList(r) = <<providerKey(r.id), modelsByProviderIndexKey(r.id), providerIndexKey>>
    BY <1>3 DEF ReadList
  <2>2. r.id \in Providers
    BY <1>3 DEF OpTyped
  <2> QED
    BY <2>1, <2>2, KeysStored
<1>4. CASE r.op = "createModel"
  <2>1. ReadList(r) = <<modelKey(r.id), aliasKey(r.new.alias), providerKey(r.new.provider),
                        modelIndexKey, modelsByProviderIndexKey(r.new.provider)>>
    BY <1>4 DEF ReadList
  <2>2. r.id \in Models /\ r.new.alias \in Aliases /\ r.new.provider \in Providers
    BY <1>4, ModelParts DEF OpTyped
  <2> QED
    BY <2>1, <2>2, KeysStored
<1>5. CASE r.op = "replaceModel"
  <2>1. /\ r.id \in Models /\ r.new.alias \in Aliases
        /\ r.new.provider \in Providers /\ r.old.provider \in Providers
    BY <1>5, ModelParts DEF OpTyped
  <2>2. CASE r.new.provider = r.old.provider
    <3>1. ReadList(r) = <<modelKey(r.id), aliasKey(r.new.alias), providerKey(r.old.provider),
                          modelsByProviderIndexKey(r.old.provider)>>
      BY <1>5, <2>2 DEF ReadList
    <3> QED
      BY <2>1, <3>1, KeysStored
  <2>3. CASE r.new.provider # r.old.provider
    <3>1. ReadList(r) = <<modelKey(r.id), aliasKey(r.new.alias), providerKey(r.old.provider),
                          providerKey(r.new.provider),
                          modelsByProviderIndexKey(r.old.provider),
                          modelsByProviderIndexKey(r.new.provider)>>
      BY <1>5, <2>3 DEF ReadList
    <3> QED
      BY <2>1, <3>1, KeysStored
  <2> QED
    BY <2>2, <2>3
<1>6. CASE r.op = "deleteModel"
  <2>1. ReadList(r) = <<modelKey(r.id), modelIndexKey,
                        modelsByProviderIndexKey(r.old.provider), providerKey(r.old.provider)>>
    BY <1>6 DEF ReadList
  <2>2. r.id \in Models /\ r.old.provider \in Providers
    BY <1>6, ModelParts DEF OpTyped
  <2> QED
    BY <2>1, <2>2, KeysStored
<1> QED
  BY <1>1, <1>2, <1>3, <1>4, <1>5, <1>6 DEF OpTyped

\* Reading one more key.
LEMMA OneMoreRead ==
    ASSUME StoreOK, NEW r, OpOK(r, store), NEW key \in StoreKeys, key \notin DOMAIN r.got,
           r.phase = "reading", NEW q, Shaped(q),
           q.phase = r.phase, q.op = r.op, q.id = r.id, q.old = r.old, q.new = r.new,
           DOMAIN q.got = DOMAIN r.got \cup {key},
           q.got[key] = store[key],
           \A k \in DOMAIN r.got : q.got[k] = r.got[k]
    PROVE  OpOK(q, store)
<1>1. StoreTyped /\ OpTyped(r) /\ ReadOK(r, store)
  BY DEF StoreOK, OpOK
<1>2. OpTyped(q)
  BY <1>1 DEF OpTyped
<1>3. \A k \in DOMAIN q.got : OfType(k, q.got[k])
  BY <1>1 DEF ReadOK, StoreTyped
<1>4. q.op \in ProviderRepositoryOps => ProviderReadOK(q, store)
  BY <1>1 DEF ReadOK, ProviderReadOK, Recalled
<1>5. q.op \in ModelRepositoryOps => ModelReadOK(q, store)
  BY <1>1 DEF ReadOK, ModelReadOK, Recalled
<1>6. IndexReadOK(q, store)
  BY <1>1 DEF ReadOK, IndexReadOK, Recalled
<1>7. ReadOK(q, store)
  BY <1>3, <1>4, <1>5, <1>6 DEF ReadOK
<1> QED
  BY <1>2, <1>7 DEF OpOK

\* Reading one more key keeps the invariant.
LEMMA ReadKeeps ==
    ASSUME CatalogInv, NEW h \in Handlers, NEW i \in Unread(request[h]),
           Read(h, ReadList(request[h])[i])
    PROVE  CatalogInv'
<1> DEFINE r == request[h]
           key == ReadList(r)[i]
           got == [k \in DOMAIN r.got \cup {key} |-> IF k = key THEN store[key] ELSE r.got[k]]
           q == [r EXCEPT !.got = got]
<1>1. /\ StoreOK /\ RequestsOK /\ MutexesHeld /\ UnderWay(h)
      /\ store' = store /\ r.phase = "reading"
      /\ request' = [request EXCEPT ![h] = q]
  BY DEF CatalogInv, Read, UnderWay
<1>2. OpOK(r, store) /\ Shaped(r) /\ OpTyped(r)
  BY <1>1, UnderWayOK DEF OpOK
<1>3. key \in StoreKeys /\ key \notin DOMAIN r.got
  BY <1>2, ReadsStored DEF Unread
<1>4. /\ Shaped(q) /\ q.phase = r.phase /\ q.op = r.op /\ q.id = r.id /\ q.old = r.old
      /\ q.new = r.new /\ q.got = got
  <2> HIDE DEF got
  <2> QED
    BY <1>2 DEF Shaped
<1>5. /\ DOMAIN got = DOMAIN r.got \cup {key} /\ got[key] = store[key]
      /\ \A k \in DOMAIN r.got : got[k] = r.got[k]
  BY <1>3
<1> HIDE DEF q, got, key
<1>6. OpOK(q, store)
  <2> HIDE DEF r
  <2> QED
    BY <1>1, <1>2, <1>3, <1>4, <1>5, OneMoreRead
<1>7. StoreOK' /\ \A g \in Handlers \ {h} : UnderWay(g) => OpOK(request[g], store')
  BY <1>1, StoreStays, UnderWayOK
<1>8. \A g \in InRepository \ {h} : ~SameMutex(q, request[g])
  BY <1>1, <1>4 DEF MutexesHeld, InRepository, SameMutex
<1>9. OpOK(q, store') /\ q.phase = "reading"
  BY <1>1, <1>4, <1>6
<1> QED
  BY <1>1, <1>7, <1>8, <1>9, OneHandler

\* An operation that has read everything writes and lets go of its mutex.
LEMMA CommitKeeps ==
    ASSUME CatalogInv, NEW h \in Handlers, Unread(request[h]) = {},
           Commit(h, Transaction(request[h]))
    PROVE  CatalogInv'
<1>1. /\ StoreOK /\ RequestsOK /\ MutexesHeld /\ UnderWay(h) /\ request[h].phase = "reading"
      /\ store' = Transact(store, Transaction(request[h]))
      /\ request' = [request EXCEPT ![h] = Idle]
  BY DEF CatalogInv, Commit, UnderWay
<1>2. OpOK(request[h], store)
  BY <1>1, UnderWayOK
<1>3. StoreOK'
  BY <1>1, <1>2, TransactionKeepsStore
<1>4. ASSUME NEW g \in Handlers \ {h}, UnderWay(g) PROVE OpOK(request[g], store')
  <2>1. OpOK(request[g], store)
    BY <1>1, <1>4, UnderWayOK
  <2>2. request[g].phase = "loaded" \/ ~SameMutex(request[g], request[h])
    BY <1>1, <1>4 DEF UnderWay, MutexesHeld, InRepository
  <2> QED
    BY <1>1, <1>2, <2>1, <2>2, OthersStay
<1> QED
  BY <1>1, <1>3, <1>4, OneHandler

\* At the start there is nothing but, perhaps, two empty indexes.
LEMMA StartState ==
    ASSUME Init, Strays = {}
    PROVE  /\ store = [key \in StoreKeys |-> store[key]]
           /\ \A key \in StoreKeys : store[key] = Absent \/ store[key] = Entry({}, 1)
           /\ \A key \in StoreKeys \ {providerIndexKey, modelIndexKey} : store[key] = Absent
           /\ DOMAIN request = Handlers /\ \A h \in Handlers : request[h] = Idle
  BY DEF Init, RepositoryInit

\* The invariant holds at the start.
LEMMA InitInv ==
    ASSUME Init, Strays = {}
    PROVE  CatalogInv
<1>1. /\ store = [key \in StoreKeys |-> store[key]]
      /\ \A key \in StoreKeys : store[key] = Absent \/ store[key] = Entry({}, 1)
      /\ \A key \in StoreKeys \ {providerIndexKey, modelIndexKey} : store[key] = Absent
      /\ DOMAIN request = Handlers /\ \A h \in Handlers : request[h] = Idle
  BY StartState
<1>2. /\ \A p \in Providers : store[providerKey(p)] = Absent
                              /\ store[modelsByProviderIndexKey(p)] = Absent
      /\ \A m \in Models : store[modelKey(m)] = Absent
      /\ \A s \in Slugs : store[slugKey(s)] = Absent
      /\ \A a \in Apps : store[appKey(a)] = Absent
      /\ \A a \in Aliases : store[aliasKey(a)] = Absent
  BY <1>1, KeysStored, KeyParts
<1>3. /\ store[providerIndexKey] = Absent \/ store[providerIndexKey] = Entry({}, 1)
      /\ store[modelIndexKey] = Absent \/ store[modelIndexKey] = Entry({}, 1)
  BY <1>1, KeysStored
<1>4. /\ Entry({}, 1) \in Entries(SUBSET Providers) /\ Entry({}, 1) \in Entries(SUBSET Models)
      /\ readIndex(Entry({}, 1)) = {}
  BY DEF Entries, Present, Entry, readIndex, Exists, NoETag
<1>5. StoreTyped
  <2>1. \A key \in StoreKeys : OfType(key, store[key])
    BY <1>2, <1>3, <1>4, AbsentIs DEF OfType
  <2> QED
    BY <1>1, <2>1 DEF StoreTyped
<1>6. /\ \A p \in Providers : ProviderOf(p) = None
      /\ \A m \in Models : ModelOf(m) = None
  BY <1>2, AbsentIs DEF ProviderOf, ModelOf
<1>7. IndexesExact
  <2>1. readIndex(store[providerIndexKey]) = {} /\ readIndex(store[modelIndexKey]) = {}
    BY <1>3, <1>4, AbsentIs
  <2> QED
    BY <1>2, <1>6, <2>1, AbsentIs DEF IndexesExact, Existing
<1>8. LookupsExact
  BY <1>2, <1>6, AbsentIs DEF LookupsExact
<1>9. RequestsOK /\ MutexesHeld
  BY <1>1 DEF RequestsOK, MutexesHeld, InRepository, Idle
<1> QED
  BY <1>5, <1>7, <1>8, <1>9 DEF CatalogInv, StoreOK

\* The inductive step, one case per action.
LEMMA NextInv ==
    ASSUME CatalogInv, [Next]_vars, Strays = {}
    PROVE  CatalogInv'
<1>1. ASSUME NEW h \in Handlers, StartNext(h) PROVE CatalogInv'
  BY <1>1, CreateProviderArrives, UpdateProviderArrives, DeleteProviderArrives,
     CreateModelArrives, UpdateModelArrives, DeleteModelArrives DEF StartNext
<1>2. CASE RepositoryNext
  BY <1>2, LockKeeps, ReadKeeps, CommitKeeps DEF RepositoryNext
<1>3. CASE UNCHANGED vars
  <2>1. StoreOK'
    BY <1>3, StoreStays DEF vars, CatalogInv
  <2> QED
    BY <1>3, <2>1 DEF vars, CatalogInv, RequestsOK, MutexesHeld, UnderWay, InRepository
<1> QED
  BY <1>1, <1>2, <1>3 DEF Next

(***************************************************************************)
(* As long as no transaction outlives its caller, whatever handlers of the *)
(* two repositories do: the store is in order, and what each operation has *)
(* read is still so, or its ETag is out of date for good.                  *)
(***************************************************************************)
THEOREM CatalogInvariant ==
    ASSUME Strays = {}
    PROVE  Spec => []CatalogInv
<1>1. Init => CatalogInv
  BY InitInv
<1>2. CatalogInv /\ [Next]_vars => CatalogInv'
  BY NextInv
<1> QED
  BY <1>1, <1>2, PTL DEF Spec

(***************************************************************************)
(* The collection indexes and the index of each provider's models always   *)
(* agree with the stored providers and models.                             *)
(***************************************************************************)
THEOREM IndexesStayExact ==
    ASSUME Strays = {}
    PROVE  Spec => []IndexesExact
<1>1. CatalogInv => IndexesExact
  BY DEF CatalogInv, StoreOK
<1> QED
  BY <1>1, CatalogInvariant, PTL

(***************************************************************************)
(* Slug, adapter app ID and alias lookups always lead to the provider or   *)
(* model that bears the name, and to nothing else.                         *)
(***************************************************************************)
THEOREM LookupsStayExact ==
    ASSUME Strays = {}
    PROVE  Spec => []LookupsExact
<1>1. CatalogInv => LookupsExact
  BY DEF CatalogInv, StoreOK
<1> QED
  BY <1>1, CatalogInvariant, PTL

(***************************************************************************)
(* No two providers share a slug or an adapter app ID, no two models an    *)
(* alias: what MCCatalogUnique refutes once a transaction may arrive late. *)
(***************************************************************************)
THEOREM NamesStayUnique ==
    ASSUME Strays = {}
    PROVE  Spec => []UniqueNames
<1>1. ASSUME CatalogInv PROVE UniqueNames
  <2>1. StoreOK /\ StoreTyped
    BY <1>1 DEF CatalogInv, StoreOK
  <2>2. ASSUME NEW p \in Providers, NEW q \in Providers,
               ProviderOf(p) # None, ProviderOf(q) # None, p # q
        PROVE  providerLookups(ProviderOf(p)) \cap providerLookups(ProviderOf(q)) = {}
    <3>1. /\ \A k \in providerLookups(ProviderOf(p)) : store[k].value = p
          /\ \A k \in providerLookups(ProviderOf(q)) : store[k].value = q
      BY <2>1, <2>2 DEF StoreOK, LookupsExact
    <3> QED
      BY <2>2, <3>1
  <2>3. ASSUME NEW m \in Models, NEW n \in Models,
               ModelOf(m) # None, ModelOf(n) # None, m # n
        PROVE  ModelOf(m).alias # ModelOf(n).alias
    BY <2>1, <2>3 DEF StoreOK, LookupsExact
  <2> QED
    BY <2>2, <2>3 DEF UniqueNames
<1> QED
  BY <1>1, CatalogInvariant, PTL

-----------------------------------------------------------------------------
(***************************************************************************)
(* The refinement of Catalog.                                              *)
(***************************************************************************)
providersNow == [p \in Providers |-> ProviderOf(p)]
modelsNow == [m \in Models |-> ModelOf(m)]

\* Storing a provider is AddProvider or SetProvider of Catalog.
LEMMA PutIsAddOrSet ==
    ASSUME StoreOK, NEW p, NEW provider, ProviderPut(p, provider)
    PROVE  Abstract!Next
<1> DEFINE v == [slug |-> provider.slug, app |-> provider.app, status |-> provider.status]
<1>1. p \in Providers /\ provider \in Provider /\ StoreTyped
  BY DEF ProviderPut, StoreOK
<1>2. /\ v \in Abstract!Provider /\ v.status \in Abstract!Status
      /\ v.slug = provider.slug /\ v.app = provider.app
  BY <1>1, ProviderParts DEF Abstract!Provider, Abstract!Status, Status
<1>3. Exists(store'[providerKey(p)]) /\ store'[providerKey(p)].value = provider
  BY <1>1, EtagsAreNat, WrittenIs DEF ProviderPut
<1>4. ProviderOf(p)' = v
  BY <1>3, RecordsAre DEF ProviderIn
<1>5. \A q \in Providers \ {p} : ProviderOf(q)' = ProviderOf(q)
  BY RecordsAre DEF ProviderPut, Same
<1>6. modelsNow' = modelsNow
  BY ModelKeysAre, RecordsAre DEF ProviderPut, Same, modelsNow
<1>7. CASE Exists(store[providerKey(p)])
  <2>1. ProviderOf(p) = [slug |-> provider.slug, app |-> provider.app,
                         status |-> store[providerKey(p)].value.status]
        /\ ProviderOf(p) # None
    BY <1>1, <1>7, RecordsAre, ProviderIs DEF ProviderPut, ProviderIn
  <2>2. v = [ProviderOf(p) EXCEPT !.status = v.status]
    BY <2>1
  <2> HIDE DEF v
  <2>3. providersNow[p] = ProviderOf(p) /\ providersNow[p] # None
    BY <1>1, <2>1 DEF providersNow
  <2>4. providersNow' = [providersNow EXCEPT ![p].status = v.status]
    BY <1>1, <1>4, <1>5, <2>2 DEF providersNow
  <2>5. Abstract!SetProvider(p, v.status)
    BY <1>6, <2>3, <2>4 DEF Abstract!SetProvider, providersNow, modelsNow
  <2> QED
    BY <1>1, <1>2, <2>5 DEF Abstract!Next
<1>8. CASE ~Exists(store[providerKey(p)])
  <2> HIDE DEF v
  <2>1. providersNow[p] = None
    BY <1>1, <1>8, ProviderIs DEF providersNow
  <2>2. ASSUME NEW q \in Providers, providersNow[q] # None
        PROVE  providersNow[q].slug # v.slug /\ providersNow[q].app # v.app
    <3>1. providersNow[q] = ProviderOf(q) /\ Exists(store[providerKey(q)]) /\ q # p
      BY <1>1, <2>1, <2>2, ProviderIs DEF providersNow
    <3>2. /\ ProviderOf(q).slug = store[providerKey(q)].value.slug
          /\ ProviderOf(q).app = store[providerKey(q)].value.app
      BY <1>1, <3>1, ProviderIs
    <3> QED
      BY <1>2, <3>1, <3>2, NamesLead DEF ProviderPut, NameFree
  <2>3. providersNow' = [providersNow EXCEPT ![p] = v]
    BY <1>1, <1>4, <1>5 DEF providersNow
  <2>4. Abstract!AddProvider(p, v)
    BY <1>6, <2>1, <2>2, <2>3 DEF Abstract!AddProvider, providersNow, modelsNow
  <2> QED
    BY <1>1, <1>2, <2>4 DEF Abstract!Next
<1> QED
  BY <1>7, <1>8

\* Removing a provider is DropProvider of Catalog.
LEMMA DroppedIsDropProvider ==
    ASSUME StoreOK, NEW p, NEW provider, ProviderDropped(p, provider)
    PROVE  p \in Providers /\ Abstract!DropProvider(p)
<1>1. p \in Providers /\ StoreTyped /\ Exists(store[providerKey(p)])
  BY DEF ProviderDropped, StoreOK
<1>2. providersNow[p] # None
  BY <1>1, ProviderIs DEF providersNow
<1>3. ProviderOf(p)' = None
  BY RecordsAre, AbsentIs DEF ProviderDropped, ProviderIn
<1>4. \A q \in Providers \ {p} : ProviderOf(q)' = ProviderOf(q)
  BY RecordsAre DEF ProviderDropped, Same
<1>5. providersNow' = [providersNow EXCEPT ![p] = None]
  BY <1>1, <1>3, <1>4 DEF providersNow
<1>6. modelsNow' = modelsNow
  <2>1. \A m \in Models : Same(modelKey(m))
    BY ModelKeysAre, KeyParts DEF ProviderDropped
  <2> QED
    BY <2>1, RecordsAre DEF Same, modelsNow
<1>7. ASSUME NEW m \in Models, modelsNow[m] # None PROVE modelsNow[m].provider # p
  <2>1. modelsNow[m] = ModelOf(m) /\ Exists(store[modelKey(m)])
    BY <1>1, <1>7, ModelIs DEF modelsNow
  <2>2. m \notin readIndex(store[modelsByProviderIndexKey(p)])
    BY DEF ProviderDropped
  <2> QED
    BY <1>1, <2>1, <2>2, ExistingListed, ModelIs
<1> QED
  BY <1>1, <1>2, <1>5, <1>6, <1>7 DEF Abstract!DropProvider, providersNow, modelsNow

\* A touch does not show.
LEMMA ProvidersStay ==
    ASSUME StoreOK, NEW m, NEW alias, NEW under, ModelStep(m, alias, under)
    PROVE  /\ providersNow' = providersNow
           /\ \A n \in Models \ {m} : ModelOf(n)' = ModelOf(n)
<1>1. ASSUME NEW p \in Providers PROVE ProviderOf(p)' = ProviderOf(p)
  <2>1. /\ Exists(store'[providerKey(p)]) <=> Exists(store[providerKey(p)])
        /\ Exists(store[providerKey(p)]) =>
             store'[providerKey(p)].value = store[providerKey(p)].value
    BY ModelStepKeeps
  <2> QED
    BY <2>1, RecordsAre DEF ProviderIn
<1>2. \A n \in Models \ {m} : ModelOf(n)' = ModelOf(n)
  BY RecordsAre DEF ModelStep, Same
<1> QED
  BY <1>1, <1>2 DEF providersNow

\* Storing a model is AddModel or SetModel of Catalog.
LEMMA ModelPutIsAddOrSet ==
    ASSUME StoreOK, NEW m, NEW model, ModelPut(m, model)
    PROVE  Abstract!Next
<1> DEFINE v == [alias |-> model.alias, provider |-> model.provider, status |-> model.status]
<1>1. /\ m \in Models /\ model \in Model /\ StoreTyped
      /\ ModelStep(m, model.alias, {model.provider})
  BY DEF ModelPut, ModelStep, StoreOK
<1>2. /\ v \in Abstract!Model /\ v.status \in Abstract!Status /\ v.provider \in Providers
      /\ v.alias = model.alias /\ v.provider = model.provider /\ v.status = model.status
  BY <1>1, ModelParts DEF Abstract!Model, Abstract!Status, Status
<1>3. Exists(store'[modelKey(m)]) /\ store'[modelKey(m)].value = model
  BY <1>1, EtagsAreNat, WrittenIs DEF ModelPut
<1>4. ModelOf(m)' = v
  BY <1>3, RecordsAre DEF ModelIn
<1>5. providersNow' = providersNow /\ \A n \in Models \ {m} : ModelOf(n)' = ModelOf(n)
  BY <1>1, ProvidersStay
<1>6. Abstract!CanBack(v.provider, v.status)
  <2> HIDE DEF v
  <2>1. /\ Exists(store[providerKey(v.provider)])
        /\ v.status = "active" => store[providerKey(v.provider)].value.status = "active"
    BY <1>2 DEF ModelPut, ensureProviderCanBackModel
  <2>2. /\ providersNow[v.provider] = ProviderOf(v.provider)
        /\ ProviderOf(v.provider) # None
        /\ v.status = "active" => ProviderOf(v.provider).status = "active"
    BY <1>1, <1>2, <2>1, ProviderIs DEF providersNow
  <2> QED
    BY <2>2 DEF Abstract!CanBack, providersNow
<1>7. CASE Exists(store[modelKey(m)])
  <2>1. ModelOf(m).alias = model.alias /\ ModelOf(m) # None
    BY <1>1, <1>7, ModelIs DEF ModelPut
  <2>2. v = [alias |-> ModelOf(m).alias, provider |-> v.provider, status |-> v.status]
    BY <2>1
  <2> HIDE DEF v
  <2>3. modelsNow[m] = ModelOf(m) /\ modelsNow[m] # None
    BY <1>1, <2>1 DEF modelsNow
  <2>4. modelsNow' = [modelsNow EXCEPT
           ![m] = [alias |-> @.alias, provider |-> v.provider, status |-> v.status]]
    BY <1>1, <1>4, <1>5, <2>2 DEF modelsNow
  <2>5. Abstract!SetModel(m, v.provider, v.status)
    BY <1>5, <1>6, <2>3, <2>4 DEF Abstract!SetModel, providersNow, modelsNow
  <2> QED
    BY <1>1, <1>2, <2>5 DEF Abstract!Next
<1>8. CASE ~Exists(store[modelKey(m)])
  <2> HIDE DEF v
  <2>1. modelsNow[m] = None
    BY <1>1, <1>8, ModelIs DEF modelsNow
  <2>2. ASSUME NEW n \in Models, modelsNow[n] # None
        PROVE  modelsNow[n].alias # v.alias
    <3>1. modelsNow[n] = ModelOf(n) /\ Exists(store[modelKey(n)]) /\ n # m
      BY <1>1, <2>1, <2>2, ModelIs DEF modelsNow
    <3>2. ModelOf(n).alias = store[modelKey(n)].value.alias
      BY <1>1, <3>1, ModelIs
    <3> QED
      BY <1>2, <3>1, <3>2, AliasLeads DEF ModelPut, NameFree
  <2>3. modelsNow' = [modelsNow EXCEPT ![m] = v]
    BY <1>1, <1>4, <1>5 DEF modelsNow
  <2>4. Abstract!AddModel(m, v)
    BY <1>5, <1>6, <2>1, <2>2, <2>3 DEF Abstract!AddModel, providersNow, modelsNow
  <2> QED
    BY <1>1, <1>2, <2>4 DEF Abstract!Next
<1> QED
  BY <1>7, <1>8

\* Removing a model is DropModel of Catalog.
LEMMA DroppedIsDropModel ==
    ASSUME StoreOK, NEW m, NEW model, ModelDropped(m, model)
    PROVE  m \in Models /\ Abstract!DropModel(m)
<1>1. /\ m \in Models /\ StoreTyped /\ Exists(store[modelKey(m)])
      /\ ModelStep(m, model.alias, {})
  BY DEF ModelDropped, ModelStep, StoreOK
<1>2. modelsNow[m] # None
  BY <1>1, ModelIs DEF modelsNow
<1>3. ModelOf(m)' = None
  BY RecordsAre, AbsentIs DEF ModelDropped, ModelIn
<1>4. providersNow' = providersNow /\ \A n \in Models \ {m} : ModelOf(n)' = ModelOf(n)
  BY <1>1, ProvidersStay
<1>5. modelsNow' = [modelsNow EXCEPT ![m] = None]
  BY <1>1, <1>3, <1>4 DEF modelsNow
<1> QED
  BY <1>1, <1>2, <1>4, <1>5 DEF Abstract!DropModel, providersNow, modelsNow

\* Only the commit of an operation that has read everything writes.
LEMMA StepKinds ==
    ASSUME [Next]_vars, Strays = {}
    PROVE  \/ store' = store
           \/ \E h \in Handlers :
                 /\ UnderWay(h) /\ Unread(request[h]) = {}
                 /\ store' = Transact(store, Transaction(request[h]))
<1>1. ASSUME NEW h \in Handlers, StartNext(h) PROVE store' = store
  BY <1>1 DEF StartNext, StartCreateProvider, updateProvider, deleteProvider,
              StartCreateModel, updateModel, deleteModel, Start, StartNew, Arrive
<1>2. ASSUME NEW h \in Handlers, Lock(h) PROVE store' = store
  BY <1>2 DEF Lock
<1>3. ASSUME NEW h \in Handlers, NEW key, Read(h, key) PROVE store' = store
  BY <1>3 DEF Read
<1>4. ASSUME NEW h \in Handlers, Commit(h, Transaction(request[h]))
      PROVE  UnderWay(h) /\ store' = Transact(store, Transaction(request[h]))
  BY <1>4 DEF Commit, UnderWay
<1>5. CASE RepositoryNext
  BY <1>2, <1>3, <1>4, <1>5 DEF RepositoryNext
<1>6. CASE UNCHANGED vars
  BY <1>6 DEF vars
<1> QED
  BY <1>1, <1>5, <1>6 DEF Next

(***************************************************************************)
(* ProviderRepository and ModelRepository together implement Catalog:      *)
(* every write of the store is one whole operation of the catalog, with    *)
(* its names free, its provider able to back its model and, for a          *)
(* provider that goes, no model left; no other step shows.                 *)
(***************************************************************************)
THEOREM CatalogImplemented ==
    ASSUME Strays = {}
    PROVE  Spec => ImplementsCatalog
<1>1. ASSUME Init PROVE Abstract!Init
  <2>1. /\ \A key \in StoreKeys \ {providerIndexKey, modelIndexKey} : store[key] = Absent
    BY <1>1, StartState
  <2>2. /\ \A p \in Providers : store[providerKey(p)] = Absent
        /\ \A m \in Models : store[modelKey(m)] = Absent
    BY <2>1, KeysStored, KeyParts
  <2>3. /\ \A p \in Providers : ProviderOf(p) = None
        /\ \A m \in Models : ModelOf(m) = None
    BY <2>2, AbsentIs DEF ProviderOf, ModelOf
  <2> QED
    BY <2>3 DEF Abstract!Init
<1>2. ASSUME CatalogInv, [Next]_vars
      PROVE  [Abstract!Next]_<<[p \in Providers |-> ProviderOf(p)],
                               [m \in Models |-> ModelOf(m)]>>
  <2>1. StoreOK /\ RequestsOK
    BY <1>2 DEF CatalogInv
  <2>2. ASSUME store' = store
        PROVE  UNCHANGED <<[p \in Providers |-> ProviderOf(p)], [m \in Models |-> ModelOf(m)]>>
    BY <2>2 DEF ProviderOf, ModelOf
  <2>3. ASSUME NEW h \in Handlers, UnderWay(h), Unread(request[h]) = {},
               store' = Transact(store, Transaction(request[h]))
        PROVE  store' = store \/ Abstract!Next
    <3>1. OpOK(request[h], store)
      BY <2>1, <2>3, UnderWayOK
    <3>2. \/ store' = store
          \/ ProviderPut(request[h].id, request[h].new)
          \/ ProviderDropped(request[h].id, request[h].old)
          \/ ModelPut(request[h].id, request[h].new)
          \/ ModelDropped(request[h].id, request[h].old)
      BY <2>1, <2>3, <3>1, TransactionEffect
    <3>3. CASE ProviderPut(request[h].id, request[h].new)
      BY <2>1, <3>3, PutIsAddOrSet
    <3>4. CASE ProviderDropped(request[h].id, request[h].old)
      BY <2>1, <3>4, DroppedIsDropProvider DEF Abstract!Next
    <3>5. CASE ModelPut(request[h].id, request[h].new)
      BY <2>1, <3>5, ModelPutIsAddOrSet
    <3>6. CASE ModelDropped(request[h].id, request[h].old)
      BY <2>1, <3>6, DroppedIsDropModel DEF Abstract!Next
    <3> QED
      BY <3>2, <3>3, <3>4, <3>5, <3>6
  <2> QED
    BY <1>2, <2>2, <2>3, StepKinds
<1> QED
  BY <1>1, <1>2, CatalogInvariant, PTL DEF Spec, ImplementsCatalog, Abstract!Spec
=============================================================================
