--------------------------- MODULE ProviderCatalog ---------------------------
(***************************************************************************)
(* ProviderRepository and ModelRepository over one store.                  *)
(*                                                                         *)
(* Each repository has a mutex of its own, so an operation of one can      *)
(* commit between any two reads of an operation of the other; only the     *)
(* ETags of the final transaction tell.  The service loads the record it   *)
(* will replace or delete before the repository takes its mutex; model     *)
(* operations also hold the service's modelMu, provider operations hold    *)
(* nothing.  The remote calls of a model operation are left to             *)
(* ModelLifecycle.                                                         *)
(***************************************************************************)
EXTENDS Naturals, Sequences, Repository

CONSTANTS
    Providers, Models,      \* the IDs NewID can return
    Slugs, Apps, Aliases,   \* unique names
    None,                   \* no record
    Bootstrapped,           \* the collection indexes exist already
    MaxWrites               \* bound: PUTs of one provider or of one model

ASSUME BoundAssumption ==
    /\ Bootstrapped \in BOOLEAN
    /\ MaxWrites \in Nat

Status == {"active", "disabled"}

\* Keys of the store.
providerKey(p) == <<"providers", p>>
modelKey(m) == <<"models", m>>
slugKey(s) == <<"provider-slug", s>>
appKey(a) == <<"provider-adapter-app-id", a>>
aliasKey(a) == <<"model-alias", a>>
modelsByProviderIndexKey(p) == <<"models-by-provider", p>>
providerIndexKey == <<"index", "providers">>
modelIndexKey == <<"index", "models">>

StoreKeys ==
    {providerKey(p) : p \in Providers} \cup {modelKey(m) : m \in Models}
    \cup {slugKey(s) : s \in Slugs} \cup {appKey(a) : a \in Apps}
    \cup {aliasKey(a) : a \in Aliases}
    \cup {modelsByProviderIndexKey(p) : p \in Providers}
    \cup {providerIndexKey, modelIndexKey}

\* "writes" stands for UpdatedAt (providers) and Revision (models): no two
\* versions of a record are equal.
Provider == [slug : Slugs, app : Apps, status : Status, writes : Nat]
Model == [alias : Aliases, provider : Providers, status : Status, writes : Nat]

ASSUME NoneAssumption ==
    None \notin [slug : Slugs, app : Apps, status : Status]
             \cup [alias : Aliases, provider : Providers, status : Status]

providerLookups(provider) == {slugKey(provider.slug), appKey(provider.app)}

-----------------------------------------------------------------------------
ProviderRepositoryOps == {"createProvider", "replaceProvider"}
ModelServiceOps == {"createModel", "replaceModel", "deleteModel"}

\* The keys an operation reads, in the order of the code (which leaves open in
\* which order the two lookups of a provider are read).
ReadList(r) ==
    CASE r.op = "createProvider" ->
            <<providerKey(r.id), slugKey(r.new.slug), appKey(r.new.app),
              providerIndexKey>>
      [] r.op = "replaceProvider" ->
            <<providerKey(r.id), slugKey(r.new.slug), appKey(r.new.app)>>
      [] r.op = "deleteProvider" ->
            <<providerKey(r.id), modelsByProviderIndexKey(r.id),
              providerIndexKey>>
      [] r.op = "createModel" ->
            <<modelKey(r.id), aliasKey(r.new.alias), providerKey(r.new.provider),
              modelIndexKey, modelsByProviderIndexKey(r.new.provider)>>
      [] r.op = "replaceModel" ->
            IF r.new.provider = r.old.provider
            THEN <<modelKey(r.id), aliasKey(r.new.alias), providerKey(r.old.provider),
                   modelsByProviderIndexKey(r.old.provider)>>
            ELSE <<modelKey(r.id), aliasKey(r.new.alias), providerKey(r.old.provider),
                   providerKey(r.new.provider), modelsByProviderIndexKey(r.old.provider),
                   modelsByProviderIndexKey(r.new.provider)>>
      [] r.op = "deleteModel" ->
            <<modelKey(r.id), modelIndexKey,
              modelsByProviderIndexKey(r.old.provider),
              providerKey(r.old.provider)>>

Unread(r) == {i \in DOMAIN ReadList(r) : ReadList(r)[i] \notin DOMAIN r.got}

IsNext(r, i) == \A j \in Unread(r) : i <= j

ensureProviderCanBackModel(entry, model) ==
    /\ Exists(entry)
    /\ model.status = "active" => entry.value.status = "active"

\* Mutant of providerTouchOperation: the touch has no ETag.
BlindTouch(p, entry) == Upsert(providerKey(p), entry.value, NoETag)

\* The operation writes the provider back unchanged, to claim its ETag.
providerTouchOperation(p, entry) == Upsert(providerKey(p), entry.value, entry.etag)

\* Lookups are written and deleted without an ETag.
UpsertLookups(keys, id) ==
    [k \in keys |-> Put(id, NoETag)]
DeleteLookups(keys) == [k \in keys |-> Remove(NoETag)]

-----------------------------------------------------------------------------
(***************************************************************************)
(* The repository operations: the transaction each one computes from what  *)
(* it has read, or no operations at all when it returns an error first.    *)
(***************************************************************************)
createProvider(r) ==
    LET got == r.got
        index == got[providerIndexKey] IN
    IF /\ ~Exists(got[providerKey(r.id)])
       /\ \A k \in providerLookups(r.new) : ~Exists(got[k])
    THEN
        Upsert(providerKey(r.id), r.new, NoETag)
        ++ Upsert(providerIndexKey, addIndexID(index, r.id), index.etag)
        ++ UpsertLookups(providerLookups(r.new), r.id)
    ELSE NoOperation

replaceProvider(r) == LET entity == r.got[providerKey(r.id)] IN
    IF /\ Exists(entity)
       /\ entity.value = r.old
       /\ \A k \in providerLookups(r.new) : NameFree(r.got[k], r.id)
    THEN
        Upsert(providerKey(r.id), r.new, entity.etag)
        ++ UpsertLookups(providerLookups(r.new), r.id)
    ELSE NoOperation

DeleteProviderIfNoModels(r) ==
    LET entity == r.got[providerKey(r.id)]
        ofProvider == r.got[modelsByProviderIndexKey(r.id)]
        index == r.got[providerIndexKey] IN
    IF /\ Exists(entity)
       /\ entity.value = r.old
       /\ readIndex(ofProvider) = {}
    THEN
        Delete(providerKey(r.id), entity.etag)
        ++ Upsert(providerIndexKey, removeIndexID(index, r.id), index.etag)
        ++ DeleteLookups(providerLookups(r.old))
        ++ (IF Exists(ofProvider)
            THEN Delete(modelsByProviderIndexKey(r.id), ofProvider.etag)
            ELSE NoOperation)
    ELSE NoOperation

CreateModel(r) ==
    LET p == r.new.provider
        provider == r.got[providerKey(p)]
        index == r.got[modelIndexKey]
        ofProvider == r.got[modelsByProviderIndexKey(p)] IN
    IF /\ ~Exists(r.got[modelKey(r.id)])
       /\ ~Exists(r.got[aliasKey(r.new.alias)])
       /\ ensureProviderCanBackModel(provider, r.new)
    THEN
        Upsert(modelKey(r.id), r.new, NoETag)
        ++ Upsert(modelIndexKey, addIndexID(index, r.id), index.etag)
        ++ Upsert(aliasKey(r.new.alias), r.id, NoETag)
        ++ Upsert(modelsByProviderIndexKey(p), addIndexID(ofProvider, r.id),
                  ofProvider.etag)
        ++ providerTouchOperation(p, provider)
    ELSE NoOperation

ReplaceModel(r) ==
    LET p == r.old.provider
        q == r.new.provider
        entity == r.got[modelKey(r.id)]
        ofOld == r.got[modelsByProviderIndexKey(p)]
        ofNew == r.got[modelsByProviderIndexKey(q)] IN
    IF /\ Exists(entity)
       /\ entity.value = r.old
       /\ NameFree(r.got[aliasKey(r.new.alias)], r.id)
       /\ Exists(r.got[providerKey(p)])
       /\ ensureProviderCanBackModel(r.got[providerKey(q)], r.new)
    THEN
        Upsert(modelKey(r.id), r.new, entity.etag)
        ++ Upsert(aliasKey(r.new.alias), r.id, NoETag)
        ++ Upsert(modelsByProviderIndexKey(q), addIndexID(ofNew, r.id),
                  ofNew.etag)
        ++ providerTouchOperation(p, r.got[providerKey(p)])
        ++ (IF p = q THEN NoOperation
            ELSE Upsert(modelsByProviderIndexKey(p), removeIndexID(ofOld, r.id),
                        ofOld.etag)
                 ++ providerTouchOperation(q, r.got[providerKey(q)]))
    ELSE NoOperation

DeleteModel(r) ==
    LET p == r.old.provider
        entity == r.got[modelKey(r.id)]
        provider == r.got[providerKey(p)]
        index == r.got[modelIndexKey]
        ofProvider == r.got[modelsByProviderIndexKey(p)] IN
    IF Exists(entity) /\ entity.value = r.old
    THEN
        Delete(modelKey(r.id), entity.etag)
        ++ Upsert(modelIndexKey, removeIndexID(index, r.id), index.etag)
        ++ Upsert(modelsByProviderIndexKey(p), removeIndexID(ofProvider, r.id),
                  ofProvider.etag)
        ++ Delete(aliasKey(r.old.alias), NoETag)
        ++ (IF Exists(provider) THEN providerTouchOperation(p, provider)
            ELSE NoOperation)
    ELSE NoOperation

Transaction(r) ==
    CASE r.op = "createProvider"  -> createProvider(r)
      [] r.op = "replaceProvider" -> replaceProvider(r)
      [] r.op = "deleteProvider"  -> DeleteProviderIfNoModels(r)
      [] r.op = "createModel"     -> CreateModel(r)
      [] r.op = "replaceModel"    -> ReplaceModel(r)
      [] r.op = "deleteModel"     -> DeleteModel(r)

\* Mutant of SameMutex: the repositories have no mutex.
NoMutex(r, s) == FALSE

SameMutex(r, s) ==
    (r.op \in ProviderRepositoryOps) <=> (s.op \in ProviderRepositoryOps)

-----------------------------------------------------------------------------
(***************************************************************************)
(* The service: a handler loads what it is about to change. Only model     *)
(* operations wait for each other (modelMu).                               *)
(***************************************************************************)
modelMuFree ==
    \A h \in Handlers : request[h].phase # "idle" => request[h].op \notin ModelServiceOps

StartCreateProvider(h, p, slug, app, status) ==
    StartNew(h, Request("createProvider", p, None,
                        [slug |-> slug, app |-> app, status |-> status, writes |-> 0]))

\* Slug and adapter app ID are immutable.
updateProvider(h, p, status) ==
    LET entry == store[providerKey(p)] IN
    /\ Exists(entry)
    /\ entry.value.writes < MaxWrites
    /\ Start(h, Request("replaceProvider", p, entry.value,
                        [slug |-> entry.value.slug, app |-> entry.value.app,
                         status |-> status, writes |-> entry.value.writes + 1]))

deleteProvider(h, p) ==
    LET entry == store[providerKey(p)] IN
    /\ Exists(entry)
    /\ Start(h, Request("deleteProvider", p, entry.value, None))

StartCreateModel(h, m, alias, p, status) ==
    /\ modelMuFree
    /\ StartNew(h, Request("createModel", m, None,
                           [alias |-> alias, provider |-> p, status |-> status,
                            writes |-> 0]))

\* The alias is immutable.
updateModel(h, m, p, status) ==
    LET entry == store[modelKey(m)] IN
    /\ modelMuFree
    /\ Exists(entry)
    /\ entry.value.writes < MaxWrites
    /\ Start(h, Request("replaceModel", m, entry.value,
                        [alias |-> entry.value.alias, provider |-> p, status |-> status,
                         writes |-> entry.value.writes + 1]))

deleteModel(h, m) ==
    LET entry == store[modelKey(m)] IN
    /\ modelMuFree
    /\ Exists(entry)
    /\ Start(h, Request("deleteModel", m, entry.value, None))

-----------------------------------------------------------------------------
Init ==
    RepositoryInit([k \in StoreKeys |->
          IF Bootstrapped /\ k \in {providerIndexKey, modelIndexKey}
          THEN Entry({}, 1) ELSE Absent])

StartNext(h) ==
    \/ \E p \in Providers, s \in Status :
        \/ \E slug \in Slugs, app \in Apps : StartCreateProvider(h, p, slug, app, s)
        \/ updateProvider(h, p, s)
    \/ \E p \in Providers : deleteProvider(h, p)
    \/ \E m \in Models, p \in Providers, s \in Status :
        \/ \E a \in Aliases : StartCreateModel(h, m, a, p, s)
        \/ updateModel(h, m, p, s)
    \/ \E m \in Models : deleteModel(h, m)

RepositoryNext ==
    \/ \E h \in Handlers :
        \/ /\ Lock(h)
           /\ \A g \in InRepository : ~SameMutex(request[h], request[g])
        \/ /\ request[h].phase = "reading"
           /\ \E i \in Unread(request[h]) :
                IsNext(request[h], i) /\ Read(h, ReadList(request[h])[i])
        \/ /\ request[h].phase = "reading" /\ Unread(request[h]) = {}
           /\ \/ Commit(h, Transaction(request[h]))
              \/ \E g \in Strays : Abandon(h, g, Transaction(request[h]))
    \/ \E g \in Strays :
        request[g].phase = "late" /\ Land(g, Transaction(request[g]))

Next ==
    \/ \E h \in Handlers : StartNext(h)
    \/ RepositoryNext

Spec == Init /\ [][Next]_vars

-----------------------------------------------------------------------------
\* The records of the catalog, without what only versions them.
ProviderOf(p) ==
    IF Exists(store[providerKey(p)])
    THEN LET v == store[providerKey(p)].value IN
         [slug |-> v.slug, app |-> v.app, status |-> v.status]
    ELSE None

ModelOf(m) ==
    IF Exists(store[modelKey(m)])
    THEN LET v == store[modelKey(m)].value IN
         [alias |-> v.alias, provider |-> v.provider, status |-> v.status]
    ELSE None

Abstract == INSTANCE Catalog WITH
    providers <- [p \in Providers |-> ProviderOf(p)],
    models <- [m \in Models |-> ModelOf(m)]

(***************************************************************************)
(* The two repositories, with their separate mutexes and ETags, implement  *)
(* a catalog whose operations are atomic.                                  *)
(***************************************************************************)
ImplementsCatalog == Abstract!Spec

Existing(ids, Key(_)) == {i \in ids : Exists(store[Key(i)])}

(***************************************************************************)
(* The collection indexes list exactly the resources there are, and the    *)
(* per-provider index exactly the models of that provider.                 *)
(***************************************************************************)
IndexesExact ==
    /\ readIndex(store[providerIndexKey]) = Existing(Providers, providerKey)
    /\ readIndex(store[modelIndexKey]) = Existing(Models, modelKey)
    /\ \A p \in Providers :
        readIndex(store[modelsByProviderIndexKey(p)])
            = {m \in Models : ModelOf(m) # None /\ ModelOf(m).provider = p}

(***************************************************************************)
(* A name leads to the resource that bears it: slug, adapter app ID and    *)
(* alias lookups, which adapters and gateways resolve routes with.         *)
(***************************************************************************)
LookupsExact ==
    /\ \A p \in Providers : ProviderOf(p) # None =>
        \A k \in providerLookups(ProviderOf(p)) :
            Exists(store[k]) /\ store[k].value = p
    /\ \A m \in Models : ModelOf(m) # None =>
        LET k == aliasKey(ModelOf(m).alias) IN
        Exists(store[k]) /\ store[k].value = m
    /\ \A s \in Slugs : Exists(store[slugKey(s)]) =>
        LET p == ProviderOf(store[slugKey(s)].value) IN p # None /\ p.slug = s
    /\ \A a \in Apps : Exists(store[appKey(a)]) =>
        LET p == ProviderOf(store[appKey(a)].value) IN p # None /\ p.app = a
    /\ \A a \in Aliases : Exists(store[aliasKey(a)]) =>
        LET m == ModelOf(store[aliasKey(a)].value) IN m # None /\ m.alias = a

(***************************************************************************)
(* "slug and adapter_app_id are unique" (docs/control-plane-api.md), and   *)
(* so are aliases.                                                         *)
(***************************************************************************)
UniqueNames ==
    /\ \A p, q \in Providers :
        ProviderOf(p) # None /\ ProviderOf(q) # None /\ p # q =>
            providerLookups(ProviderOf(p)) \cap providerLookups(ProviderOf(q)) = {}
    /\ \A m, n \in Models :
        ModelOf(m) # None /\ ModelOf(n) # None /\ m # n =>
            ModelOf(m).alias # ModelOf(n).alias
=============================================================================
