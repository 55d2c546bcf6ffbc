----------------------------- MODULE VirtualKeys -----------------------------
(***************************************************************************)
(* VirtualKeyRepository over its store: virtual keys with their indexes,   *)
(* and the subjects (one per user, one per model) that authorize them.     *)
(*                                                                         *)
(* Every operation holds the repository's one mutex, but a transaction     *)
(* whose caller went away can still arrive while a later operation is      *)
(* reading.  What protects a fence against the keys written at the same    *)
(* time is that every key operation touches the ETag of the subjects of    *)
(* its user and of its models.                                             *)
(*                                                                         *)
(* KeySubject and ModelSubject, and the code that keeps them, differ in    *)
(* nothing that matters here: both are a subject.  The checks of           *)
(* normalizeInput are made again under the mutex and only there; payloads  *)
(* of SyncSubject and FenceSubject are arbitrary, so are their order and   *)
(* number.                                                                 *)
(***************************************************************************)
EXTENDS Naturals, Repository

CONSTANTS
    Users,          \* user IDs
    Models,         \* model IDs, numbers: the code visits them in order
    Keys,           \* the virtual-key IDs NewID can return
    None,           \* no record
    Bootstrapped,   \* the collection index and every subject exist already
    MaxRevision,    \* bound: revision of a subject
    MaxWrites       \* bound: PUTs of one key

ASSUME BoundAssumption ==
    /\ Models \subseteq Nat
    /\ Users \cap Models = {}
    /\ Bootstrapped \in BOOLEAN
    /\ MaxRevision \in Nat \ {0}
    /\ MaxWrites \in Nat

Subjects == Users \cup Models
Status == {"active", "disabled"}

\* Keys of the store.  The secret of a key is random, so its hash is its own.
virtualKeyKey(k) == <<"virtual-keys", k>>
hashLookupKey(k) == <<"key-hash", k>>
subjectKey(s) == <<IF s \in Users THEN "key-subjects" ELSE "model-subjects", s>>
virtualKeysByIndexKey(s) ==
    <<IF s \in Users THEN "virtual-keys-by-user" ELSE "virtual-keys-by-model", s>>
virtualKeysIndexKey == <<"index", "virtual-keys">>

StoreKeys ==
    {virtualKeyKey(k) : k \in Keys} \cup {hashLookupKey(k) : k \in Keys}
    \cup {subjectKey(s) : s \in Subjects}
    \cup {virtualKeysByIndexKey(s) : s \in Subjects}
    \cup {virtualKeysIndexKey}

\* What validateSubjectPayload accepts.
Subject ==
    {s \in [status : Status, revision : 1..MaxRevision, deleted : BOOLEAN] :
        s.deleted => s.status = "disabled"}

\* "writes" stands for UpdatedAt: no two versions of a key are equal.
VirtualKey ==
    [user : Users, models : (SUBSET Models) \ {{}}, status : Status, writes : Nat]

Holders(key) == {key.user} \cup key.models

ASSUME NoneAssumption ==
    None \notin Subject \cup [user : Users, models : SUBSET Models, status : Status]

-----------------------------------------------------------------------------
\* The subject and the index of each of the holders.
HolderKeys(holders) ==
    {subjectKey(s) : s \in holders} \cup {virtualKeysByIndexKey(s) : s \in holders}

\* The keys of the store an operation reads.
Reads(r) ==
    CASE r.op = "create" ->
            {virtualKeyKey(r.id), hashLookupKey(r.id), virtualKeysIndexKey}
            \cup HolderKeys(Holders(r.new))
      [] r.op = "replace" ->
            {virtualKeyKey(r.id), hashLookupKey(r.id)}
            \cup HolderKeys(Holders(r.old) \cup Holders(r.new))
      [] r.op = "delete" ->
            {virtualKeyKey(r.id), virtualKeysIndexKey}
            \cup HolderKeys(Holders(r.old))
      [] r.op = "sync" -> {subjectKey(r.id)}
      [] r.op = "fence" -> HolderKeys({r.id})

\* All operations read in the same order: the key, the users' subjects, subject
\* and index of one model after the other, the collection, the users' indexes.
Stage(key) ==
    CASE key[1] = "virtual-keys" -> 1
      [] key[1] = "key-hash" -> 2
      [] key[1] = "key-subjects" -> 3
      [] key[1] \in {"model-subjects", "virtual-keys-by-model"} -> 4
      [] key[1] = "index" -> 5
      [] key[1] = "virtual-keys-by-user" -> 6

\* A move to another user reads the former user's keys first.
Before(r, a, b) ==
    \/ Stage(a) < Stage(b)
    \/ /\ Stage(a) = 4 /\ Stage(b) = 4
       /\ \/ a[2] < b[2]
          \/ a[2] = b[2] /\ a[1] = "model-subjects" /\ b[1] = "virtual-keys-by-model"
    \/ /\ Stage(a) \in {3, 6} /\ Stage(a) = Stage(b)
       /\ a[2] = r.old.user /\ b[2] # r.old.user

Unread(r) == Reads(r) \ DOMAIN r.got

IsNext(r, key) == \A other \in Unread(r) \ {key} : ~Before(r, other, key)

-----------------------------------------------------------------------------
\* Mutant of ensureCanHold: the status is not looked at.
HoldDespiteStatus(entry, key) == Exists(entry) /\ ~entry.value.deleted

\* ensureSubjectCanOwnKey for the user, ensureModelCanBackKey for a model.
ensureCanHold(entry, key) ==
    /\ Exists(entry)
    /\ ~entry.value.deleted
    /\ key.status = "active" => entry.value.status = "active"

\* Mutant of compareSubjectUpdate: whatever arrives last is stored.
CompareNothing(entry, next) == TRUE

\* The payload is to be stored.  An older one and a different one of the same
\* revision are refused, the same one again changes nothing.
compareSubjectUpdate(entry, next) ==
    Exists(entry) =>
        /\ next.revision > entry.value.revision
        /\ entry.value.deleted => next.deleted

\* The operation writes the subject back unchanged, to claim its ETag.
subjectTouchOperation(entry) == Put(entry.value, entry.etag)

\* Rewrite the index of every subject involved: with the key when it holds the
\* key from now on, without it otherwise.
IndexOperations(r, holders, holdersAfter) ==
    [key \in {virtualKeysByIndexKey(s) : s \in holders} |->
        Put(IF key[2] \in holdersAfter THEN addIndexID(r.got[key], r.id)
            ELSE removeIndexID(r.got[key], r.id),
            r.got[key].etag)]

\* Mutant of HolderOperations: the subjects are not touched.
NoTouch(r, holders, holdersAfter) == IndexOperations(r, holders, holdersAfter)

\* Touch every subject involved and rewrite its index.
HolderOperations(r, holders, holdersAfter) ==
    [key \in {subjectKey(s) : s \in holders} |-> subjectTouchOperation(r.got[key])]
    ++ IndexOperations(r, holders, holdersAfter)

-----------------------------------------------------------------------------
(***************************************************************************)
(* The repository operations: the transaction each one computes from what  *)
(* it has read, or no operations at all when it returns an error first.    *)
(***************************************************************************)
CreateVirtualKey(r) ==
    LET index == r.got[virtualKeysIndexKey] IN
    IF /\ ~Exists(r.got[virtualKeyKey(r.id)])
       /\ ~Exists(r.got[hashLookupKey(r.id)])
       /\ \A s \in Holders(r.new) : ensureCanHold(r.got[subjectKey(s)], r.new)
    THEN
        Upsert(virtualKeyKey(r.id), r.new, NoETag)
        ++ Upsert(virtualKeysIndexKey, addIndexID(index, r.id), index.etag)
        ++ Upsert(hashLookupKey(r.id), r.id, NoETag)
        ++ HolderOperations(r, Holders(r.new), Holders(r.new))
    ELSE NoOperation

\* Models the key gives up must still be there.
ModelsReleasable(r, models) ==
    \A m \in models : LET entry == r.got[subjectKey(m)] IN
        Exists(entry) /\ ~entry.value.deleted

\* Mutant of Unchanged: the record may have changed since it was loaded.
NotCompared(r) == Exists(r.got[virtualKeyKey(r.id)])

\* The key is still the one the service loaded.
Unchanged(r) ==
    LET entity == r.got[virtualKeyKey(r.id)] IN
    Exists(entity) /\ entity.value = r.old

ReplaceVirtualKey(r) ==
    IF /\ Unchanged(r)
       /\ NameFree(r.got[hashLookupKey(r.id)], r.id)
       /\ Exists(r.got[subjectKey(r.old.user)])
       /\ \A s \in Holders(r.new) : ensureCanHold(r.got[subjectKey(s)], r.new)
       /\ ModelsReleasable(r, r.old.models \ r.new.models)
    THEN
        Upsert(virtualKeyKey(r.id), r.new, r.got[virtualKeyKey(r.id)].etag)
        ++ Upsert(hashLookupKey(r.id), r.id, NoETag)
        ++ HolderOperations(r, Holders(r.old) \cup Holders(r.new), Holders(r.new))
    ELSE NoOperation

DeleteVirtualKey(r) ==
    LET index == r.got[virtualKeysIndexKey] IN
    IF /\ Unchanged(r)
       /\ Exists(r.got[subjectKey(r.old.user)])
       /\ ModelsReleasable(r, r.old.models)
    THEN
        Delete(virtualKeyKey(r.id), r.got[virtualKeyKey(r.id)].etag)
        ++ Upsert(virtualKeysIndexKey, removeIndexID(index, r.id), index.etag)
        ++ Delete(hashLookupKey(r.id), NoETag)
        ++ HolderOperations(r, Holders(r.old), {})
    ELSE NoOperation

SyncSubject(r) ==
    LET current == r.got[subjectKey(r.id)] IN
    IF compareSubjectUpdate(current, r.new)
    THEN Upsert(subjectKey(r.id), r.new, current.etag)
    ELSE NoOperation

FenceSubject(r) ==
    IF readIndex(r.got[virtualKeysByIndexKey(r.id)]) = {}
    THEN SyncSubject(r)
    ELSE NoOperation

Transaction(r) ==
    CASE r.op = "create"  -> CreateVirtualKey(r)
      [] r.op = "replace" -> ReplaceVirtualKey(r)
      [] r.op = "delete"  -> DeleteVirtualKey(r)
      [] r.op = "sync"    -> SyncSubject(r)
      [] r.op = "fence"   -> FenceSubject(r)

-----------------------------------------------------------------------------
(***************************************************************************)
(* The service: PUT and DELETE load the key before the mutex is taken.     *)
(***************************************************************************)
StartCreate(h, k, user, models, status) ==
    StartNew(h, Request("create", k, None,
                        [user |-> user, models |-> models, status |-> status,
                         writes |-> 0]))

updateVirtualKey(h, k, user, models, status) ==
    LET entry == store[virtualKeyKey(k)] IN
    /\ Exists(entry)
    /\ entry.value.writes < MaxWrites
    /\ Start(h, Request("replace", k, entry.value,
                        [user |-> user, models |-> models, status |-> status,
                         writes |-> entry.value.writes + 1]))

deleteVirtualKey(h, k) ==
    LET entry == store[virtualKeyKey(k)] IN
    /\ Exists(entry)
    /\ Start(h, Request("delete", k, entry.value, None))

\* A call of the resource control plane; deleted subjects must be fenced.
CallArrives(h, s, subject) ==
    Start(h, Request(IF subject.deleted THEN "fence" ELSE "sync", s, None, subject))

-----------------------------------------------------------------------------
FirstSubject == [status |-> "active", revision |-> 1, deleted |-> FALSE]

Init ==
    RepositoryInit([k \in StoreKeys |->
          CASE Bootstrapped /\ k = virtualKeysIndexKey -> Entry({}, 1)
            [] Bootstrapped /\ \E s \in Subjects : k = subjectKey(s)
                   -> Entry(FirstSubject, 1)
            [] OTHER -> Absent])

StartNext(h) ==
    \/ \E k \in Keys, u \in Users, ms \in (SUBSET Models) \ {{}}, s \in Status :
        StartCreate(h, k, u, ms, s) \/ updateVirtualKey(h, k, u, ms, s)
    \/ \E k \in Keys : deleteVirtualKey(h, k)
    \/ \E s \in Subjects, subject \in Subject : CallArrives(h, s, subject)

\* Every operation holds the one mutex.
RepositoryNext ==
    \/ \E h \in Handlers :
        \/ InRepository = {} /\ Lock(h)
        \/ /\ request[h].phase = "reading"
           /\ \E key \in Unread(request[h]) : IsNext(request[h], key) /\ Read(h, key)
        \/ /\ request[h].phase = "reading" /\ Unread(request[h]) = {}
           /\ \/ Commit(h, Transaction(request[h]))
              \/ \E g \in Strays : Abandon(h, g, Transaction(request[h]))
    \/ \E g \in Strays :
        request[g].phase = "late" /\ Land(g, Transaction(request[g]))

Next ==
    \/ \E h \in Handlers : StartNext(h)
    \/ RepositoryNext

Spec == Init /\ [][Next]_vars

-----------------------------------------------------------------------------
KeyOf(k) ==
    IF Exists(store[virtualKeyKey(k)])
    THEN LET v == store[virtualKeyKey(k)].value IN
         [user |-> v.user, models |-> v.models, status |-> v.status]
    ELSE None

SubjectOf(s) ==
    IF Exists(store[subjectKey(s)]) THEN store[subjectKey(s)].value ELSE None

Abstract == INSTANCE KeyRegistry WITH
    keys <- [k \in Keys |-> KeyOf(k)],
    subjects <- [s \in Subjects |-> SubjectOf(s)]

(***************************************************************************)
(* The repository implements a registry whose operations are atomic, even  *)
(* when a transaction arrives after its caller has gone.                   *)
(***************************************************************************)
ImplementsKeyRegistry == Abstract!Spec

(***************************************************************************)
(* The collection index lists exactly the keys there are, the index of     *)
(* each user and of each model exactly the keys it holds, and a secret's   *)
(* hash leads to its key exactly while the key exists.                     *)
(***************************************************************************)
IndexesExact ==
    LET existing == {k \in Keys : Exists(store[virtualKeyKey(k)])} IN
    /\ readIndex(store[virtualKeysIndexKey]) = existing
    /\ \A s \in Subjects :
        readIndex(store[virtualKeysByIndexKey(s)])
            = {k \in existing : s \in Holders(KeyOf(k))}
    /\ \A k \in Keys : Exists(store[hashLookupKey(k)]) <=> k \in existing

(***************************************************************************)
(* The user and the models of every key have subjects that were not        *)
(* fenced (comment of FenceSubject: a concurrent create or move "either    *)
(* commits first and makes fencing conflict, or loses its CAS").           *)
(***************************************************************************)
HoldersLive ==
    \A k \in Keys : KeyOf(k) # None =>
        \A s \in Holders(KeyOf(k)) : SubjectOf(s) # None /\ ~SubjectOf(s).deleted

(***************************************************************************)
(* A stored subject only moves to a later revision, and a tombstone stays  *)
(* one: a user or model disabled by a later revision is not authorized     *)
(* again by an earlier one.                                                *)
(***************************************************************************)
SubjectsAdvance ==
    [][\A s \in Subjects : SubjectOf(s) # None /\ SubjectOf(s)' # SubjectOf(s) =>
        /\ SubjectOf(s)' # None
        /\ SubjectOf(s)'.revision > SubjectOf(s).revision
        /\ SubjectOf(s).deleted => SubjectOf(s)'.deleted]_vars
=============================================================================
