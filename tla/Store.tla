-------------------------------- MODULE Store --------------------------------
(***************************************************************************)
(* The key-value store behind every repository (state.Store).  Get returns *)
(* an entry with an ETag.  Transact applies a transaction, a function from *)
(* keys to operations, completely or not at all: only if every ETag given  *)
(* is still current.  An operation with no ETag is not checked, not even   *)
(* for the absence of its key.                                             *)
(***************************************************************************)
EXTENDS Naturals

\* The ETag Get reports for an absent key, and of an unchecked operation.
NoETag == 0

Absent == [etag |-> NoETag]
Entry(value, etag) == [value |-> value, etag |-> etag]
Exists(entry) == entry.etag # NoETag

\* Operations, transactions of one operation, and how transactions are joined.
Put(value, etag) == [type |-> "upsert", value |-> value, etag |-> etag]
Remove(etag) == [type |-> "delete", etag |-> etag]
Upsert(key, value, etag) == [k \in {key} |-> Put(value, etag)]
Delete(key, etag) == [k \in {key} |-> Remove(etag)]
NoOperation == [k \in {} |-> Remove(NoETag)]
tx ++ more ==
    [k \in DOMAIN tx \cup DOMAIN more |-> IF k \in DOMAIN tx THEN tx[k] ELSE more[k]]

\* Mutant of Current: ETags are not compared.
Unchecked(store, tx) == TRUE

\* Every ETag given is the one stored.
Current(store, tx) ==
    \A key \in DOMAIN tx :
        tx[key].etag = NoETag \/ tx[key].etag = store[key].etag

Applied(store, tx) ==
    [key \in DOMAIN store |->
        IF key \notin DOMAIN tx THEN store[key]
        ELSE IF tx[key].type = "delete" THEN Absent
        ELSE Entry(tx[key].value, store[key].etag + 1)]

Transact(store, tx) ==
    IF Current(store, tx) THEN Applied(store, tx) ELSE store

-----------------------------------------------------------------------------
\* An index is a set of IDs; a missing one is empty.
readIndex(entry) == IF Exists(entry) THEN entry.value ELSE {}
addIndexID(entry, id) == readIndex(entry) \cup {id}
removeIndexID(entry, id) == readIndex(entry) \ {id}

\* A unique name is free or already points to this resource.
NameFree(entry, id) == ~Exists(entry) \/ entry.value = id
=============================================================================
