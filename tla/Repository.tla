------------------------------ MODULE Repository ------------------------------
(***************************************************************************)
(* How every repository works: a handler takes the repository's mutex,     *)
(* reads the keys it needs one by one, and runs one transaction computed   *)
(* from what it has read.  Which keys, in which order, which transaction   *)
(* and which mutex is for the repositories to say.                         *)
(***************************************************************************)
EXTENDS Store

CONSTANTS
    Handlers,   \* HTTP requests served at the same time
    Strays      \* bound: a place for each transaction whose caller goes away

VARIABLES
    store,      \* the state store, key by key
    issued,     \* the IDs NewID has handed out
    request     \* request[h]: the operation of a handler or of a stray

vars == <<store, issued, request>>

Idle == [phase |-> "idle"]
Landed == [phase |-> "landed"]

\* What an operation does, to which ID, the record the service loaded (old), the
\* record it wants (new), and the entries the repository has read (got).
Request(op, id, old, new) ==
    [phase |-> "loaded", op |-> op, id |-> id, old |-> old, new |-> new,
     got |-> [key \in {} |-> Absent]]

RepositoryInit(initial) ==
    /\ store = initial
    /\ issued = {}
    /\ request = [h \in Handlers \cup Strays |-> Idle]

\* The service hands a request over; it has not reached the mutex yet.
Arrive(h, r) ==
    /\ request[h] = Idle
    /\ request' = [request EXCEPT ![h] = r]
    /\ UNCHANGED store

Start(h, r) == Arrive(h, r) /\ UNCHANGED issued

\* A create, under an ID that NewID never returned before.
StartNew(h, r) ==
    /\ r.id \notin issued
    /\ issued' = issued \cup {r.id}
    /\ Arrive(h, r)

\* The handlers that hold a mutex.
InRepository == {h \in Handlers : request[h].phase = "reading"}

Lock(h) ==
    /\ request[h].phase = "loaded"
    /\ request' = [request EXCEPT ![h].phase = "reading"]
    /\ UNCHANGED <<store, issued>>

Read(h, key) ==
    /\ request[h].phase = "reading"
    /\ request' = [request EXCEPT ![h].got =
          [k \in DOMAIN @ \cup {key} |-> IF k = key THEN store[key] ELSE @[k]]]
    /\ UNCHANGED <<store, issued>>

\* The operation returns early or runs its transaction, and unlocks.
Commit(h, tx) ==
    /\ request[h].phase = "reading"
    /\ store' = Transact(store, tx)
    /\ request' = [request EXCEPT ![h] = Idle]
    /\ UNCHANGED issued

\* The request's context ends (time-out, client gone) while the transaction is
\* on its way: the mutex is released, the transaction may still arrive.
Abandon(h, g, tx) ==
    /\ request[h].phase = "reading"
    /\ DOMAIN tx # {}
    /\ request[g] = Idle
    /\ request' = [request EXCEPT ![g] = [request[h] EXCEPT !.phase = "late"],
                                  ![h] = Idle]
    /\ UNCHANGED <<store, issued>>

Land(g, tx) ==
    /\ request[g].phase = "late"
    /\ store' = Transact(store, tx)
    /\ request' = [request EXCEPT ![g] = Landed]
    /\ UNCHANGED issued
=============================================================================
