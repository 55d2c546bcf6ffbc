----------------------------- MODULE KeyRegistry -----------------------------
(***************************************************************************)
(* What the virtual-key control plane promises: keys and the subjects they *)
(* depend on (their user, their models) change one whole operation at a    *)
(* time.  A key is only written over subjects that can hold it, subjects   *)
(* only advance, and one that holds a key is never fenced.                 *)
(***************************************************************************)
EXTENDS Naturals

CONSTANTS
    Users, Models, Keys,
    Subject,    \* records [status, revision, deleted] a call may carry
    None

VARIABLES
    keys,       \* keys[k]: the virtual key, or None
    subjects    \* subjects[s]: the subject of user or model s, or None

vars == <<keys, subjects>>

Status == {"active", "disabled"}
Key == [user : Users, models : SUBSET Models, status : Status]

Holders(key) == {key.user} \cup key.models

CanHold(s, key) ==
    /\ subjects[s] # None
    /\ ~subjects[s].deleted
    /\ key.status = "active" => subjects[s].status = "active"

\* Creating and replacing a key ask the same.
PutKey(k, key) ==
    /\ key.models # {}
    /\ \A s \in Holders(key) : CanHold(s, key)
    /\ keys' = [keys EXCEPT ![k] = key]
    /\ UNCHANGED subjects

DropKey(k) ==
    /\ keys[k] # None
    /\ keys' = [keys EXCEPT ![k] = None]
    /\ UNCHANGED subjects

Advance(s, subject) ==
    /\ subjects[s] # None =>
          /\ subject.revision > subjects[s].revision
          /\ subjects[s].deleted => subject.deleted
    /\ subject.deleted =>
          \A k \in Keys : keys[k] # None => s \notin Holders(keys[k])
    /\ subjects' = [subjects EXCEPT ![s] = subject]
    /\ UNCHANGED keys

Init ==
    /\ keys = [k \in Keys |-> None]
    /\ subjects \in [Users \cup Models -> Subject \cup {None}]

Next ==
    \/ \E k \in Keys : DropKey(k) \/ \E key \in Key : PutKey(k, key)
    \/ \E s \in Users \cup Models : \E subject \in Subject : Advance(s, subject)

Spec == Init /\ [][Next]_vars
=============================================================================
