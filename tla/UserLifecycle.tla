---------------------------- MODULE UserLifecycle ----------------------------
(***************************************************************************)
(* The life of a user across the two control planes.                       *)
(*                                                                         *)
(* The resource control plane (controlplane.ResourceService) keeps the     *)
(* canonical user in its private store; the virtual-key control plane      *)
(* keeps a revisioned projection of it, the KeySubject, that gateways      *)
(* authorize against.  The two stores cannot commit together: a POST, PUT  *)
(* or DELETE of a user is a saga of a store transaction and a remote call  *)
(* that may be lost, repeated, delayed or answered after the caller gave   *)
(* up.  userMu lets one saga run at a time; it is released when the saga   *)
(* ends, whatever has become of its call.                                  *)
(***************************************************************************)
EXTENDS Naturals

CONSTANTS
    Users,          \* the IDs platform.NewID can return
    Emails,         \* normalized email addresses
    Keys,           \* virtual keys
    None,           \* an absent store entry
    MaxRevision,    \* bound: PUTs stop at this revision ...
    MaxRepairs,     \* bound: ... and repeated PUTs this many revisions later
    MaxFaults       \* bound: sagas given up (time-out, store error, restart)

ASSUME BoundAssumption ==
    MaxRevision \in Nat /\ MaxRepairs \in Nat /\ MaxFaults \in Nat

VARIABLES
    users,          \* private store: users[u], None when there is no record
    userIndex,      \* private store: the "users" index
    emailLookup,    \* private store: the unique "user-email" lookups
    issued,         \* the IDs NewID has handed out
    subjects,       \* key store: subjects[u], None when there is no record
    keyOwner,       \* key store: the user a virtual key belongs to, or None
    sent,           \* every sync and fence call ever sent
    saga,           \* the operation that holds userMu
    faults,         \* sagas given up so far
    completed       \* history: revision of u's last write that ran to its end

storeVars == <<users, userIndex, emailLookup, issued>>
vars == <<storeVars, subjects, keyOwner, sent, saga, faults, completed>>

Status == {"active", "disabled"}
Revision == Nat \ {0}
User == [email : Emails, status : Status, revision : Revision]
KeySubject == [status : Status, revision : Revision, deleted : BOOLEAN]
Call == [user : Users, subject : KeySubject]

ASSUME NoneAssumption == None \notin Users \cup User \cup KeySubject

Idle == [phase |-> "idle"]
(***************************************************************************)
(* A saga is waiting for SyncSubject as its last step ("syncing") or as    *)
(* its first ("disabling"), is about to replace the record ("replacing"),  *)
(* is waiting for FenceSubject ("fencing") or is about to remove the       *)
(* record ("removing"). Its goal is the record it publishes.               *)
(***************************************************************************)
Saga == {Idle} \cup
    [phase : {"syncing", "disabling", "replacing", "fencing", "removing"},
     user  : Users,
     goal  : User]

Begin(phase, u, goal) == [phase |-> phase, user |-> u, goal |-> goal]

\* Mutant of subjectForUser: the revision counts from 0.
SubjectOffByOne(user, deleted) ==
    [status   |-> IF deleted THEN "disabled" ELSE user.status,
     revision |-> user.revision - 1,
     deleted  |-> deleted]

subjectForUser(user, deleted) ==
    [status   |-> IF deleted THEN "disabled" ELSE user.status,
     revision |-> user.revision,
     deleted  |-> deleted]

CallFor(u, user, deleted) ==
    [user |-> u, subject |-> subjectForUser(user, deleted)]

-----------------------------------------------------------------------------
(***************************************************************************)
(* The virtual-key control plane. One mutex covers each handler, so a      *)
(* handler is one step.                                                    *)
(***************************************************************************)

\* Mutants of compareSubjectUpdate: a stale update is accepted, ...
CompareStale(current, next) ==
    \/ current = None
    \/ next.revision # current.revision /\ (current.deleted => next.deleted)

\* ... a second payload for the stored revision is accepted, ...
CompareRevisionOnly(current, next) ==
    \/ current = None
    \/ next.revision >= current.revision

\* ... a revision that was never received stops all later ones, ...
CompareContiguous(current, next) ==
    \/ current = None
    \/ current = next
    \/ /\ next.revision = current.revision + 1
       /\ current.deleted => next.deleted

\* ... and a retry of the stored update is refused.
CompareNoRetry(current, next) ==
    \/ current = None
    \/ /\ next.revision > current.revision
       /\ current.deleted => next.deleted

\* The update is neither stale, nor a second payload for a known revision,
\* nor a reactivation; an update equal to the record is an idempotent retry.
compareSubjectUpdate(current, next) ==
    \/ current = None
    \/ current = next
    \/ /\ current # None
       /\ next.revision > current.revision
       /\ current.deleted => next.deleted

KeysOf(u) == {k \in Keys : keyOwner[k] = u}

SyncSubject(c, ok) ==
    /\ ~c.subject.deleted
    /\ ok <=> compareSubjectUpdate(subjects[c.user], c.subject)
    /\ subjects' = IF ok THEN [subjects EXCEPT ![c.user] = c.subject]
                         ELSE subjects

\* Mutant of FenceSubject: the per-user key index is not looked at.
FenceDespiteKeys(c, ok) ==
    /\ c.subject.deleted
    /\ ok <=> compareSubjectUpdate(subjects[c.user], c.subject)
    /\ subjects' = IF ok THEN [subjects EXCEPT ![c.user] = c.subject]
                         ELSE subjects

FenceSubject(c, ok) ==
    /\ c.subject.deleted
    /\ ok <=> /\ KeysOf(c.user) = {}
              /\ compareSubjectUpdate(subjects[c.user], c.subject)
    /\ subjects' = IF ok THEN [subjects EXCEPT ![c.user] = c.subject]
                         ELSE subjects

ensureSubjectCanOwnKey(u) == subjects[u] # None /\ ~subjects[u].deleted

\* CreateVirtualKey, or ReplaceVirtualKey with another owner.
AssignKey(k, u) ==
    /\ ensureSubjectCanOwnKey(u)
    /\ keyOwner[k] # u
    /\ keyOwner' = [keyOwner EXCEPT ![k] = u]
    /\ UNCHANGED <<storeVars, subjects, sent, saga, faults, completed>>

ReleaseKey(k) ==
    /\ keyOwner[k] # None
    /\ keyOwner' = [keyOwner EXCEPT ![k] = None]
    /\ UNCHANGED <<storeVars, subjects, sent, saga, faults, completed>>

\* A call reaches its handler again, late, or with nobody waiting for it.
Deliver(c) ==
    /\ \E ok \in BOOLEAN : SyncSubject(c, ok) \/ FenceSubject(c, ok)
    /\ UNCHANGED <<storeVars, keyOwner, sent, saga, faults, completed>>

-----------------------------------------------------------------------------
(***************************************************************************)
(* The resource control plane.                                             *)
(***************************************************************************)
CreateUser(u, email, status) ==
    LET user == [email |-> email, status |-> status, revision |-> 1] IN
    /\ saga = Idle
    /\ u \notin issued
    /\ emailLookup[email] = None
    /\ issued' = issued \cup {u}
    /\ users' = [users EXCEPT ![u] = user]
    /\ userIndex' = userIndex \cup {u}
    /\ emailLookup' = [emailLookup EXCEPT ![email] = u]
    /\ sent' = sent \cup {CallFor(u, user, FALSE)}
    /\ saga' = Begin("syncing", u, user)
    /\ UNCHANGED <<subjects, keyOwner, faults, completed>>

\* Mutant of updateUser: every PUT is sent before the record changes.
updateSyncFirst(u, email, status) ==
    LET goal == [email |-> email, status |-> status,
                 revision |-> users[u].revision + 1] IN
    /\ saga = Idle
    /\ users[u] # None
    /\ sent' = sent \cup {CallFor(u, goal, FALSE)}
    /\ saga' = Begin("disabling", u, goal)
    /\ UNCHANGED <<storeVars, subjects, keyOwner, faults, completed>>

\* updateUser up to its first remote call or store transaction: a revocation
\* is sent before the record changes, an activation afterwards.
updateUser(u, email, status) ==
    LET goal == [email |-> email, status |-> status,
                 revision |-> users[u].revision + 1] IN
    /\ saga = Idle
    /\ users[u] # None
    /\ IF status = "disabled"
       THEN /\ sent' = sent \cup {CallFor(u, goal, FALSE)}
            /\ saga' = Begin("disabling", u, goal)
       ELSE /\ sent' = sent
            /\ saga' = Begin("replacing", u, goal)
    /\ UNCHANGED <<storeVars, subjects, keyOwner, faults, completed>>

Update(u, email, status) ==
    /\ users[u] # None
    /\ users[u].revision < MaxRevision
    /\ updateUser(u, email, status)

InSync(u) == subjects[u] = subjectForUser(users[u], FALSE)
Tombstoned(u) == subjects[u] # None /\ subjects[u].deleted

\* The operator repeats the complete PUT of a user whose projection is behind.
RepeatPut(u) ==
    /\ users[u] # None
    /\ ~InSync(u)
    /\ users[u].revision < MaxRevision + MaxRepairs
    /\ updateUser(u, users[u].email, users[u].status)

deleteUser(u) ==
    LET fence == [users[u] EXCEPT !.revision = @ + 1] IN
    /\ saga = Idle
    /\ users[u] # None
    /\ sent' = sent \cup {CallFor(u, fence, TRUE)}
    /\ saga' = Begin("fencing", u, fence)
    /\ UNCHANGED <<storeVars, subjects, keyOwner, faults, completed>>

\* The saga's first or last SyncSubject is answered.
SyncAnswered ==
    /\ saga.phase \in {"syncing", "disabling"}
    /\ \E ok \in BOOLEAN :
        /\ SyncSubject(CallFor(saga.user, saga.goal, FALSE), ok)
        /\ saga' = IF ok /\ saga.phase = "disabling"
                   THEN [saga EXCEPT !.phase = "replacing"]
                   ELSE Idle
        /\ completed' = IF ok /\ saga.phase = "syncing"
                        THEN [completed EXCEPT ![saga.user] = saga.goal.revision]
                        ELSE completed
    /\ UNCHANGED <<storeVars, keyOwner, sent, faults>>

FenceAnswered ==
    /\ saga.phase = "fencing"
    /\ \E ok \in BOOLEAN :
        /\ FenceSubject(CallFor(saga.user, saga.goal, TRUE), ok)
        /\ saga' = IF ok THEN [saga EXCEPT !.phase = "removing"] ELSE Idle
    /\ UNCHANGED <<storeVars, keyOwner, sent, faults, completed>>

\* Mutant of EmailFree: a PUT does not check the unique lookup.
EmailUnchecked(u, email) == TRUE

EmailFree(u, email) == emailLookup[email] \in {None, u}

\* UserRepository.ReplaceUser commits; an active user is then synchronized.
ReplaceUser ==
    LET u == saga.user
        goal == saga.goal IN
    /\ saga.phase = "replacing"
    /\ EmailFree(u, goal.email)
    /\ users' = [users EXCEPT ![u] = goal]
    /\ emailLookup' = [e \in Emails |->
                          IF e = goal.email THEN u
                          ELSE IF e = users[u].email THEN None
                          ELSE emailLookup[e]]
    /\ IF goal.status = "active"
       THEN /\ sent' = sent \cup {CallFor(u, goal, FALSE)}
            /\ saga' = [saga EXCEPT !.phase = "syncing"]
            /\ completed' = completed
       ELSE /\ sent' = sent
            /\ saga' = Idle
            /\ completed' = [completed EXCEPT ![u] = goal.revision]
    /\ UNCHANGED <<userIndex, issued, subjects, keyOwner, faults>>

\* ReplaceUser answers ErrConflict: another user holds the email.
ReplaceConflict ==
    /\ saga.phase = "replacing"
    /\ ~EmailFree(saga.user, saga.goal.email)
    /\ saga' = Idle
    /\ UNCHANGED <<storeVars, subjects, keyOwner, sent, faults, completed>>

\* UserRepository.DeleteUser.
RemoveUser ==
    LET u == saga.user IN
    /\ saga.phase = "removing"
    /\ users' = [users EXCEPT ![u] = None]
    /\ userIndex' = userIndex \ {u}
    /\ emailLookup' = [emailLookup EXCEPT ![users[u].email] = None]
    /\ saga' = Idle
    /\ UNCHANGED <<issued, subjects, keyOwner, sent, faults, completed>>

\* The call times out, the store transaction fails, or the process restarts.
GiveUp ==
    /\ saga # Idle
    /\ faults < MaxFaults
    /\ faults' = faults + 1
    /\ saga' = Idle
    /\ UNCHANGED <<storeVars, subjects, keyOwner, sent, completed>>

-----------------------------------------------------------------------------
Init ==
    /\ users = [u \in Users |-> None]
    /\ userIndex = {}
    /\ emailLookup = [e \in Emails |-> None]
    /\ issued = {}
    /\ subjects = [u \in Users |-> None]
    /\ keyOwner = [k \in Keys |-> None]
    /\ sent = {}
    /\ saga = Idle
    /\ faults = 0
    /\ completed = [u \in Users |-> 0]

Next ==
    \/ \E u \in Users, e \in Emails, s \in Status :
        CreateUser(u, e, s) \/ Update(u, e, s)
    \/ \E u \in Users : RepeatPut(u) \/ deleteUser(u)
    \/ SyncAnswered \/ FenceAnswered
    \/ ReplaceUser \/ ReplaceConflict \/ RemoveUser
    \/ GiveUp
    \/ \E c \in sent : Deliver(c)
    \/ \E k \in Keys, u \in Users : AssignKey(k, u)
    \/ \E k \in Keys : ReleaseKey(k)

Spec == Init /\ [][Next]_vars

(***************************************************************************)
(* A handler that holds userMu runs on: its call is answered or times out, *)
(* its transaction returns.                                                *)
(***************************************************************************)
SagaFairness ==
    WF_vars(SyncAnswered \/ FenceAnswered
            \/ ReplaceUser \/ ReplaceConflict \/ RemoveUser)

\* The operator keeps repeating a PUT that left the projection behind, and a
\* DELETE that left a tombstone without removing the user.
RepairSpec ==
    /\ Spec
    /\ SagaFairness
    /\ \A u \in Users : SF_vars(RepeatPut(u))
    /\ \A u \in Users : SF_vars(deleteUser(u) /\ Tombstoned(u))

-----------------------------------------------------------------------------
\* The type of every variable; a revision is never 0 (validateSubjectPayload).
TypeOK ==
    /\ users \in [Users -> User \cup {None}]
    /\ userIndex \subseteq Users
    /\ emailLookup \in [Emails -> Users \cup {None}]
    /\ issued \subseteq Users
    /\ subjects \in [Users -> KeySubject \cup {None}]
    /\ keyOwner \in [Keys -> Users \cup {None}]
    /\ sent \subseteq Call
    /\ saga \in Saga
    /\ faults \in 0..MaxFaults
    /\ completed \in [Users -> Nat]

Authorized(u) == subjects[u] # None /\ subjects[u].status = "active"

(***************************************************************************)
(* Whatever call is lost, late or repeated and wherever a saga is given    *)
(* up, the projection lets a user in only if the canonical record does.    *)
(***************************************************************************)
NeverMorePermissive ==
    \A u \in Users :
        Authorized(u) => users[u] # None /\ users[u].status = "active"

(***************************************************************************)
(* No orphan: the owner of a virtual key still has its canonical record    *)
(* and a subject that is not a tombstone.                                  *)
(***************************************************************************)
OwnersExist ==
    \A k \in Keys : keyOwner[k] # None =>
        /\ users[keyOwner[k]] # None
        /\ ensureSubjectCanOwnKey(keyOwner[k])

\* Authorization sees u's record, or a restriction one revision later.
Projected(u) ==
    /\ subjects[u] # None
    /\ \/ InSync(u)
       \/ /\ subjects[u].revision = users[u].revision + 1
          /\ subjects[u].status = "disabled"

(***************************************************************************)
(* A write that answered success is still what authorization sees, unless  *)
(* an unfinished PUT or DELETE has since restricted the user further.      *)
(***************************************************************************)
CompletedIsProjected ==
    \A u \in Users :
        users[u] # None /\ completed[u] = users[u].revision => Projected(u)

(***************************************************************************)
(* The private store's index and unique lookups agree with its records.    *)
(***************************************************************************)
LookupsExact ==
    /\ userIndex = {u \in Users : users[u] # None}
    /\ \A e \in Emails, u \in Users :
        emailLookup[e] = u <=> users[u] # None /\ users[u].email = e

(***************************************************************************)
(* The projection never gets out of the reach of the next PUT or DELETE,   *)
(* whichever sagas were given up and whichever calls arrive late: it is    *)
(* ahead of the record by at most the one revision that those will use,    *)
(* and then only to restrict; and of a user who is gone a tombstone stays. *)
(***************************************************************************)
AheadOnlyToRestrict ==
    \A u \in Users : subjects[u] # None =>
        /\ users[u] = None => subjects[u].deleted
        /\ users[u] # None /\ subjects[u].revision > users[u].revision =>
              /\ subjects[u].revision = users[u].revision + 1
              /\ subjects[u].status = "disabled"

(***************************************************************************)
(* Repeating the complete PUT repairs a projection that fell behind.       *)
(***************************************************************************)
PutRepairs ==
    \A u \in Users :
        (users[u] # None /\ ~InSync(u))
            ~> (users[u] = None \/ InSync(u) \/ Tombstoned(u))

(***************************************************************************)
(* Once the fence is stored, repeating the DELETE removes the user.        *)
(***************************************************************************)
FenceDrains ==
    \A u \in Users : Tombstoned(u) ~> users[u] = None
=============================================================================
