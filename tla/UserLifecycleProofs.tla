------------------------- MODULE UserLifecycleProofs -------------------------
(***************************************************************************)
(* Proofs about UserLifecycle, for any users, emails, keys and bounds.     *)
(***************************************************************************)
EXTENDS UserLifecycle, TLAPS

-----------------------------------------------------------------------------
(***************************************************************************)
(* The inductive invariant.  Authorization depends on what calls may still *)
(* arrive, so the invariant speaks of every call ever sent.                *)
(***************************************************************************)

\* A subject is the payload of some call.
SubjectsWereSent ==
    \A u \in Users : subjects[u] # None =>
        [user |-> u, subject |-> subjects[u]] \in sent

\* An ID that was not handed out is unknown to both stores and to every call.
UnissuedUnknown ==
    \A u \in Users : u \notin issued =>
        /\ users[u] = None
        /\ completed[u] = 0
        /\ \A c \in sent : c.user # u

\* A user is removed only behind a tombstone.
GoneIsFenced ==
    \A u \in Users : u \in issued /\ users[u] = None => Tombstoned(u)

\* What the calls carry, measured against the canonical record: a revocation
\* may be one revision ahead of it, an activation never.
CallsBounded ==
    \A c \in sent :
        /\ c.subject.deleted => c.subject.status = "disabled"
        /\ users[c.user] # None =>
            /\ c.subject.revision <= users[c.user].revision + 1
            /\ c.subject.status = "active" =>
                /\ c.subject.revision <= users[c.user].revision
                /\ c.subject.revision = users[c.user].revision =>
                        users[c.user].status = "active"

\* A disabled user whose activation may still be under way is protected by a
\* subject that is at least as recent as the record.
DisabledIsShielded ==
    \A c \in sent :
        /\ c.subject.status = "active"
        /\ users[c.user] # None
        /\ users[c.user].status = "disabled"
        => /\ subjects[c.user] # None
           /\ subjects[c.user].revision >= users[c.user].revision

\* What the saga that holds userMu has achieved so far.
SagaProgress ==
    saga # Idle =>
        LET u == saga.user
            goal == saga.goal IN
        /\ u \in issued
        /\ users[u] # None
        /\ saga.phase = "syncing" =>
            /\ users[u] = goal
            /\ CallFor(u, goal, FALSE) \in sent
        /\ saga.phase = "disabling" =>
            /\ goal.status = "disabled"
            /\ goal.revision = users[u].revision + 1
            /\ CallFor(u, goal, FALSE) \in sent
        /\ saga.phase = "replacing" =>
            /\ goal.revision = users[u].revision + 1
            /\ goal.status = "disabled" =>
                    subjects[u] = subjectForUser(goal, FALSE)
        /\ saga.phase = "fencing" =>
            /\ goal.revision = users[u].revision + 1
            /\ CallFor(u, goal, TRUE) \in sent
        /\ saga.phase = "removing" => Tombstoned(u)

\* A key's owner can own keys.
OwnersCanOwn ==
    \A k \in Keys : keyOwner[k] # None => ensureSubjectCanOwnKey(keyOwner[k])

\* No write completes ahead of the record.
CompletedBounded ==
    \A u \in Users : users[u] # None => completed[u] <= users[u].revision

ProtocolInv ==
    /\ TypeOK
    /\ SubjectsWereSent
    /\ UnissuedUnknown
    /\ GoneIsFenced
    /\ CallsBounded
    /\ DisabledIsShielded
    /\ SagaProgress
    /\ OwnersCanOwn
    /\ CompletedBounded
    /\ CompletedIsProjected
    /\ LookupsExact

-----------------------------------------------------------------------------
(***************************************************************************)
(* Every step keeps the types, whatever the protocol has done so far.      *)
(***************************************************************************)
LEMMA TypeInit == Init => TypeOK
  BY BoundAssumption DEF Init, TypeOK, Saga

\* The subject a handler leaves: the one it found or the one it was sent.
LEMMA HandlerType ==
  ASSUME TypeOK, NEW c \in Call, NEW ok \in BOOLEAN,
         SyncSubject(c, ok) \/ FenceSubject(c, ok)
  PROVE  subjects' \in [Users -> KeySubject \cup {None}]
  BY DEF TypeOK, SyncSubject, FenceSubject, Call

LEMMA Projection ==
  ASSUME NEW user \in User, NEW deleted \in BOOLEAN
  PROVE  /\ subjectForUser(user, deleted) \in KeySubject
         /\ subjectForUser(user, deleted) # None
         /\ subjectForUser(user, deleted).revision = user.revision
         /\ subjectForUser(user, deleted).deleted = deleted
<1>1. subjectForUser(user, deleted) \in KeySubject
  BY DEF subjectForUser, KeySubject, User, Status
<1>2. subjectForUser(user, deleted) # None
  BY <1>1, NoneAssumption
<1> QED
  BY <1>1, <1>2 DEF subjectForUser

LEMMA CallType ==
  ASSUME NEW u \in Users, NEW user \in User, NEW deleted \in BOOLEAN
  PROVE  CallFor(u, user, deleted) \in Call
  BY DEF CallFor, subjectForUser, Call, KeySubject, User, Status

LEMMA TypeStep == TypeOK /\ [Next]_vars => TypeOK'
<1> SUFFICES ASSUME TypeOK, [Next]_vars PROVE TypeOK'
  OBVIOUS
<1> USE DEF storeVars
<1>1. ASSUME NEW u \in Users, NEW e \in Emails, NEW s \in Status,
             CreateUser(u, e, s)
      PROVE  TypeOK'
  <2>1. [email |-> e, status |-> s, revision |-> 1] \in User
    BY DEF User, Revision
  <2>2. CallFor(u, [email |-> e, status |-> s, revision |-> 1], FALSE) \in Call
    BY <2>1, CallType
  <2>3. saga' \in Saga
    BY <1>1, <2>1 DEF CreateUser, Begin, Saga
  <2> QED
    BY <1>1, <2>1, <2>2, <2>3 DEF CreateUser, TypeOK
<1>2. ASSUME NEW u \in Users, NEW e \in Emails, NEW s \in Status,
             updateUser(u, e, s)
      PROVE  TypeOK'
  <2> DEFINE goal == [email |-> e, status |-> s,
                      revision |-> users[u].revision + 1]
  <2>1. goal \in User
    BY <1>2 DEF updateUser, TypeOK, User, Revision
  <2>2. CallFor(u, goal, FALSE) \in Call
    BY <2>1, CallType
  <2>3. saga' \in Saga
    <3>1. saga' = Begin("disabling", u, goal) \/ saga' = Begin("replacing", u, goal)
      BY <1>2 DEF updateUser
    <3> HIDE DEF goal
    <3> QED
      BY <2>1, <3>1 DEF Begin, Saga
  <2>4. sent' \subseteq Call
    BY <1>2, <2>2 DEF updateUser, TypeOK
  <2> QED
    BY <1>2, <2>3, <2>4 DEF updateUser, TypeOK
<1>14. ASSUME NEW u \in Users, RepeatPut(u) PROVE TypeOK'
  <2>1. users[u].email \in Emails /\ users[u].status \in Status
    BY <1>14 DEF RepeatPut, TypeOK, User
  <2> QED
    BY <1>2, <1>14, <2>1 DEF RepeatPut
<1>3. ASSUME NEW u \in Users, deleteUser(u) PROVE TypeOK'
  <2> DEFINE fence == [users[u] EXCEPT !.revision = @ + 1]
  <2>1. fence \in User
    BY <1>3 DEF deleteUser, TypeOK, User, Revision
  <2>2. CallFor(u, fence, TRUE) \in Call
    BY <2>1, CallType
  <2>3. saga' \in Saga
    BY <1>3, <2>1 DEF deleteUser, Begin, Saga
  <2> QED
    BY <1>3, <2>2, <2>3 DEF deleteUser, TypeOK
<1>4. CASE SyncAnswered
  <2>1. PICK ok \in BOOLEAN :
            /\ SyncSubject(CallFor(saga.user, saga.goal, FALSE), ok)
            /\ saga' = IF ok /\ saga.phase = "disabling"
                       THEN [saga EXCEPT !.phase = "replacing"]
                       ELSE Idle
            /\ completed' = IF ok /\ saga.phase = "syncing"
                            THEN [completed EXCEPT ![saga.user] = saga.goal.revision]
                            ELSE completed
    BY <1>4 DEF SyncAnswered
  <2>2. saga.user \in Users /\ saga.goal \in User
    BY <1>4 DEF SyncAnswered, TypeOK, Saga, Idle
  <2>3. CallFor(saga.user, saga.goal, FALSE) \in Call
    BY <2>2, CallType
  <2>4. subjects' \in [Users -> KeySubject \cup {None}]
    BY <2>1, <2>3, HandlerType
  <2>5. saga' \in Saga
    BY <1>4, <2>1 DEF SyncAnswered, TypeOK, Saga, Idle
  <2>6. completed' \in [Users -> Nat]
    BY <2>1, <2>2 DEF TypeOK, User, Revision
  <2> QED
    BY <1>4, <2>4, <2>5, <2>6 DEF SyncAnswered, TypeOK
<1>5. CASE FenceAnswered
  <2>1. PICK ok \in BOOLEAN :
            /\ FenceSubject(CallFor(saga.user, saga.goal, TRUE), ok)
            /\ saga' = IF ok THEN [saga EXCEPT !.phase = "removing"] ELSE Idle
    BY <1>5 DEF FenceAnswered
  <2>2. saga.user \in Users /\ saga.goal \in User
    BY <1>5 DEF FenceAnswered, TypeOK, Saga, Idle
  <2>3. CallFor(saga.user, saga.goal, TRUE) \in Call
    BY <2>2, CallType
  <2>4. subjects' \in [Users -> KeySubject \cup {None}]
    BY <2>1, <2>3, HandlerType
  <2>5. saga' \in Saga
    BY <1>5, <2>1 DEF FenceAnswered, TypeOK, Saga, Idle
  <2> QED
    BY <1>5, <2>4, <2>5 DEF FenceAnswered, TypeOK
<1>6. CASE ReplaceUser
  <2>1. saga.user \in Users /\ saga.goal \in User
    BY <1>6 DEF ReplaceUser, TypeOK, Saga, Idle
  <2>2. CallFor(saga.user, saga.goal, FALSE) \in Call
    BY <2>1, CallType
  <2>3. saga' \in Saga
    <3>1. saga' = Idle \/ saga' = [saga EXCEPT !.phase = "syncing"]
      BY <1>6 DEF ReplaceUser
    <3>2. [saga EXCEPT !.phase = "syncing"] \in Saga
      BY <1>6 DEF ReplaceUser, TypeOK, Saga, Idle
    <3> QED
      BY <3>1, <3>2 DEF Saga
  <2>4. sent' \subseteq Call /\ completed' \in [Users -> Nat]
    BY <1>6, <2>1, <2>2 DEF ReplaceUser, TypeOK, User, Revision
  <2>5. /\ users' \in [Users -> User \cup {None}]
        /\ emailLookup' \in [Emails -> Users \cup {None}]
    BY <1>6, <2>1 DEF ReplaceUser, TypeOK
  <2> QED
    BY <1>6, <2>3, <2>4, <2>5 DEF ReplaceUser, TypeOK
<1>7. CASE ReplaceConflict
  BY <1>7 DEF ReplaceConflict, TypeOK, Saga
<1>8. CASE RemoveUser
  BY <1>8 DEF RemoveUser, TypeOK, Saga
<1>9. CASE GiveUp
  BY <1>9, BoundAssumption DEF GiveUp, TypeOK, Saga
<1>10. ASSUME NEW c \in sent, Deliver(c) PROVE TypeOK'
  <2>1. subjects' \in [Users -> KeySubject \cup {None}]
    BY <1>10, HandlerType DEF Deliver, TypeOK
  <2> QED
    BY <1>10, <2>1 DEF Deliver, TypeOK
<1>11. ASSUME NEW k \in Keys, NEW u \in Users, AssignKey(k, u) PROVE TypeOK'
  BY <1>11 DEF AssignKey, TypeOK
<1>12. ASSUME NEW k \in Keys, ReleaseKey(k) PROVE TypeOK'
  BY <1>12 DEF ReleaseKey, TypeOK
<1>13. CASE UNCHANGED vars
  BY <1>13 DEF vars, TypeOK
<1> QED
  BY <1>1, <1>2, <1>14, <1>3, <1>4, <1>5, <1>6, <1>7, <1>8, <1>9, <1>10,
     <1>11, <1>12, <1>13 DEF Next, Update

(***************************************************************************)
(* Types hold in every reachable state: in particular no record and no     *)
(* subject ever has revision 0, and the fault bound is respected.          *)
(***************************************************************************)
THEOREM TypeCorrect == Spec => []TypeOK
  BY TypeInit, TypeStep, PTL DEF Spec

-----------------------------------------------------------------------------
(***************************************************************************)
(* What a handler can do to the subjects: nothing, or store the payload of *)
(* the call over no record or over an older one.                           *)
(***************************************************************************)
LEMMA HandlerEffect ==
  ASSUME TypeOK, NEW c \in Call, NEW ok \in BOOLEAN,
         SyncSubject(c, ok) \/ FenceSubject(c, ok)
  PROVE  /\ ok => subjects'[c.user] = c.subject
         /\ \A u \in Users : subjects'[u] # subjects[u] =>
              /\ u = c.user
              /\ subjects'[u] = c.subject
              /\ subjects'[u] # None
              /\ c.subject.deleted => KeysOf(u) = {}
              /\ subjects[u] # None =>
                    /\ c.subject.revision > subjects[u].revision
                    /\ subjects[u].deleted => c.subject.deleted
<1>1. c.user \in Users /\ c.subject \in KeySubject /\ c.subject # None
  BY NoneAssumption DEF Call
<1>2. ok => subjects'[c.user] = c.subject
  BY <1>1 DEF SyncSubject, FenceSubject, TypeOK
<1>3. ASSUME NEW u \in Users, subjects'[u] # subjects[u]
      PROVE  ok /\ u = c.user
  BY <1>1, <1>3 DEF SyncSubject, FenceSubject, TypeOK
<1>4. ok => compareSubjectUpdate(subjects[c.user], c.subject)
  BY DEF SyncSubject, FenceSubject
<1>5. ok /\ c.subject.deleted => KeysOf(c.user) = {}
  BY DEF SyncSubject, FenceSubject
<1> QED
  BY <1>1, <1>2, <1>3, <1>4, <1>5 DEF compareSubjectUpdate

\* A subject at the record's revision or later can only become one revision
\* more recent, and disabled.
LEMMA RecentSubject ==
  ASSUME ProtocolInv, NEW c \in sent, NEW ok \in BOOLEAN,
         SyncSubject(c, ok) \/ FenceSubject(c, ok),
         NEW u \in Users, users[u] # None, subjects[u] # None,
         subjects[u].revision >= users[u].revision,
         subjects'[u] # subjects[u]
  PROVE  /\ subjects[u].revision = users[u].revision
         /\ subjects'[u] # None
         /\ subjects'[u].revision = users[u].revision + 1
         /\ subjects'[u].status = "disabled"
<1>1. c \in Call
  BY DEF ProtocolInv, TypeOK
<1>2. u = c.user /\ subjects'[u] = c.subject /\ subjects'[u] # None
      /\ c.subject.revision > subjects[u].revision
  BY <1>1, HandlerEffect DEF ProtocolInv
<1>3. /\ c.subject.revision <= users[u].revision + 1
      /\ c.subject.status = "active" => c.subject.revision <= users[u].revision
  BY <1>2 DEF ProtocolInv, CallsBounded
<1>4. /\ c.subject.revision \in Nat /\ c.subject.status \in Status
      /\ subjects[u].revision \in Nat /\ users[u].revision \in Nat
  BY <1>1 DEF ProtocolInv, TypeOK, Call, KeySubject, User, Revision
<1> QED
  BY <1>2, <1>3, <1>4 DEF Status

(***************************************************************************)
(* A handler that runs, for the saga or for nobody, keeps every part of    *)
(* the invariant that does not mention the saga.                           *)
(***************************************************************************)
LEMMA HandlerStep ==
  ASSUME ProtocolInv, NEW c \in sent, NEW ok \in BOOLEAN,
         SyncSubject(c, ok) \/ FenceSubject(c, ok),
         UNCHANGED <<storeVars, sent, keyOwner>>
  PROVE  /\ SubjectsWereSent' /\ GoneIsFenced' /\ CallsBounded'
         /\ DisabledIsShielded' /\ OwnersCanOwn' /\ LookupsExact'
         /\ \A u \in Users : Tombstoned(u) => Tombstoned(u)'
<1> USE DEF storeVars
<1>1. c \in Call /\ c.user \in Users
  BY DEF ProtocolInv, TypeOK, Call
<1>2. \A u \in Users : subjects'[u] # subjects[u] =>
              /\ u = c.user
              /\ subjects'[u] = c.subject
              /\ subjects'[u] # None
              /\ c.subject.deleted => KeysOf(u) = {}
              /\ subjects[u] # None =>
                    /\ c.subject.revision > subjects[u].revision
                    /\ subjects[u].deleted => c.subject.deleted
  BY <1>1, HandlerEffect DEF ProtocolInv
<1>3. SubjectsWereSent'
  <2> SUFFICES ASSUME NEW u \in Users, subjects'[u] # None
               PROVE  [user |-> u, subject |-> subjects'[u]] \in sent
    BY DEF SubjectsWereSent
  <2>1. CASE subjects'[u] = subjects[u]
    BY <2>1 DEF ProtocolInv, SubjectsWereSent
  <2>2. CASE subjects'[u] # subjects[u]
    <3>1. c = [user |-> c.user, subject |-> c.subject]
      BY <1>1 DEF Call
    <3> QED
      BY <2>2, <1>2, <3>1
  <2> QED
    BY <2>1, <2>2
<1>4. \A u \in Users : Tombstoned(u) => Tombstoned(u)'
  BY <1>2 DEF Tombstoned
<1>5. GoneIsFenced'
  BY <1>4 DEF ProtocolInv, GoneIsFenced, Tombstoned
<1>6. CallsBounded'
  BY DEF ProtocolInv, CallsBounded
<1>7. DisabledIsShielded'
  <2> SUFFICES ASSUME NEW d \in sent, d.subject.status = "active",
                      users[d.user] # None, users[d.user].status = "disabled"
               PROVE  /\ subjects'[d.user] # None
                      /\ subjects'[d.user].revision >= users[d.user].revision
    BY DEF DisabledIsShielded
  <2>1. d.user \in Users
    BY DEF ProtocolInv, TypeOK, Call
  <2>2. /\ subjects[d.user] # None
        /\ subjects[d.user].revision >= users[d.user].revision
    BY DEF ProtocolInv, DisabledIsShielded
  <2>3. users[d.user].revision \in Nat
    BY <2>1 DEF ProtocolInv, TypeOK, User, Revision
  <2> QED
    BY <2>1, <2>2, <2>3, RecentSubject
<1>8. OwnersCanOwn'
  <2> SUFFICES ASSUME NEW k \in Keys, keyOwner[k] # None
               PROVE  ensureSubjectCanOwnKey(keyOwner[k])'
    BY DEF OwnersCanOwn
  <2>1. keyOwner[k] \in Users
    BY DEF ProtocolInv, TypeOK
  <2>2. ensureSubjectCanOwnKey(keyOwner[k])
    BY DEF ProtocolInv, OwnersCanOwn
  <2>3. CASE subjects'[keyOwner[k]] = subjects[keyOwner[k]]
    BY <2>2, <2>3 DEF ensureSubjectCanOwnKey
  <2>4. CASE subjects'[keyOwner[k]] # subjects[keyOwner[k]]
    BY <2>1, <2>4, <1>2 DEF ensureSubjectCanOwnKey, KeysOf
  <2> QED
    BY <2>3, <2>4
<1>9. LookupsExact'
  BY DEF ProtocolInv, LookupsExact
<1> QED
  BY <1>3, <1>4, <1>5, <1>6, <1>7, <1>8, <1>9

\* A completed write stays visible to authorization until restricted.
LEMMA ProjectedStep ==
  ASSUME ProtocolInv, NEW c \in sent, NEW ok \in BOOLEAN,
         SyncSubject(c, ok) \/ FenceSubject(c, ok), UNCHANGED users,
         NEW u \in Users, users[u] # None, completed[u] = users[u].revision
  PROVE  Projected(u)'
<1>1. Projected(u)
  BY DEF ProtocolInv, CompletedIsProjected
<1>2. users[u] \in User /\ users[u].revision \in Nat
  BY DEF ProtocolInv, TypeOK, User, Revision
<1>3. subjects[u] # None /\ subjects[u].revision >= users[u].revision
  <2>1. subjectForUser(users[u], FALSE).revision = users[u].revision
    BY <1>2, Projection
  <2>2. \/ subjects[u].revision = users[u].revision
        \/ subjects[u].revision = users[u].revision + 1
    BY <1>1, <2>1 DEF Projected, InSync
  <2> QED
    BY <1>1, <1>2, <2>2 DEF Projected
<1>4. CASE subjects'[u] = subjects[u]
  BY <1>1, <1>4 DEF Projected, InSync
<1>5. CASE subjects'[u] # subjects[u]
  BY <1>3, <1>5, RecentSubject DEF Projected
<1> QED
  BY <1>4, <1>5

\* The parts of the invariant that a handler can disturb through the saga or
\* the history, when it answers nobody.
LEMMA DeliverStep ==
  ASSUME ProtocolInv, NEW c \in sent, Deliver(c)
  PROVE  ProtocolInv'
<1> USE DEF storeVars
<1>1. PICK ok \in BOOLEAN : SyncSubject(c, ok) \/ FenceSubject(c, ok)
  BY DEF Deliver
<1>2. UNCHANGED <<storeVars, keyOwner, sent, saga, faults, completed>>
  BY DEF Deliver
<1>3. TypeOK'
  BY TypeStep DEF ProtocolInv, Next
<1>4. /\ SubjectsWereSent' /\ GoneIsFenced' /\ CallsBounded'
      /\ DisabledIsShielded' /\ OwnersCanOwn' /\ LookupsExact'
      /\ \A u \in Users : Tombstoned(u) => Tombstoned(u)'
  BY <1>1, <1>2, HandlerStep
<1>5. UnissuedUnknown' /\ CompletedBounded'
  BY <1>2 DEF ProtocolInv, UnissuedUnknown, CompletedBounded
<1>6. SagaProgress'
  <2> SUFFICES ASSUME saga # Idle PROVE SagaProgress'
    BY <1>2 DEF SagaProgress
  <2>1. saga.user \in Users /\ saga.goal \in User
    BY DEF ProtocolInv, TypeOK, Saga
  <2>2. saga.phase = "replacing" /\ saga.goal.status = "disabled"
            => subjects'[saga.user] = subjects[saga.user]
    <3> SUFFICES ASSUME saga.phase = "replacing", saga.goal.status = "disabled"
                 PROVE  subjects'[saga.user] = subjects[saga.user]
      OBVIOUS
    <3>1. /\ users[saga.user] # None
          /\ saga.goal.revision = users[saga.user].revision + 1
          /\ subjects[saga.user] = subjectForUser(saga.goal, FALSE)
      BY DEF ProtocolInv, SagaProgress
    <3>2. users[saga.user].revision \in Nat
      BY <2>1, <3>1 DEF ProtocolInv, TypeOK, User, Revision
    <3>3. /\ subjects[saga.user] # None
          /\ subjects[saga.user].revision = users[saga.user].revision + 1
      BY <2>1, <3>1, Projection
    <3>4. /\ subjects[saga.user].revision >= users[saga.user].revision
          /\ subjects[saga.user].revision # users[saga.user].revision
      BY <3>2, <3>3
    <3>5. ASSUME subjects'[saga.user] # subjects[saga.user]
          PROVE  subjects[saga.user].revision = users[saga.user].revision
      BY <1>1, <2>1, <3>1, <3>3, <3>4, <3>5, RecentSubject
    <3> QED
      BY <3>4, <3>5
  <2>3. saga.phase = "removing" => Tombstoned(saga.user)'
    BY <1>2, <1>4, <2>1 DEF ProtocolInv, SagaProgress
  <2> QED
    BY <1>2, <2>2, <2>3 DEF ProtocolInv, SagaProgress
<1>7. CompletedIsProjected'
  <2> SUFFICES ASSUME NEW u \in Users, users[u] # None,
                      completed[u] = users[u].revision
               PROVE  Projected(u)'
    BY <1>2 DEF CompletedIsProjected
  <2> QED
    BY <1>1, <1>2, ProjectedStep
<1> QED
  BY <1>3, <1>4, <1>5, <1>6, <1>7 DEF ProtocolInv

(***************************************************************************)
(* A saga step that is an answer is a delivery of the saga's own call that *)
(* also moves the saga.                                                    *)
(***************************************************************************)
LEMMA SyncAnsweredStep == ProtocolInv /\ SyncAnswered => ProtocolInv'
<1> SUFFICES ASSUME ProtocolInv, SyncAnswered PROVE ProtocolInv'
  OBVIOUS
<1> USE DEF storeVars
<1> DEFINE u == saga.user
           goal == saga.goal
           c == CallFor(u, goal, FALSE)
<1>1. PICK ok \in BOOLEAN :
        /\ SyncSubject(c, ok)
        /\ saga' = IF ok /\ saga.phase = "disabling"
                   THEN [saga EXCEPT !.phase = "replacing"]
                   ELSE Idle
        /\ completed' = IF ok /\ saga.phase = "syncing"
                        THEN [completed EXCEPT ![u] = goal.revision]
                        ELSE completed
  BY DEF SyncAnswered
<1>2. saga # Idle /\ saga.phase \in {"syncing", "disabling"}
      /\ UNCHANGED <<storeVars, keyOwner, sent, faults>>
  BY DEF SyncAnswered, Idle
<1>3. /\ u \in Users /\ goal \in User /\ goal.revision \in Nat
      /\ saga \in [phase : {"syncing", "disabling", "replacing", "fencing", "removing"},
                   user : Users, goal : User]
  BY <1>2 DEF ProtocolInv, TypeOK, Saga, User, Revision
<1>4. c \in sent /\ c \in Call /\ u \in issued /\ users[u] # None
  BY <1>2 DEF ProtocolInv, SagaProgress, TypeOK
<1>5. TypeOK'
  BY TypeStep DEF ProtocolInv, Next
<1>6. /\ SubjectsWereSent' /\ GoneIsFenced' /\ CallsBounded'
      /\ DisabledIsShielded' /\ OwnersCanOwn' /\ LookupsExact'
  BY <1>1, <1>2, <1>4, HandlerStep
<1>7. ok => subjects'[u] = subjectForUser(goal, FALSE)
  BY <1>1, <1>4, HandlerEffect DEF ProtocolInv, CallFor
<1>8. saga.phase = "syncing" => users[u] = goal
  BY <1>2 DEF ProtocolInv, SagaProgress
<1>9. saga.phase = "disabling" =>
        goal.status = "disabled" /\ goal.revision = users[u].revision + 1
  BY <1>2 DEF ProtocolInv, SagaProgress
<1>10. UnissuedUnknown'
  BY <1>1, <1>2, <1>3, <1>4 DEF ProtocolInv, UnissuedUnknown, TypeOK
<1>11. CompletedBounded'
  BY <1>1, <1>2, <1>3, <1>8 DEF ProtocolInv, CompletedBounded, TypeOK
<1>12. SagaProgress'
  <2>1. CASE ok /\ saga.phase = "disabling"
    <3>1. saga'.phase = "replacing" /\ saga'.user = u /\ saga'.goal = goal
      BY <1>1, <1>3, <2>1
    <3> QED
      BY <1>2, <1>4, <1>7, <1>9, <2>1, <3>1 DEF SagaProgress
  <2>2. CASE ~(ok /\ saga.phase = "disabling")
    BY <1>1, <2>2 DEF SagaProgress
  <2> QED
    BY <2>1, <2>2
<1>13. CompletedIsProjected'
  <2> SUFFICES ASSUME NEW v \in Users, users[v] # None,
                      completed'[v] = users[v].revision
               PROVE  Projected(v)'
    BY <1>2 DEF CompletedIsProjected
  <2>1. CASE ok /\ saga.phase = "syncing" /\ v = u
    BY <1>2, <1>3, <1>7, <1>8, <2>1, Projection DEF Projected, InSync
  <2>2. CASE ~(ok /\ saga.phase = "syncing" /\ v = u)
    <3>1. completed[v] = users[v].revision
      BY <1>1, <2>2 DEF ProtocolInv, TypeOK
    <3> HIDE DEF c
    <3> QED
      BY <1>1, <1>2, <1>4, <3>1, ProjectedStep
  <2> QED
    BY <2>1, <2>2
<1> QED
  BY <1>5, <1>6, <1>10, <1>11, <1>12, <1>13 DEF ProtocolInv

LEMMA FenceAnsweredStep == ProtocolInv /\ FenceAnswered => ProtocolInv'
<1> SUFFICES ASSUME ProtocolInv, FenceAnswered PROVE ProtocolInv'
  OBVIOUS
<1> USE DEF storeVars
<1> DEFINE u == saga.user
           c == CallFor(u, saga.goal, TRUE)
<1>1. PICK ok \in BOOLEAN :
        /\ FenceSubject(c, ok)
        /\ saga' = IF ok THEN [saga EXCEPT !.phase = "removing"] ELSE Idle
  BY DEF FenceAnswered
<1>2. saga # Idle /\ saga.phase = "fencing"
      /\ UNCHANGED <<storeVars, keyOwner, sent, faults, completed>>
  BY DEF FenceAnswered, Idle
<1>3. /\ u \in Users /\ saga.goal \in User
      /\ saga \in [phase : {"syncing", "disabling", "replacing", "fencing", "removing"},
                   user : Users, goal : User]
  BY <1>2 DEF ProtocolInv, TypeOK, Saga
<1>4. c \in sent /\ c \in Call /\ u \in issued /\ users[u] # None
  BY <1>2 DEF ProtocolInv, SagaProgress, TypeOK
<1>5. TypeOK'
  BY TypeStep DEF ProtocolInv, Next
<1>6. /\ SubjectsWereSent' /\ GoneIsFenced' /\ CallsBounded'
      /\ DisabledIsShielded' /\ OwnersCanOwn' /\ LookupsExact'
  BY <1>1, <1>2, <1>4, HandlerStep
<1>7. UnissuedUnknown' /\ CompletedBounded'
  BY <1>2 DEF ProtocolInv, UnissuedUnknown, CompletedBounded
<1>8. SagaProgress'
  <2>1. CASE ok
    <3>1. subjects'[u] = subjectForUser(saga.goal, TRUE)
      BY <1>1, <1>4, <2>1, HandlerEffect DEF ProtocolInv, CallFor
    <3>2. saga'.phase = "removing" /\ saga'.user = u
      BY <1>1, <1>3, <2>1
    <3>3. subjects'[u] # None /\ subjects'[u].deleted
      BY <1>3, <3>1, Projection
    <3> QED
      BY <1>2, <1>4, <3>2, <3>3 DEF SagaProgress, Tombstoned
  <2>2. CASE ~ok
    BY <1>1, <2>2 DEF SagaProgress
  <2> QED
    BY <2>1, <2>2
<1>9. CompletedIsProjected'
  <2> SUFFICES ASSUME NEW v \in Users, users[v] # None,
                      completed[v] = users[v].revision
               PROVE  Projected(v)'
    BY <1>2 DEF CompletedIsProjected
  <2> HIDE DEF c
  <2> QED
    BY <1>1, <1>2, <1>4, ProjectedStep
<1> QED
  BY <1>5, <1>6, <1>7, <1>8, <1>9 DEF ProtocolInv

-----------------------------------------------------------------------------
(***************************************************************************)
(* A call is added to those sent while the records stay as they are: the   *)
(* start of a disabling PUT and of a DELETE.                               *)
(***************************************************************************)
LEMMA RestrictionSent ==
  ASSUME ProtocolInv, NEW u \in Users, users[u] # None,
         NEW c \in Call, c.user = u, c.subject.status = "disabled",
         c.subject.revision = users[u].revision + 1,
         sent' = sent \cup {c},
         UNCHANGED <<storeVars, subjects, keyOwner, completed>>
  PROVE  /\ SubjectsWereSent' /\ UnissuedUnknown' /\ GoneIsFenced'
         /\ CallsBounded' /\ DisabledIsShielded' /\ OwnersCanOwn'
         /\ CompletedBounded' /\ CompletedIsProjected' /\ LookupsExact'
<1> USE DEF storeVars
<1>1. u \in issued
  BY DEF ProtocolInv, UnissuedUnknown
<1>2. users[u].revision \in Nat
  BY DEF ProtocolInv, TypeOK, User, Revision
<1>3. SubjectsWereSent' /\ GoneIsFenced' /\ OwnersCanOwn'
  BY DEF ProtocolInv, SubjectsWereSent, GoneIsFenced, Tombstoned,
         OwnersCanOwn, ensureSubjectCanOwnKey
<1>4. UnissuedUnknown'
  BY <1>1 DEF ProtocolInv, UnissuedUnknown
<1>5. CallsBounded'
  BY <1>2 DEF ProtocolInv, CallsBounded
<1>6. DisabledIsShielded'
  BY DEF ProtocolInv, DisabledIsShielded
<1>7. CompletedBounded'
  BY DEF ProtocolInv, CompletedBounded
<1>8. CompletedIsProjected'
  BY DEF ProtocolInv, CompletedIsProjected, Projected, InSync
<1>9. LookupsExact'
  BY DEF ProtocolInv, LookupsExact
<1> QED
  BY <1>3, <1>4, <1>5, <1>6, <1>7, <1>8, <1>9

\* A step that moves only the saga.
LEMMA SagaOnly ==
  ASSUME ProtocolInv,
         UNCHANGED <<storeVars, subjects, keyOwner, sent, completed>>
  PROVE  /\ SubjectsWereSent' /\ UnissuedUnknown' /\ GoneIsFenced'
         /\ CallsBounded' /\ DisabledIsShielded' /\ OwnersCanOwn'
         /\ CompletedBounded' /\ CompletedIsProjected' /\ LookupsExact'
<1> USE DEF storeVars
<1>1. SubjectsWereSent' /\ GoneIsFenced' /\ OwnersCanOwn'
  BY DEF ProtocolInv, SubjectsWereSent, GoneIsFenced, Tombstoned,
         OwnersCanOwn, ensureSubjectCanOwnKey
<1>2. UnissuedUnknown'
  BY DEF ProtocolInv, UnissuedUnknown
<1>3. CallsBounded' /\ DisabledIsShielded'
  BY DEF ProtocolInv, CallsBounded, DisabledIsShielded
<1>4. CompletedBounded'
  BY DEF ProtocolInv, CompletedBounded
<1>5. CompletedIsProjected'
  BY DEF ProtocolInv, CompletedIsProjected, Projected, InSync
<1>6. LookupsExact'
  BY DEF ProtocolInv, LookupsExact
<1> QED
  BY <1>1, <1>2, <1>3, <1>4, <1>5, <1>6

LEMMA UpdateStep ==
  ASSUME ProtocolInv, NEW u \in Users, NEW e \in Emails, NEW s \in Status,
         updateUser(u, e, s), TypeOK'
  PROVE  ProtocolInv'
<1> USE DEF storeVars
<1> DEFINE goal == [email |-> e, status |-> s,
                    revision |-> users[u].revision + 1]
<1>1. users[u] # None /\ u \in issued /\ goal \in User
      /\ UNCHANGED <<storeVars, subjects, keyOwner, faults, completed>>
  BY DEF updateUser, ProtocolInv, UnissuedUnknown, TypeOK, User, Revision
<1>2. CASE s = "disabled"
  <2> DEFINE c == CallFor(u, goal, FALSE)
  <2>1. sent' = sent \cup {c} /\ saga' = Begin("disabling", u, goal)
    BY <1>2 DEF updateUser
  <2>2. c \in Call /\ c.user = u /\ c.subject.status = "disabled"
        /\ c.subject.revision = users[u].revision + 1
    <3>1. c \in Call
      BY <1>1, CallType
    <3> QED
      BY <1>2, <3>1 DEF CallFor, subjectForUser
  <2>3. SagaProgress'
    BY <1>1, <1>2, <2>1 DEF SagaProgress, Begin
  <2> HIDE DEF c
  <2>4. /\ SubjectsWereSent' /\ UnissuedUnknown' /\ GoneIsFenced'
        /\ CallsBounded' /\ DisabledIsShielded' /\ OwnersCanOwn'
        /\ CompletedBounded' /\ CompletedIsProjected' /\ LookupsExact'
    BY <1>1, <2>1, <2>2, RestrictionSent
  <2> QED
    BY <2>3, <2>4 DEF ProtocolInv
<1>3. CASE s = "active"
  <2>1. sent' = sent /\ saga' = Begin("replacing", u, goal)
    BY <1>3 DEF updateUser
  <2>2. SagaProgress'
    BY <1>1, <1>3, <2>1 DEF SagaProgress, Begin
  <2>3. /\ SubjectsWereSent' /\ UnissuedUnknown' /\ GoneIsFenced'
        /\ CallsBounded' /\ DisabledIsShielded' /\ OwnersCanOwn'
        /\ CompletedBounded' /\ CompletedIsProjected' /\ LookupsExact'
    BY <1>1, <2>1, SagaOnly
  <2> QED
    BY <2>2, <2>3 DEF ProtocolInv
<1> QED
  BY <1>2, <1>3 DEF Status

LEMMA DeleteStep ==
  ASSUME ProtocolInv, NEW u \in Users, deleteUser(u), TypeOK'
  PROVE  ProtocolInv'
<1> USE DEF storeVars
<1> DEFINE fence == [users[u] EXCEPT !.revision = @ + 1]
           c == CallFor(u, fence, TRUE)
<1>1. users[u] # None /\ u \in issued /\ users[u] \in User
      /\ UNCHANGED <<storeVars, subjects, keyOwner, faults, completed>>
  BY DEF deleteUser, ProtocolInv, UnissuedUnknown, TypeOK
<1>2. fence \in User /\ fence.revision = users[u].revision + 1
  BY <1>1 DEF User, Revision
<1>3. sent' = sent \cup {c} /\ saga' = Begin("fencing", u, fence)
  BY DEF deleteUser
<1> HIDE DEF fence
<1>4. c \in Call /\ c.user = u /\ c.subject.status = "disabled"
      /\ c.subject.revision = users[u].revision + 1
  <2>1. c \in Call
    BY <1>2, CallType
  <2> QED
    BY <1>2, <2>1 DEF CallFor, subjectForUser
<1>5. SagaProgress'
  BY <1>1, <1>2, <1>3 DEF SagaProgress, Begin
<1> HIDE DEF c
<1>6. /\ SubjectsWereSent' /\ UnissuedUnknown' /\ GoneIsFenced'
      /\ CallsBounded' /\ DisabledIsShielded' /\ OwnersCanOwn'
      /\ CompletedBounded' /\ CompletedIsProjected' /\ LookupsExact'
  BY <1>1, <1>3, <1>4, RestrictionSent
<1> QED
  BY <1>5, <1>6 DEF ProtocolInv

LEMMA CreateStep ==
  ASSUME ProtocolInv, NEW u \in Users, NEW e \in Emails, NEW s \in Status,
         CreateUser(u, e, s), TypeOK'
  PROVE  ProtocolInv'
<1> USE DEF storeVars
<1> DEFINE user == [email |-> e, status |-> s, revision |-> 1]
           c == CallFor(u, user, FALSE)
<1>1. /\ u \notin issued /\ issued' = issued \cup {u}
      /\ emailLookup[e] = None
      /\ users' = [users EXCEPT ![u] = user]
      /\ userIndex' = userIndex \cup {u}
      /\ emailLookup' = [emailLookup EXCEPT ![e] = u]
      /\ sent' = sent \cup {c}
      /\ saga' = Begin("syncing", u, user)
      /\ UNCHANGED <<subjects, keyOwner, faults, completed>>
  BY DEF CreateUser
<1>2. user \in User /\ user # None
  BY NoneAssumption DEF User, Revision
<1>3. users[u] = None /\ completed[u] = 0 /\ \A d \in sent : d.user # u
  BY <1>1 DEF ProtocolInv, UnissuedUnknown
<1>4. /\ users'[u] = user
      /\ \A v \in Users : v # u => users'[v] = users[v]
  BY <1>1 DEF ProtocolInv, TypeOK
<1>5. c.user = u /\ c.subject.revision = 1 /\ c.subject.status = s
      /\ c.subject.deleted = FALSE
  BY DEF CallFor, subjectForUser
<1>6. \A d \in sent : d.user \in Users /\ d.user # u
  BY <1>3 DEF ProtocolInv, TypeOK, Call
<1>7. SagaProgress'
  BY <1>1, <1>2, <1>4 DEF SagaProgress, Begin
<1>8. user.revision = 1 /\ user.status = s /\ user.email = e
  OBVIOUS
<1> HIDE DEF user, c
<1>9. SubjectsWereSent'
  BY <1>1 DEF ProtocolInv, SubjectsWereSent
<1>10. UnissuedUnknown'
  BY <1>1, <1>4, <1>5 DEF ProtocolInv, UnissuedUnknown
<1>11. GoneIsFenced'
  BY <1>1, <1>2, <1>4 DEF ProtocolInv, GoneIsFenced, Tombstoned
<1>12. CallsBounded'
  <2> SUFFICES ASSUME NEW d \in sent'
               PROVE  /\ d.subject.deleted => d.subject.status = "disabled"
                      /\ users'[d.user] # None =>
                          /\ d.subject.revision <= users'[d.user].revision + 1
                          /\ d.subject.status = "active" =>
                              /\ d.subject.revision <= users'[d.user].revision
                              /\ d.subject.revision = users'[d.user].revision =>
                                      users'[d.user].status = "active"
    BY DEF CallsBounded
  <2>1. CASE d \in sent
    BY <1>4, <1>6, <2>1 DEF ProtocolInv, CallsBounded
  <2>2. CASE d = c
    BY <1>4, <1>5, <1>8, <2>2
  <2> QED
    BY <1>1, <2>1, <2>2
<1>13. DisabledIsShielded'
  <2> SUFFICES ASSUME NEW d \in sent', d.subject.status = "active",
                      users'[d.user] # None, users'[d.user].status = "disabled"
               PROVE  /\ subjects'[d.user] # None
                      /\ subjects'[d.user].revision >= users'[d.user].revision
    BY DEF DisabledIsShielded
  <2>1. CASE d \in sent
    BY <1>1, <1>4, <1>6, <2>1 DEF ProtocolInv, DisabledIsShielded
  <2>2. CASE d = c
    BY <1>4, <1>5, <1>8, <2>2
  <2> QED
    BY <1>1, <2>1, <2>2
<1>14. OwnersCanOwn'
  BY <1>1 DEF ProtocolInv, OwnersCanOwn, ensureSubjectCanOwnKey
<1>15. CompletedBounded'
  BY <1>1, <1>3, <1>4, <1>8 DEF ProtocolInv, CompletedBounded
<1>16. CompletedIsProjected'
  <2> SUFFICES ASSUME NEW v \in Users, users'[v] # None,
                      completed'[v] = users'[v].revision
               PROVE  Projected(v)'
    BY DEF CompletedIsProjected
  <2>1. v # u
    BY <1>1, <1>3, <1>4, <1>8
  <2>2. Projected(v)
    BY <1>1, <1>4, <2>1 DEF ProtocolInv, CompletedIsProjected
  <2> QED
    BY <1>1, <1>4, <2>1, <2>2 DEF Projected, InSync
<1>17. LookupsExact'
  <2>1. userIndex' = {v \in Users : users'[v] # None}
    BY <1>1, <1>2, <1>4 DEF ProtocolInv, LookupsExact
  <2>2. ASSUME NEW f \in Emails, NEW v \in Users
        PROVE  emailLookup'[f] = v <=> users'[v] # None /\ users'[v].email = f
    BY <1>1, <1>2, <1>3, <1>4, <1>8, NoneAssumption
    DEF ProtocolInv, LookupsExact, TypeOK
  <2> QED
    BY <2>1, <2>2 DEF LookupsExact
<1> QED
  BY <1>7, <1>9, <1>10, <1>11, <1>12, <1>13, <1>14, <1>15, <1>16, <1>17
  DEF ProtocolInv

LEMMA ReplaceStep == ProtocolInv /\ ReplaceUser /\ TypeOK' => ProtocolInv'
<1> SUFFICES ASSUME ProtocolInv, ReplaceUser, TypeOK' PROVE ProtocolInv'
  OBVIOUS
<1> USE DEF storeVars
<1> DEFINE u == saga.user
           goal == saga.goal
           c == CallFor(u, goal, FALSE)
<1>1. /\ saga.phase = "replacing" /\ EmailFree(u, goal.email)
      /\ users' = [users EXCEPT ![u] = goal]
      /\ emailLookup' = [f \in Emails |->
                            IF f = goal.email THEN u
                            ELSE IF f = users[u].email THEN None
                            ELSE emailLookup[f]]
      /\ UNCHANGED <<userIndex, issued, subjects, keyOwner, faults>>
  BY DEF ReplaceUser
<1>2. \/ /\ goal.status = "active"
         /\ sent' = sent \cup {c}
         /\ saga' = [saga EXCEPT !.phase = "syncing"]
         /\ completed' = completed
      \/ /\ goal.status # "active"
         /\ sent' = sent
         /\ saga' = Idle
         /\ completed' = [completed EXCEPT ![u] = goal.revision]
  BY DEF ReplaceUser
<1>3. saga # Idle
  BY <1>1 DEF Idle
<1>4. /\ u \in Users /\ goal \in User
      /\ saga \in [phase : {"syncing", "disabling", "replacing", "fencing", "removing"},
                   user : Users, goal : User]
  BY <1>3 DEF ProtocolInv, TypeOK, Saga
<1>5. /\ u \in issued /\ users[u] # None
      /\ goal.revision = users[u].revision + 1
      /\ goal.status = "disabled" => subjects[u] = subjectForUser(goal, FALSE)
  BY <1>1, <1>3 DEF ProtocolInv, SagaProgress
<1>6. /\ users[u] \in User /\ users[u].revision \in Nat /\ goal # None
      /\ goal.status \in {"active", "disabled"} /\ goal.email \in Emails
  BY <1>4, <1>5, NoneAssumption
  DEF ProtocolInv, TypeOK, User, Revision, Status
<1>7. /\ users'[u] = goal
      /\ \A v \in Users : v # u => users'[v] = users[v]
  BY <1>1, <1>4 DEF ProtocolInv, TypeOK
<1>8. c.user = u /\ c.subject.revision = goal.revision
      /\ c.subject.status = goal.status /\ c.subject.deleted = FALSE
  BY DEF CallFor, subjectForUser
<1>9. \A d \in sent : d \in Call /\ d.user \in Users /\ d.subject.revision \in Nat
  BY DEF ProtocolInv, TypeOK, Call, KeySubject, Revision
<1>10. SagaProgress'
  <2>1. CASE goal.status = "active"
    <3>1. saga'.phase = "syncing" /\ saga'.user = u /\ saga'.goal = goal
      BY <1>2, <1>4, <2>1
    <3> QED
      BY <1>1, <1>2, <1>5, <1>6, <1>7, <2>1, <3>1 DEF SagaProgress
  <2>2. CASE goal.status # "active"
    BY <1>2, <2>2 DEF SagaProgress
  <2> QED
    BY <2>1, <2>2
<1> HIDE DEF u, goal, c
<1>11. SubjectsWereSent'
  BY <1>1, <1>2 DEF ProtocolInv, SubjectsWereSent
<1>12. UnissuedUnknown'
  BY <1>1, <1>2, <1>4, <1>5, <1>7, <1>8
  DEF ProtocolInv, UnissuedUnknown, TypeOK
<1>13. GoneIsFenced'
  BY <1>1, <1>6, <1>7 DEF ProtocolInv, GoneIsFenced, Tombstoned
<1>14. CallsBounded'
  <2> SUFFICES ASSUME NEW d \in sent'
               PROVE  /\ d.subject.deleted => d.subject.status = "disabled"
                      /\ users'[d.user] # None =>
                          /\ d.subject.revision <= users'[d.user].revision + 1
                          /\ d.subject.status = "active" =>
                              /\ d.subject.revision <= users'[d.user].revision
                              /\ d.subject.revision = users'[d.user].revision =>
                                      users'[d.user].status = "active"
    BY DEF CallsBounded
  <2>1. CASE d \in sent /\ d.user # u
    BY <1>7, <1>9, <2>1 DEF ProtocolInv, CallsBounded
  <2>2. CASE d \in sent /\ d.user = u
    <3>1. /\ d.subject.deleted => d.subject.status = "disabled"
          /\ d.subject.revision <= users[u].revision + 1
          /\ d.subject.status = "active" =>
                d.subject.revision <= users[u].revision
      BY <1>5, <2>2 DEF ProtocolInv, CallsBounded
    <3> QED
      BY <1>5, <1>6, <1>7, <1>9, <2>2, <3>1
  <2>3. CASE d = c /\ goal.status = "active"
    BY <1>5, <1>6, <1>7, <1>8, <2>3
  <2> QED
    BY <1>2, <2>1, <2>2, <2>3
<1>15. DisabledIsShielded'
  <2> SUFFICES ASSUME NEW d \in sent', d.subject.status = "active",
                      users'[d.user] # None, users'[d.user].status = "disabled"
               PROVE  /\ subjects'[d.user] # None
                      /\ subjects'[d.user].revision >= users'[d.user].revision
    BY DEF DisabledIsShielded
  <2>1. d \in sent
    BY <1>2, <1>7, <1>8
  <2>2. CASE d.user # u
    BY <1>1, <1>7, <1>9, <2>1, <2>2 DEF ProtocolInv, DisabledIsShielded
  <2>3. CASE d.user = u
    <3>1. subjects[u] # None /\ subjects[u].revision = goal.revision
      BY <1>4, <1>5, <1>7, <2>3, Projection
    <3> QED
      BY <1>1, <1>5, <1>6, <1>7, <2>3, <3>1
  <2> QED
    BY <2>2, <2>3
<1>16. OwnersCanOwn'
  BY <1>1 DEF ProtocolInv, OwnersCanOwn, ensureSubjectCanOwnKey
<1>17. \A v \in Users : completed'[v] # completed[v] =>
            v = u /\ goal.status = "disabled"
  BY <1>2, <1>6 DEF ProtocolInv, TypeOK
<1>18. completed[u] \in Nat /\ completed[u] <= users[u].revision
  BY <1>4, <1>5 DEF ProtocolInv, CompletedBounded, TypeOK
<1>19. CompletedBounded'
  <2> SUFFICES ASSUME NEW v \in Users, users'[v] # None
               PROVE  completed'[v] <= users'[v].revision
    BY DEF CompletedBounded
  <2>1. CASE v = u
    BY <1>2, <1>4, <1>5, <1>6, <1>7, <1>18, <2>1 DEF ProtocolInv, TypeOK
  <2>2. CASE v # u
    BY <1>7, <1>17, <2>2 DEF ProtocolInv, CompletedBounded
  <2> QED
    BY <2>1, <2>2
<1>20. CompletedIsProjected'
  <2> SUFFICES ASSUME NEW v \in Users, users'[v] # None,
                      completed'[v] = users'[v].revision
               PROVE  Projected(v)'
    BY DEF CompletedIsProjected
  <2>1. CASE v = u
    <3>1. goal.status = "disabled"
      BY <1>5, <1>6, <1>7, <1>17, <1>18, <2>1
    <3> QED
      BY <1>1, <1>4, <1>5, <1>7, <2>1, <3>1, Projection DEF Projected, InSync
  <2>2. CASE v # u
    <3>1. Projected(v)
      BY <1>7, <1>17, <2>2 DEF ProtocolInv, CompletedIsProjected
    <3> QED
      BY <1>1, <1>7, <2>2, <3>1 DEF Projected, InSync
  <2> QED
    BY <2>1, <2>2
<1>21. LookupsExact'
  <2>1. userIndex' = {v \in Users : users'[v] # None}
    BY <1>1, <1>5, <1>6, <1>7 DEF ProtocolInv, LookupsExact
  <2>2. ASSUME NEW f \in Emails, NEW v \in Users
        PROVE  emailLookup'[f] = v <=> users'[v] # None /\ users'[v].email = f
    <3>1. /\ emailLookup[f] = v <=> users[v] # None /\ users[v].email = f
          /\ emailLookup[f] = u <=> users[u] # None /\ users[u].email = f
          /\ emailLookup[goal.email] = v
                <=> users[v] # None /\ users[v].email = goal.email
      BY <1>4, <1>6 DEF ProtocolInv, LookupsExact
    <3>2. emailLookup[goal.email] \in {None, u}
      BY <1>1 DEF EmailFree
    <3>3. emailLookup'[f] = IF f = goal.email THEN u
                            ELSE IF f = users[u].email THEN None
                            ELSE emailLookup[f]
      BY <1>1
    <3>4. None # v
      BY NoneAssumption
    <3> QED
      BY <1>4, <1>5, <1>6, <1>7, <3>1, <3>2, <3>3, <3>4
  <2> QED
    BY <2>1, <2>2 DEF LookupsExact
<1> QED
  BY <1>10, <1>11, <1>12, <1>13, <1>14, <1>15, <1>16, <1>19, <1>20, <1>21
  DEF ProtocolInv

LEMMA RemoveStep == ProtocolInv /\ RemoveUser /\ TypeOK' => ProtocolInv'
<1> SUFFICES ASSUME ProtocolInv, RemoveUser, TypeOK' PROVE ProtocolInv'
  OBVIOUS
<1> DEFINE u == saga.user
<1>1. /\ saga.phase = "removing"
      /\ users' = [users EXCEPT ![u] = None]
      /\ userIndex' = userIndex \ {u}
      /\ emailLookup' = [emailLookup EXCEPT ![users[u].email] = None]
      /\ saga' = Idle
      /\ UNCHANGED <<issued, subjects, keyOwner, sent, faults, completed>>
  BY DEF RemoveUser
<1>2. u \in Users /\ u \in issued /\ users[u] # None /\ Tombstoned(u)
  BY <1>1 DEF ProtocolInv, TypeOK, Saga, Idle, SagaProgress
<1>3. /\ users'[u] = None
      /\ \A v \in Users : v # u => users'[v] = users[v]
  BY <1>1, <1>2 DEF ProtocolInv, TypeOK
<1>4. \A d \in sent : d.user \in Users
  BY DEF ProtocolInv, TypeOK, Call
<1>5. SagaProgress'
  BY <1>1 DEF SagaProgress
<1> HIDE DEF u
<1>6. SubjectsWereSent'
  BY <1>1 DEF ProtocolInv, SubjectsWereSent
<1>7. UnissuedUnknown'
  BY <1>1, <1>2, <1>3 DEF ProtocolInv, UnissuedUnknown
<1>8. GoneIsFenced'
  BY <1>1, <1>2, <1>3 DEF ProtocolInv, GoneIsFenced, Tombstoned
<1>9. CallsBounded'
  BY <1>1, <1>3, <1>4 DEF ProtocolInv, CallsBounded
<1>10. DisabledIsShielded'
  BY <1>1, <1>3, <1>4 DEF ProtocolInv, DisabledIsShielded
<1>11. OwnersCanOwn'
  BY <1>1 DEF ProtocolInv, OwnersCanOwn, ensureSubjectCanOwnKey
<1>12. CompletedBounded'
  BY <1>1, <1>3 DEF ProtocolInv, CompletedBounded
<1>13. CompletedIsProjected'
  <2> SUFFICES ASSUME NEW v \in Users, users'[v] # None,
                      completed'[v] = users'[v].revision
               PROVE  Projected(v)'
    BY DEF CompletedIsProjected
  <2>1. users'[v] = users[v]
    BY <1>3
  <2>2. Projected(v)
    BY <1>1, <2>1 DEF ProtocolInv, CompletedIsProjected
  <2> QED
    BY <1>1, <2>1, <2>2 DEF Projected, InSync
<1>14. LookupsExact'
  <2>1. userIndex' = {v \in Users : users'[v] # None}
    BY <1>1, <1>2, <1>3 DEF ProtocolInv, LookupsExact
  <2>2. ASSUME NEW f \in Emails, NEW v \in Users
        PROVE  emailLookup'[f] = v <=> users'[v] # None /\ users'[v].email = f
    <3>1. /\ emailLookup[f] = v <=> users[v] # None /\ users[v].email = f
          /\ emailLookup[f] = u <=> users[u] # None /\ users[u].email = f
      BY <1>2 DEF ProtocolInv, LookupsExact
    <3>2. emailLookup'[f] = IF f = users[u].email THEN None ELSE emailLookup[f]
      BY <1>1 DEF ProtocolInv, TypeOK
    <3>3. None # v
      BY NoneAssumption
    <3> QED
      BY <1>2, <1>3, <3>1, <3>2, <3>3
  <2> QED
    BY <2>1, <2>2 DEF LookupsExact
<1> QED
  BY <1>5, <1>6, <1>7, <1>8, <1>9, <1>10, <1>11, <1>12, <1>13, <1>14
  DEF ProtocolInv

\* A saga that ends without a further effect: ReplaceConflict and GiveUp.
LEMMA AbortStep ==
  ASSUME ProtocolInv, TypeOK', saga' = Idle,
         UNCHANGED <<storeVars, subjects, keyOwner, sent, completed>>
  PROVE  ProtocolInv'
<1>1. SagaProgress'
  BY DEF SagaProgress
<1> QED
  BY <1>1, SagaOnly DEF ProtocolInv

\* AssignKey and ReleaseKey.
LEMMA KeyStep ==
  ASSUME ProtocolInv, TypeOK', NEW k \in Keys, NEW o \in Users \cup {None},
         keyOwner' = [keyOwner EXCEPT ![k] = o],
         o # None => ensureSubjectCanOwnKey(o),
         UNCHANGED <<storeVars, subjects, sent, saga, faults, completed>>
  PROVE  ProtocolInv'
<1> USE DEF storeVars
<1>1. OwnersCanOwn'
  BY DEF ProtocolInv, OwnersCanOwn, ensureSubjectCanOwnKey, TypeOK
<1>2. SubjectsWereSent' /\ UnissuedUnknown' /\ GoneIsFenced'
  BY DEF ProtocolInv, SubjectsWereSent, UnissuedUnknown, GoneIsFenced,
         Tombstoned
<1>3. CallsBounded' /\ DisabledIsShielded' /\ CompletedBounded'
  BY DEF ProtocolInv, CallsBounded, DisabledIsShielded, CompletedBounded
<1>4. SagaProgress'
  BY DEF ProtocolInv, SagaProgress, Tombstoned
<1>5. CompletedIsProjected'
  BY DEF ProtocolInv, CompletedIsProjected, Projected, InSync
<1>6. LookupsExact'
  BY DEF ProtocolInv, LookupsExact
<1> QED
  BY <1>1, <1>2, <1>3, <1>4, <1>5, <1>6 DEF ProtocolInv

-----------------------------------------------------------------------------
LEMMA ProtocolInit == Init => ProtocolInv
<1> SUFFICES ASSUME Init PROVE ProtocolInv
  OBVIOUS
<1>1. TypeOK
  BY TypeInit
<1>2. LookupsExact
  BY NoneAssumption DEF Init, LookupsExact
<1> QED
  BY <1>1, <1>2 DEF Init, ProtocolInv, SubjectsWereSent, UnissuedUnknown,
     GoneIsFenced, CallsBounded, DisabledIsShielded, SagaProgress,
     OwnersCanOwn, CompletedBounded, CompletedIsProjected

LEMMA ProtocolStep == ProtocolInv /\ [Next]_vars => ProtocolInv'
<1> SUFFICES ASSUME ProtocolInv, [Next]_vars PROVE ProtocolInv'
  OBVIOUS
<1>1. TypeOK'
  BY TypeStep DEF ProtocolInv
<1>2. ASSUME NEW u \in Users, NEW e \in Emails, NEW s \in Status,
             CreateUser(u, e, s) \/ Update(u, e, s)
      PROVE  ProtocolInv'
  BY <1>1, <1>2, CreateStep, UpdateStep DEF Update
<1>3. ASSUME NEW u \in Users, RepeatPut(u) PROVE ProtocolInv'
  <2>1. users[u].email \in Emails /\ users[u].status \in Status
    BY <1>3 DEF RepeatPut, ProtocolInv, TypeOK, User
  <2> QED
    BY <1>1, <1>3, <2>1, UpdateStep DEF RepeatPut
<1>4. ASSUME NEW u \in Users, deleteUser(u) PROVE ProtocolInv'
  BY <1>1, <1>4, DeleteStep
<1>5. CASE SyncAnswered \/ FenceAnswered
  BY <1>5, SyncAnsweredStep, FenceAnsweredStep
<1>6. CASE ReplaceUser \/ RemoveUser
  BY <1>1, <1>6, ReplaceStep, RemoveStep
<1>7. CASE ReplaceConflict \/ GiveUp
  BY <1>1, <1>7, AbortStep DEF ReplaceConflict, GiveUp
<1>8. ASSUME NEW c \in sent, Deliver(c) PROVE ProtocolInv'
  BY <1>8, DeliverStep
<1>9. ASSUME NEW k \in Keys, NEW u \in Users, AssignKey(k, u)
      PROVE  ProtocolInv'
  BY <1>1, <1>9, KeyStep DEF AssignKey
<1>10. ASSUME NEW k \in Keys, ReleaseKey(k) PROVE ProtocolInv'
  BY <1>1, <1>10, KeyStep DEF ReleaseKey
<1>11. CASE UNCHANGED vars
  <2>1. SagaProgress'
    BY <1>11 DEF vars, storeVars, ProtocolInv, SagaProgress, Tombstoned
  <2>2. UNCHANGED <<storeVars, subjects, keyOwner, sent, completed>>
    BY <1>11 DEF vars
  <2> QED
    BY <1>1, <2>1, <2>2, SagaOnly DEF ProtocolInv
<1> QED
  BY <1>2, <1>3, <1>4, <1>5, <1>6, <1>7, <1>8, <1>9, <1>10, <1>11 DEF Next

(***************************************************************************)
(* The inductive invariant holds in every reachable state.                 *)
(***************************************************************************)
THEOREM ProtocolInvariant == Spec => []ProtocolInv
  BY ProtocolInit, ProtocolStep, PTL DEF Spec

LEMMA PermissionImplied == ProtocolInv => NeverMorePermissive
<1> SUFFICES ASSUME ProtocolInv, NEW u \in Users, Authorized(u)
             PROVE  users[u] # None /\ users[u].status = "active"
  BY DEF NeverMorePermissive
<1> DEFINE c == [user |-> u, subject |-> subjects[u]]
<1>1. c \in sent /\ c.user = u /\ c.subject = subjects[u]
      /\ c.subject.status = "active"
  BY DEF ProtocolInv, SubjectsWereSent, Authorized
<1> HIDE DEF c
<1>2. u \in issued
  BY <1>1 DEF ProtocolInv, UnissuedUnknown
<1>3. ~Tombstoned(u)
  BY <1>1 DEF ProtocolInv, CallsBounded, Tombstoned
<1>4. users[u] # None
  BY <1>2, <1>3 DEF ProtocolInv, GoneIsFenced
<1>5. ASSUME users[u].status = "disabled" PROVE FALSE
  <2>1. subjects[u].revision >= users[u].revision
    BY <1>1, <1>4, <1>5 DEF ProtocolInv, DisabledIsShielded
  <2>2. /\ subjects[u].revision <= users[u].revision
        /\ subjects[u].revision # users[u].revision
    BY <1>1, <1>4, <1>5 DEF ProtocolInv, CallsBounded
  <2>3. subjects[u].revision \in Nat /\ users[u].revision \in Nat
    BY <1>1, <1>4 DEF ProtocolInv, TypeOK, Call, KeySubject, User, Revision
  <2> QED
    BY <2>1, <2>2, <2>3
<1>6. users[u].status \in {"active", "disabled"}
  BY <1>4 DEF ProtocolInv, TypeOK, User, Status
<1> QED
  BY <1>4, <1>5, <1>6

LEMMA OwnershipImplied == ProtocolInv => OwnersExist
<1> SUFFICES ASSUME ProtocolInv, NEW k \in Keys, keyOwner[k] # None
             PROVE  /\ users[keyOwner[k]] # None
                    /\ ensureSubjectCanOwnKey(keyOwner[k])
  BY DEF OwnersExist
<1>1. keyOwner[k] \in Users /\ ensureSubjectCanOwnKey(keyOwner[k])
  BY DEF ProtocolInv, TypeOK, OwnersCanOwn
<1>2. keyOwner[k] \in issued
  BY <1>1 DEF ProtocolInv, SubjectsWereSent, UnissuedUnknown,
              ensureSubjectCanOwnKey
<1> QED
  BY <1>1, <1>2
  DEF ProtocolInv, GoneIsFenced, Tombstoned, ensureSubjectCanOwnKey

LEMMA ReachImplied == ProtocolInv => AheadOnlyToRestrict
<1> SUFFICES ASSUME ProtocolInv, NEW u \in Users, subjects[u] # None
             PROVE  /\ users[u] = None => subjects[u].deleted
                    /\ users[u] # None /\ subjects[u].revision > users[u].revision =>
                          /\ subjects[u].revision = users[u].revision + 1
                          /\ subjects[u].status = "disabled"
  BY DEF AheadOnlyToRestrict
<1> DEFINE c == [user |-> u, subject |-> subjects[u]]
<1>1. c \in sent /\ c.user = u /\ c.subject = subjects[u]
  BY DEF ProtocolInv, SubjectsWereSent
<1>2. u \in issued
  BY <1>1 DEF ProtocolInv, UnissuedUnknown
<1>3. users[u] = None => subjects[u].deleted
  BY <1>2 DEF ProtocolInv, GoneIsFenced, Tombstoned
<1>4. ASSUME users[u] # None, subjects[u].revision > users[u].revision
      PROVE  /\ subjects[u].revision = users[u].revision + 1
             /\ subjects[u].status = "disabled"
  <2>1. /\ subjects[u].revision <= users[u].revision + 1
        /\ subjects[u].status = "active" => subjects[u].revision <= users[u].revision
    BY <1>1, <1>4 DEF ProtocolInv, CallsBounded
  <2>2. /\ subjects[u].revision \in Nat /\ users[u].revision \in Nat
        /\ subjects[u].status \in {"active", "disabled"}
    BY <1>4 DEF ProtocolInv, TypeOK, KeySubject, User, Revision, Status
  <2> QED
    BY <1>4, <2>1, <2>2
<1> QED
  BY <1>3, <1>4

-----------------------------------------------------------------------------
(***************************************************************************)
(* Fail closed: an active subject has an active canonical user behind it,  *)
(* whatever calls of updateUser, deleteUser and CreateUser were lost,      *)
(* repeated or delayed.                                                    *)
(***************************************************************************)
THEOREM FailClosed == Spec => []NeverMorePermissive
  BY ProtocolInvariant, PermissionImplied, PTL

(***************************************************************************)
(* FenceSubject and the key mutations exclude each other: a virtual key's  *)
(* owner exists in both stores.                                            *)
(***************************************************************************)
THEOREM NoOrphanKeys == Spec => []OwnersExist
  BY ProtocolInvariant, OwnershipImplied, PTL

(***************************************************************************)
(* A POST or PUT that answered success is what gateways authorize against, *)
(* or has been restricted by a later PUT or DELETE that did not finish.    *)
(***************************************************************************)
THEOREM CompletedWritesVisible == Spec => []CompletedIsProjected
<1>1. ProtocolInv => CompletedIsProjected
  BY DEF ProtocolInv
<1> QED
  BY <1>1, ProtocolInvariant, PTL

(***************************************************************************)
(* createResource, replaceResource and deleteResource keep the email       *)
(* lookups and the user index exact, so an email has at most one user.     *)
(***************************************************************************)
THEOREM LookupsStayExact == Spec => []LookupsExact
<1>1. ProtocolInv => LookupsExact
  BY DEF ProtocolInv
<1> QED
  BY <1>1, ProtocolInvariant, PTL

(***************************************************************************)
(* However many sagas of CreateUser, updateUser and deleteUser are given   *)
(* up, the stored subject is at most one revision ahead of the record and  *)
(* then disabled, and a removed user leaves a tombstone: the next PUT or   *)
(* DELETE carries a revision that is not stale.                            *)
(***************************************************************************)
THEOREM NeverOutOfReach == Spec => []AheadOnlyToRestrict
  BY ProtocolInvariant, ReachImplied, PTL
=============================================================================
