------------------------- MODULE ModelLifecycleProofs -------------------------
(***************************************************************************)
(* Proofs about ModelLifecycle, for any models, providers, aliases, keys   *)
(* and bounds.                                                             *)
(***************************************************************************)
EXTENDS ModelLifecycle, TLAPS

-----------------------------------------------------------------------------
(***************************************************************************)
(* The inductive invariant.  Authorization depends on what calls may still *)
(* arrive, so the invariant speaks of every call ever sent.                *)
(***************************************************************************)
Tombstoned(m) == subjects[m] # None /\ subjects[m].deleted

\* A subject is the payload of some call.
SubjectsWereSent ==
    \A m \in Models : subjects[m] # None =>
        [model |-> m, subject |-> subjects[m]] \in sent

\* An ID that was not handed out is unknown to the catalog and to every call.
UnissuedUnknown ==
    \A m \in Models : m \notin issued =>
        /\ models[m] = None
        /\ \A c \in sent : c.model # m

\* A model that calls were sent for is removed only behind a tombstone.
GoneIsFenced ==
    \A c \in sent : models[c.model] = None => Tombstoned(c.model)

\* What the calls carry, measured against the canonical record: the alias is
\* the record's; a revocation may be one revision ahead of it, an activation
\* never.
CallsBounded ==
    \A c \in sent :
        /\ c.subject.deleted => c.subject.status = "disabled"
        /\ models[c.model] # None =>
            /\ c.subject.alias = models[c.model].alias
            /\ c.subject.revision <= models[c.model].revision + 1
            /\ c.subject.status = "active" =>
                /\ c.subject.revision <= models[c.model].revision
                /\ c.subject.revision = models[c.model].revision =>
                        models[c.model].status = "active"

\* A disabled model whose activation may still be under way is protected by a
\* subject that is at least as recent as the record.
DisabledIsShielded ==
    \A c \in sent :
        /\ c.subject.status = "active"
        /\ models[c.model] # None
        /\ models[c.model].status = "disabled"
        => /\ subjects[c.model] # None
           /\ subjects[c.model].revision >= models[c.model].revision

\* What the saga that holds modelMu has achieved so far.
SagaProgress ==
    saga # Idle =>
        LET m == saga.model
            goal == saga.goal IN
        /\ models[m] # None
        /\ goal.alias = models[m].alias
        /\ saga.phase = "syncing" =>
            /\ models[m] = goal
            /\ CallFor(m, goal, FALSE) \in sent
        /\ saga.phase = "disabling" =>
            /\ goal.status = "disabled"
            /\ goal.revision = models[m].revision + 1
            /\ CallFor(m, goal, FALSE) \in sent
        /\ saga.phase = "replacing" =>
            /\ goal.revision = models[m].revision + 1
            /\ goal.status = "disabled" =>
                    subjects[m] = modelSubjectFor(goal, FALSE)
        /\ saga.phase = "fencing" =>
            /\ goal.revision = models[m].revision + 1
            /\ CallFor(m, goal, TRUE) \in sent
        /\ saga.phase = "removing" => Tombstoned(m)

\* The models of a key can back keys.
ReferencesBacked ==
    \A k \in Keys : \A m \in references[k] : ensureModelCanBackKey(m)

\* The lookup of an alias names the model that has it.
AliasesExact ==
    \A a \in Aliases, m \in Models :
        aliasLookup[a] = m <=> models[m] # None /\ models[m].alias = a

\* The provider of every model exists.
ProvidersExist ==
    \A m \in Models : models[m] # None => providers[models[m].provider] # None

\* What both stores and the calls under way agree on, whoever holds modelMu.
StoresAgree ==
    /\ SubjectsWereSent
    /\ UnissuedUnknown
    /\ GoneIsFenced
    /\ CallsBounded
    /\ DisabledIsShielded
    /\ ReferencesBacked
    /\ AliasesExact
    /\ ProvidersExist

ProtocolInv ==
    /\ TypeOK
    /\ StoresAgree
    /\ SagaProgress

-----------------------------------------------------------------------------
(***************************************************************************)
(* Every step keeps the types, whatever the protocol has done so far.      *)
(***************************************************************************)
LEMMA TypeInit == Init => TypeOK
  BY BoundAssumption DEF Init, TypeOK, Saga

\* The subject a handler leaves: the one it found or the one it was sent.
LEMMA HandlerType ==
  ASSUME TypeOK, NEW c \in Call, NEW ok \in BOOLEAN,
         SyncModelSubject(c, ok) \/ FenceModelSubject(c, ok)
  PROVE  subjects' \in [Models -> ModelSubject \cup {None}]
  BY DEF TypeOK, SyncModelSubject, FenceModelSubject, Call

LEMMA Projection ==
  ASSUME NEW model \in Model, NEW deleted \in BOOLEAN
  PROVE  /\ modelSubjectFor(model, deleted) \in ModelSubject
         /\ modelSubjectFor(model, deleted) # None
         /\ modelSubjectFor(model, deleted).alias = model.alias
         /\ modelSubjectFor(model, deleted).revision = model.revision
         /\ modelSubjectFor(model, deleted).deleted = deleted
<1>1. modelSubjectFor(model, deleted) \in ModelSubject
  BY DEF modelSubjectFor, ModelSubject, Model, Status
<1>2. modelSubjectFor(model, deleted) # None
  BY <1>1, NoneAssumption
<1> QED
  BY <1>1, <1>2 DEF modelSubjectFor

LEMMA CallType ==
  ASSUME NEW m \in Models, NEW model \in Model, NEW deleted \in BOOLEAN
  PROVE  CallFor(m, model, deleted) \in Call
  BY DEF CallFor, modelSubjectFor, Call, ModelSubject, Model, Status

\* A saga under way names a model and a goal, and can change its phase.
LEMMA SagaType ==
  ASSUME TypeOK, saga # Idle
  PROVE  /\ saga.model \in Models /\ saga.goal \in Model
         /\ \A p \in {"syncing", "replacing", "removing"} :
              /\ [saga EXCEPT !.phase = p] \in Saga
              /\ [saga EXCEPT !.phase = p].phase = p
              /\ [saga EXCEPT !.phase = p].model = saga.model
              /\ [saga EXCEPT !.phase = p].goal = saga.goal
  BY DEF TypeOK, Saga

LEMMA TypeStep == TypeOK /\ [Next]_vars => TypeOK'
<1> SUFFICES ASSUME TypeOK, [Next]_vars PROVE TypeOK'
  OBVIOUS
<1> USE DEF catalogVars
<1>1. ASSUME NEW m \in Models, NEW a \in Aliases, NEW p \in Providers,
             NEW s \in Status, CreateModel(m, a, p, s)
      PROVE  TypeOK'
  <2> DEFINE model == [alias |-> a, provider |-> p, status |-> s, revision |-> 1]
  <2>1. model \in Model
    BY DEF Model, Revision
  <2>2. CallFor(m, model, FALSE) \in Call
    BY <2>1, CallType
  <2>3. saga' \in Saga
    BY <1>1, <2>1 DEF CreateModel, Begin, Saga
  <2>4. models' \in [Models -> Model \cup {None}]
    BY <1>1, <2>1 DEF CreateModel, TypeOK
  <2> QED
    BY <1>1, <2>2, <2>3, <2>4 DEF CreateModel, TypeOK
<1>2. ASSUME NEW m \in Models, NEW p \in Providers, NEW s \in Status,
             updateModel(m, p, s)
      PROVE  TypeOK'
  <2> DEFINE goal == [alias |-> models[m].alias, provider |-> p, status |-> s,
                      revision |-> models[m].revision + 1]
  <2>1. goal \in Model
    BY <1>2 DEF updateModel, TypeOK, Model, Revision
  <2>2. CallFor(m, goal, FALSE) \in Call
    BY <2>1, CallType
  <2>3. saga' \in Saga
    <3>1. saga' = Begin("disabling", m, goal) \/ saga' = Begin("replacing", m, goal)
      BY <1>2 DEF updateModel
    <3> HIDE DEF goal
    <3> QED
      BY <2>1, <3>1 DEF Begin, Saga
  <2>4. sent' \subseteq Call
    BY <1>2, <2>2 DEF updateModel, TypeOK
  <2> QED
    BY <1>2, <2>3, <2>4 DEF updateModel, TypeOK
<1>3. ASSUME NEW m \in Models, RepeatPut(m) PROVE TypeOK'
  <2>1. models[m].provider \in Providers /\ models[m].status \in Status
    BY <1>3 DEF RepeatPut, TypeOK, Model
  <2> QED
    BY <1>2, <1>3, <2>1 DEF RepeatPut
<1>4. ASSUME NEW m \in Models, deleteModel(m) PROVE TypeOK'
  <2> DEFINE fence == [models[m] EXCEPT !.revision = @ + 1]
  <2>1. fence \in Model
    BY <1>4 DEF deleteModel, TypeOK, Model, Revision
  <2>2. CallFor(m, fence, TRUE) \in Call
    BY <2>1, CallType
  <2>3. saga' \in Saga
    BY <1>4, <2>1 DEF deleteModel, Begin, Saga
  <2> QED
    BY <1>4, <2>2, <2>3 DEF deleteModel, TypeOK
<1>5. CASE SyncAnswered
  <2>1. PICK ok \in BOOLEAN :
            /\ SyncModelSubject(CallFor(saga.model, saga.goal, FALSE), ok)
            /\ saga' = IF ok /\ saga.phase = "disabling"
                       THEN [saga EXCEPT !.phase = "replacing"]
                       ELSE Idle
    BY <1>5 DEF SyncAnswered
  <2>2. saga # Idle
    BY <1>5 DEF SyncAnswered, Idle
  <2>3. CallFor(saga.model, saga.goal, FALSE) \in Call
    BY <2>2, SagaType, CallType
  <2>4. subjects' \in [Models -> ModelSubject \cup {None}]
    BY <2>1, <2>3, HandlerType
  <2>5. saga' \in Saga
    BY <2>1, <2>2, SagaType DEF Saga
  <2> QED
    BY <1>5, <2>4, <2>5 DEF SyncAnswered, TypeOK
<1>6. CASE FenceAnswered
  <2>1. PICK ok \in BOOLEAN :
            /\ FenceModelSubject(CallFor(saga.model, saga.goal, TRUE), ok)
            /\ saga' = IF ok THEN [saga EXCEPT !.phase = "removing"] ELSE Idle
    BY <1>6 DEF FenceAnswered
  <2>2. saga # Idle
    BY <1>6 DEF FenceAnswered, Idle
  <2>3. CallFor(saga.model, saga.goal, TRUE) \in Call
    BY <2>2, SagaType, CallType
  <2>4. subjects' \in [Models -> ModelSubject \cup {None}]
    BY <2>1, <2>3, HandlerType
  <2>5. saga' \in Saga
    BY <2>1, <2>2, SagaType DEF Saga
  <2> QED
    BY <1>6, <2>4, <2>5 DEF FenceAnswered, TypeOK
<1>7. CASE ReplaceModel
  <2>1. saga # Idle
    BY <1>7 DEF ReplaceModel, Idle
  <2>2. saga.model \in Models /\ saga.goal \in Model
    BY <2>1, SagaType
  <2>3. CallFor(saga.model, saga.goal, FALSE) \in Call
    BY <2>2, CallType
  <2>4. saga' \in Saga
    <3>1. saga' = Idle \/ saga' = [saga EXCEPT !.phase = "syncing"]
      BY <1>7 DEF ReplaceModel
    <3> QED
      BY <2>1, <3>1, SagaType DEF Saga
  <2>5. sent' \subseteq Call
    BY <1>7, <2>3 DEF ReplaceModel, TypeOK
  <2>6. models' \in [Models -> Model \cup {None}]
    BY <1>7, <2>2 DEF ReplaceModel, TypeOK
  <2> QED
    BY <1>7, <2>4, <2>5, <2>6 DEF ReplaceModel, TypeOK
<1>8. CASE ReplaceRefused
  BY <1>8 DEF ReplaceRefused, TypeOK, Saga
<1>9. CASE RemoveModel
  BY <1>9 DEF RemoveModel, TypeOK, Saga
<1>10. CASE GiveUp
  BY <1>10, BoundAssumption DEF GiveUp, TypeOK, Saga
<1>11. ASSUME NEW c \in sent, Deliver(c) PROVE TypeOK'
  <2>1. subjects' \in [Models -> ModelSubject \cup {None}]
    BY <1>11, HandlerType DEF Deliver, TypeOK
  <2> QED
    BY <1>11, <2>1 DEF Deliver, TypeOK
<1>12. ASSUME NEW k \in Keys, NEW ids \in SUBSET Models,
              prepareModelIndexMutations(k, ids)
       PROVE  TypeOK'
  BY <1>12 DEF prepareModelIndexMutations, TypeOK
<1>13. ASSUME NEW p \in Providers, NEW s \in Status,
              CreateProvider(p, s) \/ updateProvider(p, s)
       PROVE  TypeOK'
  BY <1>13 DEF CreateProvider, updateProvider, TypeOK
<1>14. ASSUME NEW p \in Providers, DeleteProviderIfNoModels(p) PROVE TypeOK'
  BY <1>14 DEF DeleteProviderIfNoModels, TypeOK
<1>15. CASE UNCHANGED vars
  BY <1>15 DEF vars, TypeOK
<1> QED
  BY <1>1, <1>2, <1>3, <1>4, <1>5, <1>6, <1>7, <1>8, <1>9, <1>10, <1>11,
     <1>12, <1>13, <1>14, <1>15
  DEF Next, ProviderNext, ModelNext, KeyPlaneNext, Update

(***************************************************************************)
(* Types hold in every reachable state: in particular no record and no     *)
(* subject ever has revision 0, and the fault bound is respected.          *)
(***************************************************************************)
THEOREM TypeCorrect == Spec => []TypeOK
  BY TypeInit, TypeStep, PTL DEF Spec

-----------------------------------------------------------------------------
(***************************************************************************)
(* What a handler can do to the subjects: nothing, or store the payload of *)
(* the call over no record or over an older one.                           *)
(***************************************************************************)
LEMMA HandlerEffect ==
  ASSUME TypeOK, NEW c \in Call, NEW ok \in BOOLEAN,
         SyncModelSubject(c, ok) \/ FenceModelSubject(c, ok)
  PROVE  /\ ok => subjects'[c.model] = c.subject
         /\ \A m \in Models : subjects'[m] # subjects[m] =>
              /\ m = c.model
              /\ subjects'[m] = c.subject
              /\ subjects'[m] # None
              /\ c.subject.deleted => KeysOfModel(m) = {}
              /\ subjects[m] # None =>
                    /\ c.subject.revision > subjects[m].revision
                    /\ subjects[m].deleted => c.subject.deleted
<1>1. c.model \in Models /\ c.subject \in ModelSubject /\ c.subject # None
  BY NoneAssumption DEF Call
<1>2. ok => subjects'[c.model] = c.subject
  BY <1>1 DEF SyncModelSubject, FenceModelSubject, TypeOK
<1>3. ASSUME NEW m \in Models, subjects'[m] # subjects[m]
      PROVE  ok /\ m = c.model
  BY <1>1, <1>3 DEF SyncModelSubject, FenceModelSubject, TypeOK
<1>4. ok => compareModelSubjectUpdate(subjects[c.model], c.subject)
  BY DEF SyncModelSubject, FenceModelSubject
<1>5. ok /\ c.subject.deleted => KeysOfModel(c.model) = {}
  BY DEF SyncModelSubject, FenceModelSubject
<1> QED
  BY <1>1, <1>2, <1>3, <1>4, <1>5 DEF compareModelSubjectUpdate

\* A subject at the record's revision or later can only become one revision
\* more recent, and disabled.
LEMMA RecentSubject ==
  ASSUME ProtocolInv, NEW c \in sent, NEW ok \in BOOLEAN,
         SyncModelSubject(c, ok) \/ FenceModelSubject(c, ok),
         NEW m \in Models, models[m] # None, subjects[m] # None,
         subjects[m].revision >= models[m].revision,
         subjects'[m] # subjects[m]
  PROVE  /\ subjects[m].revision = models[m].revision
         /\ subjects'[m] # None
         /\ subjects'[m].revision = models[m].revision + 1
<1>1. c \in Call
  BY DEF ProtocolInv, TypeOK
<1>2. m = c.model /\ subjects'[m] = c.subject /\ subjects'[m] # None
      /\ c.subject.revision > subjects[m].revision
  BY <1>1, HandlerEffect DEF ProtocolInv
<1>3. c.subject.revision <= models[m].revision + 1
  BY <1>2 DEF ProtocolInv, StoresAgree, CallsBounded
<1>4. /\ c.subject.revision \in Nat
      /\ subjects[m].revision \in Nat /\ models[m].revision \in Nat
  BY <1>1 DEF ProtocolInv, TypeOK, Call, ModelSubject, Model, Revision
<1> QED
  BY <1>2, <1>3, <1>4

(***************************************************************************)
(* A handler that runs, for the saga or for nobody, keeps the stores in    *)
(* agreement and every tombstone in place.                                 *)
(***************************************************************************)
LEMMA HandlerStep ==
  ASSUME ProtocolInv, NEW c \in sent, NEW ok \in BOOLEAN,
         SyncModelSubject(c, ok) \/ FenceModelSubject(c, ok),
         UNCHANGED <<catalogVars, sent, references>>
  PROVE  /\ StoresAgree'
         /\ \A m \in Models : Tombstoned(m) => Tombstoned(m)'
<1> USE DEF catalogVars
<1>1. c \in Call /\ c.model \in Models
  BY DEF ProtocolInv, TypeOK, Call
<1>2. \A m \in Models : subjects'[m] # subjects[m] =>
              /\ m = c.model
              /\ subjects'[m] = c.subject
              /\ subjects'[m] # None
              /\ c.subject.deleted => KeysOfModel(m) = {}
              /\ subjects[m] # None =>
                    /\ c.subject.revision > subjects[m].revision
                    /\ subjects[m].deleted => c.subject.deleted
  BY <1>1, HandlerEffect DEF ProtocolInv
<1>3. SubjectsWereSent'
  <2> SUFFICES ASSUME NEW m \in Models, subjects'[m] # None
               PROVE  [model |-> m, subject |-> subjects'[m]] \in sent
    BY DEF SubjectsWereSent
  <2>1. CASE subjects'[m] = subjects[m]
    BY <2>1 DEF ProtocolInv, StoresAgree, SubjectsWereSent
  <2>2. CASE subjects'[m] # subjects[m]
    <3>1. c = [model |-> c.model, subject |-> c.subject]
      BY <1>1 DEF Call
    <3> QED
      BY <2>2, <1>2, <3>1
  <2> QED
    BY <2>1, <2>2
<1>4. \A m \in Models : Tombstoned(m) => Tombstoned(m)'
  BY <1>2 DEF Tombstoned
<1>5. GoneIsFenced'
  <2>1. \A d \in sent : d.model \in Models
    BY DEF ProtocolInv, TypeOK, Call
  <2> QED
    BY <1>4, <2>1 DEF ProtocolInv, StoresAgree, GoneIsFenced
<1>6. CallsBounded' /\ UnissuedUnknown'
  BY DEF ProtocolInv, StoresAgree, CallsBounded, UnissuedUnknown
<1>7. DisabledIsShielded'
  <2> SUFFICES ASSUME NEW d \in sent, d.subject.status = "active",
                      models[d.model] # None, models[d.model].status = "disabled"
               PROVE  /\ subjects'[d.model] # None
                      /\ subjects'[d.model].revision >= models[d.model].revision
    BY DEF DisabledIsShielded
  <2>1. d.model \in Models
    BY DEF ProtocolInv, TypeOK, Call
  <2>2. /\ subjects[d.model] # None
        /\ subjects[d.model].revision >= models[d.model].revision
    BY DEF ProtocolInv, StoresAgree, DisabledIsShielded
  <2>3. models[d.model].revision \in Nat
    BY <2>1 DEF ProtocolInv, TypeOK, Model, Revision
  <2> QED
    BY <2>1, <2>2, <2>3, RecentSubject
<1>8. ReferencesBacked'
  <2> SUFFICES ASSUME NEW k \in Keys, NEW m \in references[k]
               PROVE  ensureModelCanBackKey(m)'
    BY DEF ReferencesBacked
  <2>1. m \in Models /\ ensureModelCanBackKey(m)
    BY DEF ProtocolInv, StoresAgree, TypeOK, ReferencesBacked
  <2>2. CASE subjects'[m] = subjects[m]
    BY <2>1, <2>2 DEF ensureModelCanBackKey
  <2>3. CASE subjects'[m] # subjects[m]
    BY <2>1, <2>3, <1>2 DEF ensureModelCanBackKey, KeysOfModel
  <2> QED
    BY <2>2, <2>3
<1>9. AliasesExact' /\ ProvidersExist'
  BY DEF ProtocolInv, StoresAgree, AliasesExact, ProvidersExist
<1> QED
  BY <1>3, <1>4, <1>5, <1>6, <1>7, <1>8, <1>9 DEF StoresAgree

\* A call that arrives with nobody waiting for it.
LEMMA DeliverStep ==
  ASSUME ProtocolInv, NEW c \in sent, Deliver(c), TypeOK'
  PROVE  ProtocolInv'
<1> USE DEF catalogVars
<1>1. PICK ok \in BOOLEAN : SyncModelSubject(c, ok) \/ FenceModelSubject(c, ok)
  BY DEF Deliver
<1>2. UNCHANGED <<catalogVars, references, sent, saga, faults>>
  BY DEF Deliver
<1>3. StoresAgree' /\ \A m \in Models : Tombstoned(m) => Tombstoned(m)'
  BY <1>1, <1>2, HandlerStep
<1>4. SagaProgress'
  <2> SUFFICES ASSUME saga # Idle PROVE SagaProgress'
    BY <1>2 DEF SagaProgress
  <2>1. saga.model \in Models /\ saga.goal \in Model
    BY SagaType DEF ProtocolInv
  <2>2. saga.phase = "replacing" /\ saga.goal.status = "disabled"
            => subjects'[saga.model] = subjects[saga.model]
    <3> SUFFICES ASSUME saga.phase = "replacing", saga.goal.status = "disabled"
                 PROVE  subjects'[saga.model] = subjects[saga.model]
      OBVIOUS
    <3>1. /\ models[saga.model] # None
          /\ saga.goal.revision = models[saga.model].revision + 1
          /\ subjects[saga.model] = modelSubjectFor(saga.goal, FALSE)
      BY DEF ProtocolInv, SagaProgress
    <3>2. models[saga.model].revision \in Nat
      BY <2>1, <3>1 DEF ProtocolInv, TypeOK, Model, Revision
    <3>3. /\ subjects[saga.model] # None
          /\ subjects[saga.model].revision = models[saga.model].revision + 1
      BY <2>1, <3>1, Projection
    <3>4. /\ subjects[saga.model].revision >= models[saga.model].revision
          /\ subjects[saga.model].revision # models[saga.model].revision
      BY <3>2, <3>3
    <3>5. ASSUME subjects'[saga.model] # subjects[saga.model]
          PROVE  subjects[saga.model].revision = models[saga.model].revision
      BY <1>1, <2>1, <3>1, <3>3, <3>4, <3>5, RecentSubject
    <3> QED
      BY <3>4, <3>5
  <2>3. saga.phase = "removing" => Tombstoned(saga.model)'
    BY <1>2, <1>3, <2>1 DEF ProtocolInv, SagaProgress
  <2> QED
    BY <1>2, <2>2, <2>3 DEF ProtocolInv, SagaProgress
<1> QED
  BY <1>3, <1>4 DEF ProtocolInv

(***************************************************************************)
(* A saga step that is an answer is a delivery of the saga's own call that *)
(* also moves the saga.                                                    *)
(***************************************************************************)
LEMMA SyncAnsweredStep == ProtocolInv /\ SyncAnswered /\ TypeOK' => ProtocolInv'
<1> SUFFICES ASSUME ProtocolInv, SyncAnswered, TypeOK' PROVE ProtocolInv'
  OBVIOUS
<1> USE DEF catalogVars
<1> DEFINE m == saga.model
           goal == saga.goal
           c == CallFor(m, goal, FALSE)
<1>1. PICK ok \in BOOLEAN :
        /\ SyncModelSubject(c, ok)
        /\ saga' = IF ok /\ saga.phase = "disabling"
                   THEN [saga EXCEPT !.phase = "replacing"]
                   ELSE Idle
  BY DEF SyncAnswered
<1>2. saga # Idle /\ saga.phase \in {"syncing", "disabling"}
      /\ UNCHANGED <<catalogVars, references, sent, faults>>
  BY DEF SyncAnswered, Idle
<1>3. m \in Models /\ goal \in Model
  BY <1>2, SagaType DEF ProtocolInv
<1>4. /\ c \in sent /\ c \in Call /\ models[m] # None
      /\ goal.alias = models[m].alias
  BY <1>2 DEF ProtocolInv, SagaProgress, TypeOK
<1>5. StoresAgree'
  BY <1>1, <1>2, <1>4, HandlerStep
<1>6. ok => subjects'[m] = modelSubjectFor(goal, FALSE)
  BY <1>1, <1>4, HandlerEffect DEF ProtocolInv, CallFor
<1>7. saga.phase = "disabling" =>
        goal.status = "disabled" /\ goal.revision = models[m].revision + 1
  BY <1>2 DEF ProtocolInv, SagaProgress
<1>8. SagaProgress'
  <2>1. CASE ok /\ saga.phase = "disabling"
    <3>1. saga'.phase = "replacing" /\ saga'.model = m /\ saga'.goal = goal
      BY <1>1, <1>2, <2>1, SagaType DEF ProtocolInv
    <3> QED
      BY <1>2, <1>4, <1>6, <1>7, <2>1, <3>1 DEF SagaProgress
  <2>2. CASE ~(ok /\ saga.phase = "disabling")
    BY <1>1, <2>2 DEF SagaProgress
  <2> QED
    BY <2>1, <2>2
<1> QED
  BY <1>5, <1>8 DEF ProtocolInv

LEMMA FenceAnsweredStep == ProtocolInv /\ FenceAnswered /\ TypeOK' => ProtocolInv'
<1> SUFFICES ASSUME ProtocolInv, FenceAnswered, TypeOK' PROVE ProtocolInv'
  OBVIOUS
<1> USE DEF catalogVars
<1> DEFINE m == saga.model
           c == CallFor(m, saga.goal, TRUE)
<1>1. PICK ok \in BOOLEAN :
        /\ FenceModelSubject(c, ok)
        /\ saga' = IF ok THEN [saga EXCEPT !.phase = "removing"] ELSE Idle
  BY DEF FenceAnswered
<1>2. saga # Idle /\ saga.phase = "fencing"
      /\ UNCHANGED <<catalogVars, references, sent, faults>>
  BY DEF FenceAnswered, Idle
<1>3. m \in Models /\ saga.goal \in Model
  BY <1>2, SagaType DEF ProtocolInv
<1>4. /\ c \in sent /\ c \in Call /\ models[m] # None
      /\ saga.goal.alias = models[m].alias
  BY <1>2 DEF ProtocolInv, SagaProgress, TypeOK
<1>5. StoresAgree'
  BY <1>1, <1>2, <1>4, HandlerStep
<1>6. SagaProgress'
  <2>1. CASE ok
    <3>1. subjects'[m] = modelSubjectFor(saga.goal, TRUE)
      BY <1>1, <1>4, <2>1, HandlerEffect DEF ProtocolInv, CallFor
    <3>2. saga'.phase = "removing" /\ saga'.model = m /\ saga'.goal = saga.goal
      BY <1>1, <1>2, <2>1, SagaType DEF ProtocolInv
    <3>3. subjects'[m] # None /\ subjects'[m].deleted
      BY <1>3, <3>1, Projection
    <3> QED
      BY <1>2, <1>4, <3>2, <3>3 DEF SagaProgress, Tombstoned
  <2>2. CASE ~ok
    BY <1>1, <2>2 DEF SagaProgress
  <2> QED
    BY <2>1, <2>2
<1> QED
  BY <1>5, <1>6 DEF ProtocolInv

-----------------------------------------------------------------------------
(***************************************************************************)
(* A call is added to those sent while the records stay as they are: the   *)
(* start of a disabling PUT and of a DELETE.                               *)
(***************************************************************************)
LEMMA RestrictionSent ==
  ASSUME ProtocolInv, NEW m \in Models, models[m] # None,
         NEW c \in Call, c.model = m, c.subject.status = "disabled",
         c.subject.alias = models[m].alias,
         c.subject.revision = models[m].revision + 1,
         sent' = sent \cup {c},
         UNCHANGED <<catalogVars, subjects, references>>
  PROVE  StoresAgree'
<1> USE DEF catalogVars, ProtocolInv, StoresAgree
<1>1. m \in issued
  BY DEF UnissuedUnknown
<1>2. models[m].revision \in Nat
  BY DEF TypeOK, Model, Revision
<1>3. SubjectsWereSent' /\ ReferencesBacked'
  BY DEF SubjectsWereSent, ReferencesBacked, ensureModelCanBackKey
<1>4. UnissuedUnknown'
  BY <1>1 DEF UnissuedUnknown
<1>5. GoneIsFenced'
  BY DEF GoneIsFenced, Tombstoned
<1>6. CallsBounded'
  BY <1>2 DEF CallsBounded
<1>7. DisabledIsShielded'
  BY DEF DisabledIsShielded
<1>8. AliasesExact' /\ ProvidersExist'
  BY DEF AliasesExact, ProvidersExist
<1> QED
  BY <1>3, <1>4, <1>5, <1>6, <1>7, <1>8

\* A step that moves only the saga.
LEMMA SagaOnly ==
  ASSUME ProtocolInv, UNCHANGED <<catalogVars, subjects, references, sent>>
  PROVE  StoresAgree'
<1> USE DEF catalogVars, ProtocolInv, StoresAgree
<1>1. SubjectsWereSent' /\ ReferencesBacked'
  BY DEF SubjectsWereSent, ReferencesBacked, ensureModelCanBackKey
<1>2. UnissuedUnknown' /\ GoneIsFenced'
  BY DEF UnissuedUnknown, GoneIsFenced, Tombstoned
<1>3. CallsBounded' /\ DisabledIsShielded'
  BY DEF CallsBounded, DisabledIsShielded
<1>4. AliasesExact' /\ ProvidersExist'
  BY DEF AliasesExact, ProvidersExist
<1> QED
  BY <1>1, <1>2, <1>3, <1>4

LEMMA UpdateStep ==
  ASSUME ProtocolInv, NEW m \in Models, NEW p \in Providers, NEW s \in Status,
         updateModel(m, p, s), TypeOK'
  PROVE  ProtocolInv'
<1> USE DEF catalogVars
<1> DEFINE goal == [alias |-> models[m].alias, provider |-> p, status |-> s,
                    revision |-> models[m].revision + 1]
<1>1. models[m] # None /\ goal \in Model
      /\ UNCHANGED <<catalogVars, subjects, references, faults>>
  BY DEF updateModel, ProtocolInv, TypeOK, Model, Revision
<1>2. CASE s = "disabled"
  <2> DEFINE c == CallFor(m, goal, FALSE)
  <2>1. sent' = sent \cup {c} /\ saga' = Begin("disabling", m, goal)
    BY <1>2 DEF updateModel
  <2>2. c \in Call /\ c.model = m /\ c.subject.status = "disabled"
        /\ c.subject.alias = models[m].alias
        /\ c.subject.revision = models[m].revision + 1
    <3>1. c \in Call
      BY <1>1, CallType
    <3> QED
      BY <1>2, <3>1 DEF CallFor, modelSubjectFor
  <2>3. SagaProgress'
    BY <1>1, <1>2, <2>1 DEF SagaProgress, Begin
  <2> HIDE DEF c
  <2>4. StoresAgree'
    BY <1>1, <2>1, <2>2, RestrictionSent
  <2> QED
    BY <2>3, <2>4 DEF ProtocolInv
<1>3. CASE s = "active"
  <2>1. sent' = sent /\ saga' = Begin("replacing", m, goal)
    BY <1>3 DEF updateModel
  <2>2. SagaProgress'
    BY <1>1, <1>3, <2>1 DEF SagaProgress, Begin
  <2>3. StoresAgree'
    BY <1>1, <2>1, SagaOnly
  <2> QED
    BY <2>2, <2>3 DEF ProtocolInv
<1> QED
  BY <1>2, <1>3 DEF Status

LEMMA DeleteStep ==
  ASSUME ProtocolInv, NEW m \in Models, deleteModel(m), TypeOK'
  PROVE  ProtocolInv'
<1> USE DEF catalogVars
<1> DEFINE fence == [models[m] EXCEPT !.revision = @ + 1]
           c == CallFor(m, fence, TRUE)
<1>1. models[m] # None /\ models[m] \in Model
      /\ UNCHANGED <<catalogVars, subjects, references, faults>>
  BY DEF deleteModel, ProtocolInv, TypeOK
<1>2. /\ fence \in Model /\ fence.revision = models[m].revision + 1
      /\ fence.alias = models[m].alias
  BY <1>1 DEF Model, Revision
<1>3. sent' = sent \cup {c} /\ saga' = Begin("fencing", m, fence)
  BY DEF deleteModel
<1> HIDE DEF fence
<1>4. c \in Call /\ c.model = m /\ c.subject.status = "disabled"
      /\ c.subject.alias = models[m].alias
      /\ c.subject.revision = models[m].revision + 1
  <2>1. c \in Call
    BY <1>2, CallType
  <2> QED
    BY <1>2, <2>1 DEF CallFor, modelSubjectFor
<1>5. SagaProgress'
  BY <1>1, <1>2, <1>3 DEF SagaProgress, Begin
<1> HIDE DEF c
<1>6. StoresAgree'
  BY <1>1, <1>3, <1>4, RestrictionSent
<1> QED
  BY <1>5, <1>6 DEF ProtocolInv

\* The lookup of the new model's alias was free, and no call knows its ID.
LEMMA CreateStep ==
  ASSUME ProtocolInv, NEW m \in Models, NEW a \in Aliases, NEW p \in Providers,
         NEW s \in Status, CreateModel(m, a, p, s), TypeOK'
  PROVE  ProtocolInv'
<1> USE DEF catalogVars
<1> DEFINE model == [alias |-> a, provider |-> p, status |-> s, revision |-> 1]
           c == CallFor(m, model, FALSE)
<1>1. /\ m \notin issued /\ issued' = issued \cup {m}
      /\ aliasLookup[a] = None
      /\ ensureProviderCanBackModel(p, s)
      /\ models' = [models EXCEPT ![m] = model]
      /\ aliasLookup' = [aliasLookup EXCEPT ![a] = m]
      /\ sent' = sent \cup {c}
      /\ saga' = Begin("syncing", m, model)
      /\ UNCHANGED <<providers, subjects, references, faults>>
  BY DEF CreateModel
<1>2. model \in Model /\ model # None
  BY NoneAssumption DEF Model, Revision
<1>3. models[m] = None /\ \A d \in sent : d.model # m
  BY <1>1 DEF ProtocolInv, StoresAgree, UnissuedUnknown
<1>4. /\ models'[m] = model
      /\ \A v \in Models : v # m => models'[v] = models[v]
  BY <1>1 DEF ProtocolInv, TypeOK
<1>5. c.model = m /\ c.subject.revision = 1 /\ c.subject.status = s
      /\ c.subject.deleted = FALSE /\ c.subject.alias = a
  BY DEF CallFor, modelSubjectFor
<1>6. \A d \in sent : d.model \in Models /\ d.model # m
  BY <1>3 DEF ProtocolInv, TypeOK, Call
<1>7. SagaProgress'
  BY <1>1, <1>2, <1>4 DEF SagaProgress, Begin
<1>8. model.revision = 1 /\ model.status = s /\ model.alias = a
      /\ model.provider = p
  OBVIOUS
<1> HIDE DEF model, c
<1>9. SubjectsWereSent'
  BY <1>1 DEF ProtocolInv, StoresAgree, SubjectsWereSent
<1>10. UnissuedUnknown'
  BY <1>1, <1>4, <1>5 DEF ProtocolInv, StoresAgree, UnissuedUnknown
<1>11. GoneIsFenced'
  BY <1>1, <1>2, <1>4, <1>5, <1>6
  DEF ProtocolInv, StoresAgree, GoneIsFenced, Tombstoned
<1>12. CallsBounded'
  <2>1. \A d \in sent : models'[d.model] = models[d.model]
    BY <1>4, <1>6
  <2>2. CallsBounded
    BY DEF ProtocolInv, StoresAgree
  <2> QED
    BY <1>1, <1>4, <1>5, <1>8, <2>1, <2>2 DEF CallsBounded
<1>13. DisabledIsShielded'
  <2>1. \A d \in sent : models'[d.model] = models[d.model]
    BY <1>4, <1>6
  <2>2. DisabledIsShielded
    BY DEF ProtocolInv, StoresAgree
  <2> QED
    BY <1>1, <1>4, <1>5, <1>8, <2>1, <2>2 DEF DisabledIsShielded
<1>14. ReferencesBacked'
  BY <1>1 DEF ProtocolInv, StoresAgree, ReferencesBacked, ensureModelCanBackKey
<1>15. AliasesExact'
  <2>1. ASSUME NEW f \in Aliases, NEW v \in Models
        PROVE  aliasLookup'[f] = v <=> models'[v] # None /\ models'[v].alias = f
    BY <1>1, <1>2, <1>3, <1>4, <1>8, NoneAssumption
    DEF ProtocolInv, StoresAgree, AliasesExact, TypeOK
  <2> QED
    BY <2>1 DEF AliasesExact
<1>16. ProvidersExist'
  BY <1>1, <1>4, <1>8
  DEF ProtocolInv, StoresAgree, ProvidersExist, ensureProviderCanBackModel
<1> QED
  BY <1>7, <1>9, <1>10, <1>11, <1>12, <1>13, <1>14, <1>15, <1>16
  DEF ProtocolInv, StoresAgree

\* The record moves one revision on; it is disabled only when its subject is.
LEMMA ReplaceStep == ProtocolInv /\ ReplaceModel /\ TypeOK' => ProtocolInv'
<1> SUFFICES ASSUME ProtocolInv, ReplaceModel, TypeOK' PROVE ProtocolInv'
  OBVIOUS
<1> USE DEF catalogVars
<1> DEFINE m == saga.model
           goal == saga.goal
           c == CallFor(m, goal, FALSE)
<1>1. /\ saga.phase = "replacing" /\ ProvidersAgree(m, goal)
      /\ models' = [models EXCEPT ![m] = goal]
      /\ UNCHANGED <<providers, aliasLookup, issued, subjects, references, faults>>
  BY DEF ReplaceModel
<1>2. \/ /\ goal.status = "active"
         /\ sent' = sent \cup {c}
         /\ saga' = [saga EXCEPT !.phase = "syncing"]
      \/ /\ goal.status # "active"
         /\ sent' = sent
         /\ saga' = Idle
  BY DEF ReplaceModel
<1>3. saga # Idle
  BY <1>1 DEF Idle
<1>4. m \in Models /\ goal \in Model
  BY <1>3, SagaType DEF ProtocolInv
<1>5. /\ models[m] # None /\ goal.alias = models[m].alias
      /\ goal.revision = models[m].revision + 1
      /\ goal.status = "disabled" => subjects[m] = modelSubjectFor(goal, FALSE)
  BY <1>1, <1>3 DEF ProtocolInv, SagaProgress
<1>6. /\ models[m] \in Model /\ models[m].revision \in Nat /\ goal # None
      /\ goal.status \in {"active", "disabled"}
  BY <1>4, <1>5, NoneAssumption
  DEF ProtocolInv, TypeOK, Model, Revision, Status
<1>7. /\ models'[m] = goal
      /\ \A v \in Models : v # m => models'[v] = models[v]
  BY <1>1, <1>4 DEF ProtocolInv, TypeOK
<1>8. c.model = m /\ c.subject.revision = goal.revision
      /\ c.subject.status = goal.status /\ c.subject.deleted = FALSE
      /\ c.subject.alias = goal.alias
  BY DEF CallFor, modelSubjectFor
<1>9. \A d \in sent : d \in Call /\ d.model \in Models /\ d.subject.revision \in Nat
  BY DEF ProtocolInv, TypeOK, Call, ModelSubject, Revision
<1>10. SagaProgress'
  <2>1. CASE goal.status = "active"
    <3>1. saga'.phase = "syncing" /\ saga'.model = m /\ saga'.goal = goal
      BY <1>2, <1>3, <2>1, SagaType DEF ProtocolInv
    <3> QED
      BY <1>1, <1>2, <1>5, <1>6, <1>7, <2>1, <3>1 DEF SagaProgress
  <2>2. CASE goal.status # "active"
    BY <1>2, <2>2 DEF SagaProgress
  <2> QED
    BY <2>1, <2>2
<1> HIDE DEF m, goal, c
<1>11. SubjectsWereSent'
  BY <1>1, <1>2 DEF ProtocolInv, StoresAgree, SubjectsWereSent
<1>12. UnissuedUnknown'
  <2>1. m \in issued
    BY <1>4, <1>5 DEF ProtocolInv, StoresAgree, UnissuedUnknown
  <2> QED
    BY <1>1, <1>2, <1>7, <1>8, <2>1
    DEF ProtocolInv, StoresAgree, UnissuedUnknown
<1>13. GoneIsFenced'
  BY <1>1, <1>2, <1>6, <1>7, <1>8, <1>9
  DEF ProtocolInv, StoresAgree, GoneIsFenced, Tombstoned
<1>14. CallsBounded'
  <2> SUFFICES ASSUME NEW d \in sent'
               PROVE  /\ d.subject.deleted => d.subject.status = "disabled"
                      /\ models'[d.model] # None =>
                          /\ d.subject.alias = models'[d.model].alias
                          /\ d.subject.revision <= models'[d.model].revision + 1
                          /\ d.subject.status = "active" =>
                              /\ d.subject.revision <= models'[d.model].revision
                              /\ d.subject.revision = models'[d.model].revision =>
                                      models'[d.model].status = "active"
    BY DEF CallsBounded
  <2>1. CASE d \in sent /\ d.model # m
    BY <1>7, <1>9, <2>1 DEF ProtocolInv, StoresAgree, CallsBounded
  <2>2. CASE d \in sent /\ d.model = m
    <3>1. /\ d.subject.deleted => d.subject.status = "disabled"
          /\ d.subject.alias = models[m].alias
          /\ d.subject.revision <= models[m].revision + 1
          /\ d.subject.status = "active" =>
                d.subject.revision <= models[m].revision
      BY <1>5, <2>2 DEF ProtocolInv, StoresAgree, CallsBounded
    <3> QED
      BY <1>5, <1>6, <1>7, <1>9, <2>2, <3>1
  <2>3. CASE d = c /\ goal.status = "active"
    BY <1>5, <1>6, <1>7, <1>8, <2>3
  <2> QED
    BY <1>2, <2>1, <2>2, <2>3
<1>15. DisabledIsShielded'
  <2> SUFFICES ASSUME NEW d \in sent', d.subject.status = "active",
                      models'[d.model] # None, models'[d.model].status = "disabled"
               PROVE  /\ subjects'[d.model] # None
                      /\ subjects'[d.model].revision >= models'[d.model].revision
    BY DEF DisabledIsShielded
  <2>1. d \in sent
    BY <1>2, <1>7, <1>8
  <2>2. CASE d.model # m
    BY <1>1, <1>7, <1>9, <2>1, <2>2
    DEF ProtocolInv, StoresAgree, DisabledIsShielded
  <2>3. CASE d.model = m
    <3>1. subjects[m] # None /\ subjects[m].revision = goal.revision
      BY <1>4, <1>5, <1>7, <2>3, Projection
    <3> QED
      BY <1>1, <1>5, <1>6, <1>7, <2>3, <3>1
  <2> QED
    BY <2>2, <2>3
<1>16. ReferencesBacked'
  BY <1>1 DEF ProtocolInv, StoresAgree, ReferencesBacked, ensureModelCanBackKey
<1>17. AliasesExact'
  BY <1>1, <1>4, <1>5, <1>6, <1>7 DEF ProtocolInv, StoresAgree, AliasesExact
<1>18. ProvidersExist'
  BY <1>1, <1>7
  DEF ProtocolInv, StoresAgree, ProvidersExist, ProvidersAgree,
      ensureProviderCanBackModel
<1> QED
  BY <1>10, <1>11, <1>12, <1>13, <1>14, <1>15, <1>16, <1>17, <1>18
  DEF ProtocolInv, StoresAgree

LEMMA RemoveStep == ProtocolInv /\ RemoveModel /\ TypeOK' => ProtocolInv'
<1> SUFFICES ASSUME ProtocolInv, RemoveModel, TypeOK' PROVE ProtocolInv'
  OBVIOUS
<1> DEFINE m == saga.model
<1>1. /\ saga.phase = "removing"
      /\ models' = [models EXCEPT ![m] = None]
      /\ aliasLookup' = [aliasLookup EXCEPT ![models[m].alias] = None]
      /\ saga' = Idle
      /\ UNCHANGED <<providers, issued, subjects, references, sent, faults>>
  BY DEF RemoveModel
<1>2. m \in Models /\ models[m] # None /\ Tombstoned(m)
  <2>1. saga # Idle
    BY <1>1 DEF Idle
  <2> QED
    BY <1>1, <2>1, SagaType DEF ProtocolInv, SagaProgress
<1>3. /\ models'[m] = None
      /\ \A v \in Models : v # m => models'[v] = models[v]
  BY <1>1, <1>2 DEF ProtocolInv, TypeOK
<1>4. \A d \in sent : d.model \in Models
  BY DEF ProtocolInv, TypeOK, Call
<1>5. SagaProgress'
  BY <1>1 DEF SagaProgress
<1> HIDE DEF m
<1> USE DEF ProtocolInv, StoresAgree
<1>6. SubjectsWereSent'
  BY <1>1 DEF SubjectsWereSent
<1>7. UnissuedUnknown'
  BY <1>1, <1>2, <1>3 DEF UnissuedUnknown
<1>8. GoneIsFenced'
  BY <1>1, <1>2, <1>3, <1>4 DEF GoneIsFenced, Tombstoned
<1>9. CallsBounded'
  BY <1>1, <1>3, <1>4 DEF CallsBounded
<1>10. DisabledIsShielded'
  BY <1>1, <1>3, <1>4 DEF DisabledIsShielded
<1>11. ReferencesBacked'
  BY <1>1 DEF ReferencesBacked, ensureModelCanBackKey
<1>12. AliasesExact'
  <2>1. ASSUME NEW f \in Aliases, NEW v \in Models
        PROVE  aliasLookup'[f] = v <=> models'[v] # None /\ models'[v].alias = f
    <3>1. /\ aliasLookup[f] = v <=> models[v] # None /\ models[v].alias = f
          /\ aliasLookup[f] = m <=> models[m] # None /\ models[m].alias = f
      BY <1>2 DEF AliasesExact
    <3>2. aliasLookup'[f] = IF f = models[m].alias THEN None ELSE aliasLookup[f]
      BY <1>1 DEF TypeOK
    <3>3. None # v
      BY NoneAssumption
    <3> QED
      BY <1>2, <1>3, <3>1, <3>2, <3>3
  <2> QED
    BY <2>1 DEF AliasesExact
<1>13. ProvidersExist'
  BY <1>1, <1>3 DEF ProvidersExist
<1> QED
  BY <1>5, <1>6, <1>7, <1>8, <1>9, <1>10, <1>11, <1>12, <1>13

\* A saga that ends without a further effect: ReplaceRefused and GiveUp.
LEMMA AbortStep ==
  ASSUME ProtocolInv, TypeOK', saga' = Idle,
         UNCHANGED <<catalogVars, subjects, references, sent>>
  PROVE  ProtocolInv'
<1>1. SagaProgress'
  BY DEF SagaProgress
<1> QED
  BY <1>1, SagaOnly DEF ProtocolInv

\* A key joins or leaves models that can back it.
LEMMA KeyStep ==
  ASSUME ProtocolInv, TypeOK', NEW k \in Keys, NEW ids \in SUBSET Models,
         prepareModelIndexMutations(k, ids)
  PROVE  ProtocolInv'
<1> USE DEF catalogVars, ProtocolInv, StoresAgree, prepareModelIndexMutations
<1>1. ReferencesBacked'
  BY DEF ReferencesBacked, ensureModelCanBackKey, TypeOK
<1>2. SubjectsWereSent' /\ UnissuedUnknown' /\ GoneIsFenced'
  BY DEF SubjectsWereSent, UnissuedUnknown, GoneIsFenced, Tombstoned
<1>3. CallsBounded' /\ DisabledIsShielded'
  BY DEF CallsBounded, DisabledIsShielded
<1>4. SagaProgress'
  BY DEF SagaProgress, Tombstoned
<1>5. AliasesExact' /\ ProvidersExist'
  BY DEF AliasesExact, ProvidersExist
<1> QED
  BY <1>1, <1>2, <1>3, <1>4, <1>5

\* Provider operations run beside any saga.
LEMMA ProviderStep ==
  ASSUME ProtocolInv, TypeOK', ProviderNext
  PROVE  ProtocolInv'
<1> USE DEF ProtocolInv, StoresAgree
<1>1. /\ UNCHANGED <<models, aliasLookup, subjects, references, sent, saga>>
      /\ issued \subseteq issued'
  BY DEF ProviderNext, CreateProvider, updateProvider, DeleteProviderIfNoModels
<1>2. SubjectsWereSent' /\ UnissuedUnknown' /\ GoneIsFenced'
  BY <1>1 DEF SubjectsWereSent, UnissuedUnknown, GoneIsFenced, Tombstoned
<1>3. CallsBounded' /\ DisabledIsShielded' /\ AliasesExact'
  BY <1>1 DEF CallsBounded, DisabledIsShielded, AliasesExact
<1>4. ReferencesBacked'
  BY <1>1 DEF ReferencesBacked, ensureModelCanBackKey
<1>5. SagaProgress'
  BY <1>1 DEF SagaProgress, Tombstoned
<1>6. ProvidersExist'
  <2> SUFFICES ASSUME NEW m \in Models, models[m] # None
               PROVE  providers'[models[m].provider] # None
    BY <1>1 DEF ProvidersExist
  <2>1. models[m].provider \in Providers /\ providers[models[m].provider] # None
    BY DEF ProvidersExist, TypeOK, Model
  <2> QED
    BY <2>1, NoneAssumption
    DEF ProviderNext, CreateProvider, updateProvider, DeleteProviderIfNoModels,
        TypeOK
<1> QED
  BY <1>2, <1>3, <1>4, <1>5, <1>6

-----------------------------------------------------------------------------
LEMMA ProtocolInit == Init => ProtocolInv
<1> SUFFICES ASSUME Init PROVE ProtocolInv
  OBVIOUS
<1>1. TypeOK
  BY TypeInit
<1>2. AliasesExact
  BY NoneAssumption DEF Init, AliasesExact
<1> QED
  BY <1>1, <1>2 DEF Init, ProtocolInv, StoresAgree, SubjectsWereSent,
     UnissuedUnknown, GoneIsFenced, CallsBounded, DisabledIsShielded,
     SagaProgress, ReferencesBacked, ProvidersExist

LEMMA ProtocolStep == ProtocolInv /\ [Next]_vars => ProtocolInv'
<1> SUFFICES ASSUME ProtocolInv, [Next]_vars PROVE ProtocolInv'
  OBVIOUS
<1>1. TypeOK'
  BY TypeStep DEF ProtocolInv
<1>2. CASE ProviderNext
  BY <1>1, <1>2, ProviderStep
<1>3. ASSUME NEW m \in Models, NEW p \in Providers, NEW s \in Status,
             (\E a \in Aliases : CreateModel(m, a, p, s)) \/ Update(m, p, s)
      PROVE  ProtocolInv'
  BY <1>1, <1>3, CreateStep, UpdateStep DEF Update
<1>4. ASSUME NEW m \in Models, RepeatPut(m) PROVE ProtocolInv'
  <2>1. models[m].provider \in Providers /\ models[m].status \in Status
    BY <1>4 DEF RepeatPut, ProtocolInv, TypeOK, Model
  <2> QED
    BY <1>1, <1>4, <2>1, UpdateStep DEF RepeatPut
<1>5. ASSUME NEW m \in Models, deleteModel(m) PROVE ProtocolInv'
  BY <1>1, <1>5, DeleteStep
<1>6. CASE SyncAnswered \/ FenceAnswered
  BY <1>1, <1>6, SyncAnsweredStep, FenceAnsweredStep
<1>7. CASE ReplaceModel \/ RemoveModel
  BY <1>1, <1>7, ReplaceStep, RemoveStep
<1>8. CASE ReplaceRefused \/ GiveUp
  BY <1>1, <1>8, AbortStep DEF ReplaceRefused, GiveUp
<1>9. CASE KeyPlaneNext
  BY <1>1, <1>9, DeliverStep, KeyStep DEF KeyPlaneNext
<1>10. CASE UNCHANGED vars
  <2>1. SagaProgress'
    BY <1>10 DEF vars, catalogVars, ProtocolInv, SagaProgress, Tombstoned
  <2>2. UNCHANGED <<catalogVars, subjects, references, sent>>
    BY <1>10 DEF vars
  <2> QED
    BY <1>1, <2>1, <2>2, SagaOnly DEF ProtocolInv
<1> QED
  BY <1>2, <1>3, <1>4, <1>5, <1>6, <1>7, <1>8, <1>9, <1>10 DEF Next, ModelNext

(***************************************************************************)
(* The inductive invariant holds in every reachable state.                 *)
(***************************************************************************)
THEOREM ProtocolInvariant == Spec => []ProtocolInv
  BY ProtocolInit, ProtocolStep, PTL DEF Spec

\* An authorized subject agrees with the record on status and alias.
LEMMA AuthorizedAgrees ==
  ASSUME ProtocolInv, NEW m \in Models, Authorized(m)
  PROVE  /\ models[m] # None /\ models[m].status = "active"
         /\ models[m].alias = subjects[m].alias
<1> USE DEF ProtocolInv, StoresAgree
<1> DEFINE c == [model |-> m, subject |-> subjects[m]]
<1>1. c \in sent /\ c.model = m /\ c.subject = subjects[m]
      /\ c.subject.status = "active" /\ c \in Call
  BY DEF SubjectsWereSent, Authorized, TypeOK
<1> HIDE DEF c
<1>2. ~Tombstoned(m)
  BY <1>1 DEF CallsBounded, Tombstoned
<1>3. models[m] # None
  BY <1>1, <1>2 DEF GoneIsFenced
<1>4. ASSUME models[m].status = "disabled" PROVE FALSE
  <2>1. subjects[m].revision >= models[m].revision
    BY <1>1, <1>3, <1>4 DEF DisabledIsShielded
  <2>2. /\ subjects[m].revision <= models[m].revision
        /\ subjects[m].revision # models[m].revision
    BY <1>1, <1>3, <1>4 DEF CallsBounded
  <2>3. subjects[m].revision \in Nat /\ models[m].revision \in Nat
    BY <1>1, <1>3 DEF TypeOK, Call, ModelSubject, Model, Revision
  <2> QED
    BY <2>1, <2>2, <2>3
<1>5. models[m].status \in {"active", "disabled"}
  BY <1>3 DEF TypeOK, Model, Status
<1>6. models[m].alias = subjects[m].alias
  BY <1>1, <1>3 DEF CallsBounded
<1> QED
  BY <1>3, <1>4, <1>5, <1>6

LEMMA AliasImplied == ProtocolInv => AliasAuthorizedOnce
<1> SUFFICES ASSUME ProtocolInv, NEW m \in Models, NEW n \in Models,
                    Authorized(m), Authorized(n),
                    subjects[m].alias = subjects[n].alias
             PROVE  m = n
  BY DEF AliasAuthorizedOnce
<1>1. /\ models[m] # None /\ models[n] # None
      /\ models[m].alias = models[n].alias
  BY AuthorizedAgrees
<1>2. models[m].alias \in Aliases
  BY <1>1 DEF ProtocolInv, TypeOK, Model
<1> QED
  BY <1>1, <1>2 DEF ProtocolInv, StoresAgree, AliasesExact

LEMMA ReferencesImplied == ProtocolInv => ReferencesExist
<1> SUFFICES ASSUME ProtocolInv PROVE ReferencesExist
  OBVIOUS
<1> USE DEF ProtocolInv, StoresAgree
<1>1. ASSUME NEW k \in Keys, NEW m \in references[k]
      PROVE  models[m] # None /\ ensureModelCanBackKey(m)
  <2>1. m \in Models /\ ensureModelCanBackKey(m)
    BY DEF TypeOK, ReferencesBacked
  <2>2. \E c \in sent : c.model = m
    BY <2>1 DEF SubjectsWereSent, ensureModelCanBackKey
  <2> QED
    BY <2>1, <2>2 DEF GoneIsFenced, Tombstoned, ensureModelCanBackKey
<1> QED
  BY <1>1 DEF ReferencesExist, ProvidersExist

-----------------------------------------------------------------------------
(***************************************************************************)
(* Fail closed: an active model subject has an active canonical model      *)
(* behind it, whatever calls of CreateModel, updateModel and deleteModel   *)
(* were lost, repeated or delayed.                                         *)
(***************************************************************************)
THEOREM FailClosed == Spec => []NeverMorePermissive
<1>1. ProtocolInv => NeverMorePermissive
  BY AuthorizedAgrees DEF NeverMorePermissive
<1> QED
  BY <1>1, ProtocolInvariant, PTL

(***************************************************************************)
(* An alias is authorized through one model at most: the unique lookup of  *)
(* the catalog carries over to the projections, although alias and ID of   *)
(* a removed model part ways while its calls are still under way.          *)
(***************************************************************************)
THEOREM OneModelPerAlias == Spec => []AliasAuthorizedOnce
  BY ProtocolInvariant, AliasImplied, PTL

(***************************************************************************)
(* FenceModelSubject and prepareModelIndexMutations exclude each other,    *)
(* and so do DeleteProviderIfNoModels and the writes of models: a key's    *)
(* models and a model's provider exist.                                    *)
(***************************************************************************)
THEOREM NothingDangles == Spec => []ReferencesExist
  BY ProtocolInvariant, ReferencesImplied, PTL
=============================================================================
