---------------------------- MODULE ModelLifecycle ----------------------------
(***************************************************************************)
(* The life of a model: provider, canonical model, projection, key.        *)
(*                                                                         *)
(* Canonical models live beside their providers in the store of the        *)
(* resource control plane; the virtual-key control plane keeps a           *)
(* ModelSubject for each and, in every virtual key, references to models.  *)
(* A POST, PUT or DELETE of a model holds modelMu and is a saga over both  *)
(* stores.  Provider operations do not hold modelMu, so a provider may     *)
(* change or go between two steps of a saga.                               *)
(***************************************************************************)
EXTENDS Naturals

CONSTANTS
    Models,         \* the IDs NewID("mdl") can return
    Providers,      \* the IDs NewID("prv") can return
    Aliases,        \* client-facing model names
    Keys,           \* virtual keys
    None,           \* an absent store entry
    MaxRevision,    \* bound: PUTs stop at this revision ...
    MaxRepairs,     \* bound: ... and repeated PUTs this many revisions later
    MaxFaults       \* bound: sagas given up (time-out, store error, restart)

ASSUME BoundAssumption ==
    MaxRevision \in Nat /\ MaxRepairs \in Nat /\ MaxFaults \in Nat

VARIABLES
    providers,      \* provider store: the status of a provider, or None
    models,         \* provider store: models[m], or None
    aliasLookup,    \* provider store: the unique "model-alias" lookups
    issued,         \* the IDs NewID has handed out
    subjects,       \* key store: the ModelSubject of m, or None
    references,     \* key store: the model IDs of a virtual key, {} when absent
    sent,           \* every sync and fence call ever sent
    saga,           \* the operation that holds modelMu
    faults          \* sagas given up so far

catalogVars == <<providers, models, aliasLookup, issued>>
vars == <<catalogVars, subjects, references, sent, saga, faults>>

Status == {"active", "disabled"}
Revision == Nat \ {0}
Model == [alias : Aliases, provider : Providers, status : Status,
          revision : Revision]
ModelSubject == [alias : Aliases, status : Status, revision : Revision,
                 deleted : BOOLEAN]
Call == [model : Models, subject : ModelSubject]

ASSUME NoneAssumption ==
    None \notin Models \cup Model \cup ModelSubject \cup Status

Idle == [phase |-> "idle"]
\* The phases are those of a user saga: see UserLifecycle.
Saga == {Idle} \cup
    [phase : {"syncing", "disabling", "replacing", "fencing", "removing"},
     model : Models,
     goal  : Model]

Begin(phase, m, goal) == [phase |-> phase, model |-> m, goal |-> goal]

\* Mutant of modelSubjectFor: the revision counts from 0.
SubjectOffByOne(model, deleted) ==
    [alias    |-> model.alias,
     status   |-> IF deleted THEN "disabled" ELSE model.status,
     revision |-> model.revision - 1,
     deleted  |-> deleted]

modelSubjectFor(model, deleted) ==
    [alias    |-> model.alias,
     status   |-> IF deleted THEN "disabled" ELSE model.status,
     revision |-> model.revision,
     deleted  |-> deleted]

CallFor(m, model, deleted) ==
    [model |-> m, subject |-> modelSubjectFor(model, deleted)]

InSync(m) == subjects[m] = modelSubjectFor(models[m], FALSE)

-----------------------------------------------------------------------------
(***************************************************************************)
(* The virtual-key control plane: each handler is one step under the       *)
(* repository's mutex.                                                     *)
(***************************************************************************)
\* Mutant of compareModelSubjectUpdate: a stale update is accepted.
CompareStale(current, next) ==
    \/ current = None
    \/ next.revision # current.revision /\ (current.deleted => next.deleted)

compareModelSubjectUpdate(current, next) ==
    \/ current = None
    \/ current = next
    \/ /\ current # None
       /\ next.alias = current.alias
       /\ next.revision > current.revision
       /\ current.deleted => next.deleted

KeysOfModel(m) == {k \in Keys : m \in references[k]}

SyncModelSubject(c, ok) ==
    /\ ~c.subject.deleted
    /\ ok <=> compareModelSubjectUpdate(subjects[c.model], c.subject)
    /\ subjects' = IF ok THEN [subjects EXCEPT ![c.model] = c.subject]
                         ELSE subjects

\* Mutants of FenceModelSubject: the reference index is not looked at ...
FenceDespiteKeys(c, ok) ==
    /\ c.subject.deleted
    /\ ok <=> compareModelSubjectUpdate(subjects[c.model], c.subject)
    /\ subjects' = IF ok THEN [subjects EXCEPT ![c.model] = c.subject]
                         ELSE subjects

\* ... and the tombstone is not stored.
FenceWithoutTombstone(c, ok) ==
    /\ c.subject.deleted
    /\ ok <=> /\ KeysOfModel(c.model) = {}
              /\ compareModelSubjectUpdate(subjects[c.model], c.subject)
    /\ subjects' = subjects

FenceModelSubject(c, ok) ==
    /\ c.subject.deleted
    /\ ok <=> /\ KeysOfModel(c.model) = {}
              /\ compareModelSubjectUpdate(subjects[c.model], c.subject)
    /\ subjects' = IF ok THEN [subjects EXCEPT ![c.model] = c.subject]
                         ELSE subjects

ensureModelCanBackKey(m) == subjects[m] # None /\ ~subjects[m].deleted

\* CreateVirtualKey, ReplaceVirtualKey and DeleteVirtualKey, as far as models
\* are concerned: every model joined, kept or left must still be available.
prepareModelIndexMutations(k, ids) ==
    /\ ids # references[k]
    /\ \A m \in references[k] \cup ids : ensureModelCanBackKey(m)
    /\ references' = [references EXCEPT ![k] = ids]
    /\ UNCHANGED <<catalogVars, subjects, sent, saga, faults>>

\* A call reaches its handler again, late, or with nobody waiting for it.
Deliver(c) ==
    /\ \E ok \in BOOLEAN : SyncModelSubject(c, ok) \/ FenceModelSubject(c, ok)
    /\ UNCHANGED <<catalogVars, references, sent, saga, faults>>

-----------------------------------------------------------------------------
(***************************************************************************)
(* Providers, in the resource control plane. Disabling a provider does not *)
(* look at its models; deleting it requires that it has none.              *)
(***************************************************************************)
CreateProvider(p, status) ==
    /\ p \notin issued
    /\ issued' = issued \cup {p}
    /\ providers' = [providers EXCEPT ![p] = status]
    /\ UNCHANGED <<models, aliasLookup, subjects, references, sent, saga, faults>>

updateProvider(p, status) ==
    /\ providers[p] # None
    /\ providers' = [providers EXCEPT ![p] = status]
    /\ UNCHANGED <<models, aliasLookup, issued, subjects, references, sent, saga, faults>>

DeleteProviderIfNoModels(p) ==
    /\ providers[p] # None
    /\ \A m \in Models : models[m] # None => models[m].provider # p
    /\ providers' = [providers EXCEPT ![p] = None]
    /\ UNCHANGED <<models, aliasLookup, issued, subjects, references, sent, saga, faults>>

-----------------------------------------------------------------------------
(***************************************************************************)
(* Models, in the resource control plane.                                  *)
(***************************************************************************)
ensureProviderCanBackModel(p, status) ==
    /\ providers[p] # None
    /\ status = "active" => providers[p] = "active"

CreateModel(m, alias, p, status) ==
    LET model == [alias |-> alias, provider |-> p, status |-> status,
                  revision |-> 1] IN
    /\ saga = Idle
    /\ m \notin issued
    /\ aliasLookup[alias] = None
    /\ ensureProviderCanBackModel(p, status)
    /\ issued' = issued \cup {m}
    /\ models' = [models EXCEPT ![m] = model]
    /\ aliasLookup' = [aliasLookup EXCEPT ![alias] = m]
    /\ sent' = sent \cup {CallFor(m, model, FALSE)}
    /\ saga' = Begin("syncing", m, model)
    /\ UNCHANGED <<providers, subjects, references, faults>>

\* updateModel up to its first remote call or store transaction.
updateModel(m, p, status) ==
    LET goal == [alias |-> models[m].alias, provider |-> p, status |-> status,
                 revision |-> models[m].revision + 1] IN
    /\ saga = Idle
    /\ models[m] # None
    /\ ensureProviderCanBackModel(p, status)
    /\ IF status = "disabled"
       THEN /\ sent' = sent \cup {CallFor(m, goal, FALSE)}
            /\ saga' = Begin("disabling", m, goal)
       ELSE /\ sent' = sent
            /\ saga' = Begin("replacing", m, goal)
    /\ UNCHANGED <<catalogVars, subjects, references, faults>>

Update(m, p, status) ==
    /\ models[m] # None
    /\ models[m].revision < MaxRevision
    /\ updateModel(m, p, status)

\* The operator repeats the complete PUT of a model whose projection is behind.
RepeatPut(m) ==
    /\ models[m] # None
    /\ ~InSync(m)
    /\ models[m].revision < MaxRevision + MaxRepairs
    /\ updateModel(m, models[m].provider, models[m].status)

deleteModel(m) ==
    LET fence == [models[m] EXCEPT !.revision = @ + 1] IN
    /\ saga = Idle
    /\ models[m] # None
    /\ sent' = sent \cup {CallFor(m, fence, TRUE)}
    /\ saga' = Begin("fencing", m, fence)
    /\ UNCHANGED <<catalogVars, subjects, references, faults>>

SyncAnswered ==
    /\ saga.phase \in {"syncing", "disabling"}
    /\ \E ok \in BOOLEAN :
        /\ SyncModelSubject(CallFor(saga.model, saga.goal, FALSE), ok)
        /\ saga' = IF ok /\ saga.phase = "disabling"
                   THEN [saga EXCEPT !.phase = "replacing"]
                   ELSE Idle
    /\ UNCHANGED <<catalogVars, references, sent, faults>>

FenceAnswered ==
    /\ saga.phase = "fencing"
    /\ \E ok \in BOOLEAN :
        /\ FenceModelSubject(CallFor(saga.model, saga.goal, TRUE), ok)
        /\ saga' = IF ok THEN [saga EXCEPT !.phase = "removing"] ELSE Idle
    /\ UNCHANGED <<catalogVars, references, sent, faults>>

\* The providers ReplaceModel reads: the old one must exist, the new one must
\* be able to back the model.
ProvidersAgree(m, goal) ==
    /\ providers[models[m].provider] # None
    /\ ensureProviderCanBackModel(goal.provider, goal.status)

\* ReplaceModel commits; an active model is then synchronized.
ReplaceModel ==
    LET m == saga.model
        goal == saga.goal IN
    /\ saga.phase = "replacing"
    /\ ProvidersAgree(m, goal)
    /\ models' = [models EXCEPT ![m] = goal]
    /\ IF goal.status = "active"
       THEN /\ sent' = sent \cup {CallFor(m, goal, FALSE)}
            /\ saga' = [saga EXCEPT !.phase = "syncing"]
       ELSE /\ sent' = sent
            /\ saga' = Idle
    /\ UNCHANGED <<providers, aliasLookup, issued, subjects, references, faults>>

\* ReplaceModel answers an error: meanwhile the provider was deleted, or was
\* disabled under a model that is to be active.
ReplaceRefused ==
    /\ saga.phase = "replacing"
    /\ ~ProvidersAgree(saga.model, saga.goal)
    /\ saga' = Idle
    /\ UNCHANGED <<catalogVars, subjects, references, sent, faults>>

\* ModelRepository.DeleteModel.
RemoveModel ==
    LET m == saga.model IN
    /\ saga.phase = "removing"
    /\ models' = [models EXCEPT ![m] = None]
    /\ aliasLookup' = [aliasLookup EXCEPT ![models[m].alias] = None]
    /\ saga' = Idle
    /\ UNCHANGED <<providers, issued, subjects, references, sent, faults>>

\* The call times out, the store transaction fails, or the process restarts.
GiveUp ==
    /\ saga # Idle
    /\ faults < MaxFaults
    /\ faults' = faults + 1
    /\ saga' = Idle
    /\ UNCHANGED <<catalogVars, subjects, references, sent>>

-----------------------------------------------------------------------------
Init ==
    /\ providers = [p \in Providers |-> None]
    /\ models = [m \in Models |-> None]
    /\ aliasLookup = [a \in Aliases |-> None]
    /\ issued = {}
    /\ subjects = [m \in Models |-> None]
    /\ references = [k \in Keys |-> {}]
    /\ sent = {}
    /\ saga = Idle
    /\ faults = 0

ProviderNext ==
    \E p \in Providers :
        \/ \E s \in Status : CreateProvider(p, s) \/ updateProvider(p, s)
        \/ DeleteProviderIfNoModels(p)

ModelNext ==
    \/ \E m \in Models, p \in Providers, s \in Status :
        (\E a \in Aliases : CreateModel(m, a, p, s)) \/ Update(m, p, s)
    \/ \E m \in Models : RepeatPut(m) \/ deleteModel(m)
    \/ SyncAnswered \/ FenceAnswered
    \/ ReplaceModel \/ ReplaceRefused \/ RemoveModel
    \/ GiveUp

KeyPlaneNext ==
    \/ \E c \in sent : Deliver(c)
    \/ \E k \in Keys, ids \in SUBSET Models : prepareModelIndexMutations(k, ids)

Next == ProviderNext \/ ModelNext \/ KeyPlaneNext

Spec == Init /\ [][Next]_vars

\* A handler that holds modelMu runs on: its call is answered or times out,
\* its transaction returns.
SagaFairness ==
    WF_vars(SyncAnswered \/ FenceAnswered
            \/ ReplaceModel \/ ReplaceRefused \/ RemoveModel)

\* The operator keeps repeating DELETE while the model is there.
DeleteRetrySpec ==
    Spec /\ SagaFairness /\ \A m \in Models : SF_vars(deleteModel(m))

-----------------------------------------------------------------------------
\* The type of every variable; a revision is never 0.
TypeOK ==
    /\ providers \in [Providers -> Status \cup {None}]
    /\ models \in [Models -> Model \cup {None}]
    /\ aliasLookup \in [Aliases -> Models \cup {None}]
    /\ issued \subseteq Models \cup Providers
    /\ subjects \in [Models -> ModelSubject \cup {None}]
    /\ references \in [Keys -> SUBSET Models]
    /\ sent \subseteq Call
    /\ saga \in Saga
    /\ faults \in 0..MaxFaults

Authorized(m) == subjects[m] # None /\ subjects[m].status = "active"

(***************************************************************************)
(* A model subject authorizes only what the canonical model allows, under  *)
(* any loss, delay or repetition of calls (the fail-closed order of        *)
(* updateModel and deleteModel).                                           *)
(***************************************************************************)
NeverMorePermissive ==
    \A m \in Models :
        Authorized(m) => models[m] # None /\ models[m].status = "active"

(***************************************************************************)
(* An alias is never authorized through two models, although the alias of  *)
(* a deleted model may be given to a new one while calls of the old one    *)
(* are still under way.                                                    *)
(***************************************************************************)
AliasAuthorizedOnce ==
    \A m, n \in Models :
        Authorized(m) /\ Authorized(n) /\ subjects[m].alias = subjects[n].alias
            => m = n

(***************************************************************************)
(* Nothing dangles: the models of a virtual key exist and are not fenced,  *)
(* and the provider of every model exists.                                 *)
(***************************************************************************)
ReferencesExist ==
    /\ \A k \in Keys : \A m \in references[k] :
        models[m] # None /\ ensureModelCanBackKey(m)
    /\ \A m \in Models : models[m] # None => providers[models[m].provider] # None

(***************************************************************************)
(* "retrying deletion completes an idempotent fence followed by canonical  *)
(* removal" (docs/control-plane-api.md): a model whose DELETE is repeated  *)
(* and that no key references is eventually removed.                       *)
(***************************************************************************)
DeleteRetryCompletes ==
    \A m \in Models :
        (\E c \in sent : c.model = m /\ c.subject.deleted) ~> models[m] = None
=============================================================================
