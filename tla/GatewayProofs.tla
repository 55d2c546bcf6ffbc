---------------------------- MODULE GatewayProofs ----------------------------
(***************************************************************************)
(* Proofs about Gateway, for any models, providers, aliases, keys, users,  *)
(* adapter assignment and bounds: what administrators do is a behaviour of         *)
(* ModelLifecycle, and a request is never routed past a condition that was *)
(* against it all the time.                                                *)
(***************************************************************************)
EXTENDS Gateway, TLAPS

\* The administration again, with the theorems proved about it.
Lifecycle == INSTANCE ModelLifecycleProofs

-----------------------------------------------------------------------------
(***************************************************************************)
(* The administration is ModelLifecycle.                                   *)
(***************************************************************************)
LEMMA LifecycleAssumptions ==
    Lifecycle!BoundAssumption /\ Lifecycle!NoneAssumption
  BY AdminAssumption
  DEF Status, Admin!Model, Lifecycle!Model, Admin!ModelSubject,
      Lifecycle!ModelSubject, Admin!Status, Lifecycle!Status, Admin!Revision,
      Lifecycle!Revision

\* Both instances of ModelLifecycle are the same specification.
LEMMA SameAdministration ==
    /\ Admin!Init <=> Lifecycle!Init
    /\ Admin!ProviderNext <=> Lifecycle!ProviderNext
    /\ Admin!ModelNext <=> Lifecycle!ModelNext
    /\ \A c : Admin!Deliver(c) <=> Lifecycle!Deliver(c)
    /\ \A m : Admin!ensureModelCanBackKey(m) <=> Lifecycle!ensureModelCanBackKey(m)
    /\ \A k, ids : Admin!prepareModelIndexMutations(k, ids)
                    <=> Lifecycle!prepareModelIndexMutations(k, ids)
<1> USE DEF Admin!CallFor, Lifecycle!CallFor, Admin!modelSubjectFor,
        Lifecycle!modelSubjectFor, Admin!Begin, Lifecycle!Begin, Admin!Idle,
        Lifecycle!Idle, Admin!catalogVars, Lifecycle!catalogVars,
        Admin!Status, Lifecycle!Status, Admin!SyncModelSubject,
        Lifecycle!SyncModelSubject, Admin!FenceModelSubject,
        Lifecycle!FenceModelSubject, Admin!compareModelSubjectUpdate,
        Lifecycle!compareModelSubjectUpdate, Admin!KeysOfModel,
        Lifecycle!KeysOfModel, Admin!ensureModelCanBackKey,
        Lifecycle!ensureModelCanBackKey
<1>1. Admin!Init <=> Lifecycle!Init
  BY DEF Admin!Init, Lifecycle!Init
<1>2. Admin!ProviderNext <=> Lifecycle!ProviderNext
  BY DEF Admin!ProviderNext, Admin!CreateProvider, Admin!updateProvider,
         Admin!DeleteProviderIfNoModels, Lifecycle!ProviderNext,
         Lifecycle!CreateProvider, Lifecycle!updateProvider,
         Lifecycle!DeleteProviderIfNoModels
<1>3. Admin!ModelNext <=> Lifecycle!ModelNext
  BY DEF Admin!ModelNext, Admin!CreateModel, Admin!Update, Admin!RepeatPut,
         Admin!updateModel, Admin!deleteModel, Admin!SyncAnswered,
         Admin!FenceAnswered, Admin!ReplaceModel, Admin!ReplaceRefused,
         Admin!RemoveModel, Admin!GiveUp, Admin!InSync,
         Admin!ensureProviderCanBackModel, Admin!ProvidersAgree,
         Lifecycle!ModelNext, Lifecycle!CreateModel, Lifecycle!Update,
         Lifecycle!RepeatPut, Lifecycle!updateModel, Lifecycle!deleteModel,
         Lifecycle!SyncAnswered, Lifecycle!FenceAnswered,
         Lifecycle!ReplaceModel, Lifecycle!ReplaceRefused,
         Lifecycle!RemoveModel, Lifecycle!GiveUp, Lifecycle!InSync,
         Lifecycle!ensureProviderCanBackModel, Lifecycle!ProvidersAgree
<1>4. \A c : Admin!Deliver(c) <=> Lifecycle!Deliver(c)
  BY DEF Admin!Deliver, Lifecycle!Deliver
<1>5. \A k, ids : Admin!prepareModelIndexMutations(k, ids)
                    <=> Lifecycle!prepareModelIndexMutations(k, ids)
  BY DEF Admin!prepareModelIndexMutations, Lifecycle!prepareModelIndexMutations
<1>6. \A m : Admin!ensureModelCanBackKey(m) <=> Lifecycle!ensureModelCanBackKey(m)
  OBVIOUS
<1> QED
  BY <1>1, <1>2, <1>3, <1>4, <1>5, <1>6

\* A PUT that leaves the models of a key as they are does not touch the
\* administration's state; any other write of a key mutates the model index.
LEMMA AdministrationStep ==
    Lifecycle!TypeOK /\ [Next]_vars => [Lifecycle!Next]_(Lifecycle!vars)
<1> SUFFICES ASSUME Lifecycle!TypeOK, [Next]_vars
             PROVE  Lifecycle!Next \/ UNCHANGED Lifecycle!vars
  OBVIOUS
<1> USE DEF Lifecycle!vars, Lifecycle!catalogVars, adminVars
<1>1. CASE ModelAdmin
  <2>1. \/ Lifecycle!ProviderNext \/ Lifecycle!ModelNext
        \/ \E c \in sent : Lifecycle!Deliver(c)
    BY <1>1, SameAdministration DEF ModelAdmin
  <2> QED
    BY <2>1 DEF Lifecycle!Next, Lifecycle!KeyPlaneNext
<1>2. ASSUME NEW k \in Keys, NEW ids \in SUBSET Models, NEW key,
             PutKey(k, ids, key)
      PROVE  Lifecycle!Next \/ UNCHANGED Lifecycle!vars
  <2>1. /\ references' = [references EXCEPT ![k] = ids]
        /\ UNCHANGED <<providers, models, aliasLookup, issued, subjects, sent,
                       saga, faults>>
    BY <1>2 DEF PutKey
  <2>2. CASE ids = references[k]
    BY <2>1, <2>2 DEF Lifecycle!TypeOK
  <2>3. CASE ids # references[k]
    <3>1. \A m \in references[k] \cup ids : Lifecycle!ensureModelCanBackKey(m)
      BY <1>2, SameAdministration DEF PutKey, normalizeInput
    <3>2. Lifecycle!prepareModelIndexMutations(k, ids)
      BY <2>1, <2>3, <3>1 DEF Lifecycle!prepareModelIndexMutations
    <3> QED
      BY <3>2 DEF Lifecycle!Next, Lifecycle!KeyPlaneNext
  <2> QED
    BY <2>2, <2>3
<1>3. ASSUME NEW k \in Keys, DeleteKey(k) PROVE Lifecycle!Next
  <2>1. Lifecycle!prepareModelIndexMutations(k, {})
    BY <1>3, SameAdministration DEF DeleteKey
  <2> QED
    BY <2>1 DEF Lifecycle!Next, Lifecycle!KeyPlaneNext
<1>4. CASE \/ \E u \in Users, s \in Status : SyncSubject(u, s)
           \/ Tick
  BY <1>4 DEF SyncSubject, Tick
<1>5. CASE Request
  BY <1>5 DEF Request, Reading, Receive, ReadKey, ReadOwner, ReadAlias, ReadModel,
         ReadModelSubject, ReadProvider, ResolveProviderByAdapterAppID, Finish
<1>6. CASE UNCHANGED vars
  BY <1>6 DEF vars
<1> QED
  BY <1>1, <1>2, <1>3, <1>4, <1>5, <1>6 DEF Next, Administration

LEMMA LifecycleTypes == Spec => []Lifecycle!TypeOK
<1>1. Init => Lifecycle!TypeOK
  BY LifecycleAssumptions, SameAdministration, Lifecycle!TypeInit DEF Init
<1>2. Lifecycle!TypeOK /\ [Next]_vars => Lifecycle!TypeOK'
  BY LifecycleAssumptions, AdministrationStep, Lifecycle!TypeStep
<1> QED
  BY <1>1, <1>2, PTL DEF Spec

(***************************************************************************)
(* Whatever administrators do beside a request (keys with a user, a status *)
(* and an expiry, owners, one adapter per provider included) is a behaviour of    *)
(* ModelLifecycle.                                                         *)
(***************************************************************************)
THEOREM AdministrationIsLifecycle == Spec => Lifecycle!Spec
<1>1. Init => Lifecycle!Init
  BY SameAdministration DEF Init
<1> QED
  BY <1>1, AdministrationStep, LifecycleTypes, PTL DEF Spec, Lifecycle!Spec

(***************************************************************************)
(* So the gateway reads from stores whose projections are fail-closed,     *)
(* authorize an alias once and leave nothing dangling.                     *)
(***************************************************************************)
THEOREM StoresAreConsistent ==
    Spec => [](/\ Lifecycle!NeverMorePermissive
               /\ Lifecycle!AliasAuthorizedOnce
               /\ Lifecycle!ReferencesExist)
  BY AdministrationIsLifecycle, LifecycleAssumptions, Lifecycle!FailClosed,
     Lifecycle!OneModelPerAlias, Lifecycle!NothingDangles, PTL

-----------------------------------------------------------------------------
(***************************************************************************)
(* The request.  A condition leaves shut when the request passes the check *)
(* of it, and does not come back before the request ends.                  *)
(***************************************************************************)
AuthorizedUser ==
    \E u \in Users : <<"key", u>> \notin shut /\ <<"owner", u>> \notin shut

PassedChecks ==
    /\ call.next = "owner" => <<"key", call.user>> \notin shut
    /\ call.next \notin {"none", "key", "owner"} => AuthorizedUser
    /\ call.next \in {"subject", "provider", "adapter", "upstream"} =>
          <<"model", call.model>> \notin shut
    /\ call.next \in {"provider", "adapter", "upstream"} =>
          <<"subject", call.model>> \notin shut
    /\ call.next \in {"adapter", "upstream"} =>
          <<"provider", call.provider>> \notin shut

RequestInv == TypeOK /\ PassedChecks

LEMMA NoCallType == NoCall \in Call /\ Informed(NoCall) /\ NoCall.next = "none"
  BY DEF NoCall, Call, Informed

\* What call becomes in one read.
LEMMA CallTypeStep ==
  ASSUME Lifecycle!TypeOK, TypeOK, Request
  PROVE  call' \in Call /\ Informed(call')
<1> USE NoCallType
<1>1. ASSUME NEW k \in Keys, NEW a \in Aliases, Receive(k, a)
      PROVE  call' \in Call /\ Informed(call')
  BY <1>1 DEF Receive, NoCall, Call, Informed
<1>2. CASE ReadKey
  <2>1. call \in Call /\ Informed(call) /\ call.next = "key"
    BY <1>2 DEF ReadKey, Reading, TypeOK
  <2>2. references[call.key] \in SUBSET Models
    BY <2>1 DEF Informed, Lifecycle!TypeOK
  <2>3. keys[call.key] # None => keys[call.key].user \in Users
    BY <2>1 DEF Informed, TypeOK, VirtualKey
  <2>4. \/ call' = NoCall
        \/ /\ keys[call.key] # None
           /\ call' = [call EXCEPT !.next = "owner", !.user = keys[call.key].user,
                                   !.allowed = references[call.key]]
    BY <1>2 DEF ReadKey, Continue
  <2> QED
    BY <2>1, <2>2, <2>3, <2>4 DEF Call, Informed
<1>3. CASE ReadOwner
  <2>1. call \in Call /\ Informed(call) /\ call.next = "owner"
    BY <1>3 DEF ReadOwner, Reading, TypeOK
  <2>2. call' = NoCall \/ call' = [call EXCEPT !.next = "alias", !.user = None]
    BY <1>3 DEF ReadOwner, Continue
  <2> QED
    BY <2>1, <2>2 DEF Call, Informed
<1>4. CASE ReadAlias
  <2> DEFINE m == aliasLookup[call.alias]
  <2>1. call \in Call /\ Informed(call) /\ call.next = "alias"
    BY <1>4 DEF ReadAlias, Reading, TypeOK
  <2>2. m \in Models \cup {None}
    BY <2>1 DEF Informed, Lifecycle!TypeOK
  <2>3. \/ call' = NoCall
        \/ m # None /\ call' = [call EXCEPT !.next = "model", !.model = m]
    BY <1>4 DEF ReadAlias, Continue
  <2> HIDE DEF m
  <2> QED
    BY <2>1, <2>2, <2>3 DEF Call, Informed
<1>5. CASE ReadModel
  <2> DEFINE model == models[call.model]
  <2>1. call \in Call /\ Informed(call) /\ call.next = "model"
    BY <1>5 DEF ReadModel, Reading, TypeOK
  <2>2. model # None => model.provider \in Providers /\ model.revision \in Nat
    BY <2>1 DEF Informed, Lifecycle!TypeOK, Lifecycle!Model, Lifecycle!Revision
  <2>3. \/ call' = NoCall
        \/ /\ model # None
           /\ call' = [call EXCEPT !.next = "subject",
                                   !.provider = model.provider,
                                   !.revision = model.revision]
    BY <1>5 DEF ReadModel, Continue
  <2> HIDE DEF model
  <2> QED
    BY <2>1, <2>2, <2>3 DEF Call, Informed
<1>6. CASE ReadModelSubject
  <2>1. call \in Call /\ Informed(call) /\ call.next = "subject"
    BY <1>6 DEF ReadModelSubject, Reading, TypeOK
  <2>2. \/ call' = NoCall
        \/ call' = [NoCall EXCEPT !.next = "alias", !.key = call.key,
                                  !.alias = call.alias]
        \/ call' = [call EXCEPT !.next = "provider"]
    BY <1>6 DEF ReadModelSubject, Continue
  <2> QED
    BY <2>1, <2>2 DEF NoCall, Call, Informed
<1>7. CASE ReadProvider \/ ResolveProviderByAdapterAppID
  <2>1. call \in Call /\ Informed(call) /\ call.next \in {"provider", "adapter"}
    BY <1>7 DEF ReadProvider, ResolveProviderByAdapterAppID, Reading, TypeOK
  <2>2. \/ call' = NoCall
        \/ call' = [call EXCEPT !.next = "adapter"]
        \/ call' = [call EXCEPT !.next = "upstream"]
    BY <1>7 DEF ReadProvider, ResolveProviderByAdapterAppID, Continue
  <2> QED
    BY <2>1, <2>2 DEF Call, Informed
<1>8. CASE Finish
  BY <1>8 DEF Finish
<1> QED
  BY <1>1, <1>2, <1>3, <1>4, <1>5, <1>6, <1>7, <1>8 DEF Request

LEMMA TypeStep == Lifecycle!TypeOK /\ TypeOK /\ [Next]_vars => TypeOK'
<1> SUFFICES ASSUME Lifecycle!TypeOK, TypeOK, [Next]_vars PROVE TypeOK'
  OBVIOUS
<1>1. CASE UNCHANGED vars
  BY <1>1 DEF vars, keyVars, TypeOK
<1>2. CASE Next
  <2>1. call' \in Call /\ Informed(call')
    BY <1>2, CallTypeStep
    DEF Next, Administration, ModelAdmin, PutKey, DeleteKey, SyncSubject,
        Tick, TypeOK
  <2>2. shut' \subseteq Condition
    BY <1>2 DEF Next, TypeOK
  <2> DEFINE KeyTypes == /\ keys \in [Keys -> VirtualKey \cup {None}]
                         /\ owners \in [Users -> Status]
                         /\ now \in 0..MaxTime
  <2>3. KeyTypes'
    <3>1. CASE Request
      BY <3>1 DEF Request, Reading, Receive, ReadKey, ReadOwner, ReadAlias,
         ReadModel, ReadModelSubject, ReadProvider,
         ResolveProviderByAdapterAppID, Finish, keyVars, TypeOK
    <3>2. CASE ModelAdmin
      BY <3>2 DEF ModelAdmin, keyVars, TypeOK
    <3>3. ASSUME NEW k \in Keys, NEW ids, NEW key \in VirtualKey,
                 PutKey(k, ids, key)
          PROVE  KeyTypes'
      BY <3>3 DEF PutKey, TypeOK
    <3>4. ASSUME NEW k \in Keys, DeleteKey(k) PROVE KeyTypes'
      BY <3>4 DEF DeleteKey, TypeOK
    <3>5. CASE \/ \E u \in Users, s \in Status : SyncSubject(u, s)
               \/ Tick
      BY <3>5, TimeAssumption DEF SyncSubject, Tick, TypeOK
    <3> QED
      BY <1>2, <3>1, <3>2, <3>3, <3>4, <3>5 DEF Next, Administration
  <2> QED
    BY <2>1, <2>2, <2>3 DEF TypeOK
<1> QED
  BY <1>1, <1>2

LEMMA TypeInit == Init => TypeOK
  BY NoCallType, TimeAssumption DEF Init, Status, TypeOK

(***************************************************************************)
(* Types hold in every reachable state, and a request never goes on to a   *)
(* read without the alias, model or provider the read depends on.          *)
(***************************************************************************)
THEOREM TypeCorrect == Spec => []TypeOK
  BY TypeInit, TypeStep, LifecycleTypes, PTL DEF Spec

-----------------------------------------------------------------------------
\* What leaves shut, and that nothing enters it, while a request goes on.
LEMMA ShutShrinks ==
  ASSUME Next, call.next # "none"
  PROVE  shut' \subseteq shut
  BY NoCallType DEF Next

LEMMA AuthorizedStays ==
  ASSUME Next, call.next # "none", AuthorizedUser
  PROVE  AuthorizedUser'
  BY ShutShrinks DEF AuthorizedUser

LEMMA CheckPassed ==
  ASSUME Next, NEW kind, NEW x, ~Against(kind, x)'
  PROVE  <<kind, x>> \notin shut'
  BY DEF Next

\* Administrators do not touch the request.
LEMMA AdministrationKeepsCall == Administration => call' = call
  BY DEF Administration, ModelAdmin, PutKey, DeleteKey, SyncSubject,
         Tick

LEMMA PassedStep ==
  ASSUME TypeOK, PassedChecks, [Next]_vars
  PROVE  PassedChecks'
<1>1. CASE UNCHANGED vars
  BY <1>1 DEF vars, PassedChecks, AuthorizedUser
<1> SUFFICES ASSUME Next PROVE PassedChecks'
  BY <1>1
<1>2. CASE call'.next \in {"none", "key"}
  BY <1>2 DEF PassedChecks
<1>3. CASE Administration
  <2>1. call' = call
    BY <1>3, AdministrationKeepsCall
  <2> QED
    BY <1>2, <2>1, ShutShrinks, AuthorizedStays DEF PassedChecks
<1>4. call \in Call
  BY DEF TypeOK
<1>5. call' = NoCall => call'.next = "none"
  BY NoCallType
<1>6. CASE ReadKey
  <2> SUFFICES ASSUME call' # NoCall PROVE PassedChecks'
    BY <1>2, <1>5
  <2>1. /\ call.next = "key"
        /\ keys[call.key] # None /\ keys[call.key].status = "active"
        /\ ~Expired(keys[call.key])
        /\ call' = [call EXCEPT !.next = "owner", !.user = keys[call.key].user,
                                !.allowed = references[call.key]]
        /\ UNCHANGED <<keys, now>>
    BY <1>6 DEF ReadKey, Reading, Continue, keyVars
  <2>2. /\ call'.next = "owner" /\ call'.key = call.key
        /\ call'.user = keys[call.key].user
    BY <1>4, <2>1 DEF Call
  <2>3. ~Against("key", keys[call.key].user)'
    <3>1. ~(keys[call.key].expires # None /\ now >= keys[call.key].expires)
      BY <2>1 DEF Expired
    <3> QED
      BY <2>1, <2>2, <3>1 DEF Against
  <2>4. <<"key", call'.user>> \notin shut'
    BY <2>1, <2>2, <2>3, CheckPassed
  <2> QED
    BY <2>2, <2>4 DEF PassedChecks
<1>7. CASE ReadOwner
  <2> SUFFICES ASSUME call' # NoCall PROVE PassedChecks'
    BY <1>2, <1>5
  <2> PICK u : u = call.user
    OBVIOUS
  <2>1. /\ call.next = "owner" /\ owners[u] = "active" /\ owners' = owners
        /\ call' = [call EXCEPT !.next = "alias", !.user = None]
    BY <1>7 DEF ReadOwner, Reading, Continue, keyVars
  <2>2. call'.next = "alias" /\ u \in Users
    BY <1>4, <2>1 DEF Call, TypeOK, Informed
  <2>3. ~Against("owner", u)'
    BY <2>1 DEF Against
  <2>4. <<"owner", u>> \notin shut'
    BY <2>3, CheckPassed
  <2>5. <<"key", u>> \notin shut'
    BY <2>1, ShutShrinks DEF PassedChecks
  <2>6. AuthorizedUser'
    BY <2>2, <2>4, <2>5 DEF AuthorizedUser
  <2> QED
    BY <2>2, <2>6 DEF PassedChecks
<1>8. CASE ReadAlias
  <2> SUFFICES ASSUME call' # NoCall PROVE PassedChecks'
    BY <1>2, <1>5
  <2>1. /\ call.next = "alias"
        /\ call' = [call EXCEPT !.next = "model", !.model = aliasLookup[call.alias]]
    BY <1>8 DEF ReadAlias, Reading, Continue
  <2>2. call'.next = "model"
    BY <1>4, <2>1 DEF Call
  <2> QED
    BY <2>1, <2>2, ShutShrinks, AuthorizedStays DEF PassedChecks
<1>9. CASE ReadModel
  <2> SUFFICES ASSUME call' # NoCall PROVE PassedChecks'
    BY <1>2, <1>5
  <2>1. /\ call.next = "model"
        /\ models[call.model] # None /\ models[call.model].status = "active"
        /\ call' = [call EXCEPT !.next = "subject",
                                !.provider = models[call.model].provider,
                                !.revision = models[call.model].revision]
        /\ models' = models
    BY <1>9 DEF ReadModel, Reading, Continue, adminVars
  <2>2. call'.next = "subject" /\ call'.model = call.model
    BY <1>4, <2>1 DEF Call
  <2>3. ~Against("model", call.model)'
    BY <2>1, <2>2 DEF Against
  <2>4. <<"model", call.model>> \notin shut'
    BY <2>2, <2>3, CheckPassed
  <2> QED
    BY <2>1, <2>2, <2>4, ShutShrinks, AuthorizedStays DEF PassedChecks
<1>10. CASE ReadModelSubject
  <2> SUFFICES ASSUME call' # NoCall PROVE PassedChecks'
    BY <1>2, <1>5
  <2>1. /\ call.next = "subject"
        /\ SubjectAgrees(subjects[call.model])
        /\ \/ call' = [NoCall EXCEPT !.next = "alias", !.key = call.key,
                                     !.alias = call.alias]
           \/ call' = [call EXCEPT !.next = "provider"]
        /\ subjects' = subjects
    BY <1>10 DEF ReadModelSubject, Reading, Continue, adminVars
  <2>2. CASE call' = [NoCall EXCEPT !.next = "alias", !.key = call.key,
                                    !.alias = call.alias]
    <3>1. call'.next = "alias"
      BY <2>2 DEF NoCall
    <3> QED
      BY <2>1, <3>1, ShutShrinks, AuthorizedStays DEF PassedChecks
  <2>3. CASE call' = [call EXCEPT !.next = "provider"]
    <3>1. call'.next = "provider" /\ call'.model = call.model
      BY <1>4, <2>3 DEF Call
    <3>2. ~Against("subject", call.model)'
      BY <2>1, <3>1 DEF Against, SubjectAgrees
    <3>3. <<"subject", call.model>> \notin shut'
      BY <3>1, <3>2, CheckPassed
    <3> QED
      BY <2>1, <3>1, <3>3, ShutShrinks, AuthorizedStays DEF PassedChecks
  <2> QED
    BY <2>1, <2>2, <2>3
<1>11. CASE ReadProvider
  <2> SUFFICES ASSUME call' # NoCall PROVE PassedChecks'
    BY <1>2, <1>5
  <2>1. /\ call.next = "provider" /\ providers[call.provider] = "active"
        /\ call' = [call EXCEPT !.next = "adapter"] /\ providers' = providers
    BY <1>11 DEF ReadProvider, Reading, Continue, adminVars
  <2>2. /\ call'.next = "adapter" /\ call'.model = call.model
        /\ call'.provider = call.provider
    BY <1>4, <2>1 DEF Call
  <2>3. ~Against("provider", call.provider)'
    BY <2>1, <2>2 DEF Against
  <2>4. <<"provider", call.provider>> \notin shut'
    BY <2>2, <2>3, CheckPassed
  <2> QED
    BY <2>1, <2>2, <2>4, ShutShrinks, AuthorizedStays DEF PassedChecks
<1>12. CASE ResolveProviderByAdapterAppID
  <2> SUFFICES ASSUME call' # NoCall PROVE PassedChecks'
    BY <1>2, <1>5
  <2>1. call.next = "adapter" /\ call' = [call EXCEPT !.next = "upstream"]
    BY <1>12 DEF ResolveProviderByAdapterAppID, Reading, Continue
  <2>2. /\ call'.next = "upstream" /\ call'.model = call.model
        /\ call'.provider = call.provider
    BY <1>4, <2>1 DEF Call
  <2> QED
    BY <2>1, <2>2, ShutShrinks, AuthorizedStays DEF PassedChecks
<1>13. ASSUME NEW k \in Keys, NEW a \in Aliases, Receive(k, a)
       PROVE  call'.next = "key"
  BY <1>13 DEF Receive, NoCall
<1>14. CASE Finish
  BY <1>2, <1>5, <1>14 DEF Finish
<1> QED
  BY <1>2, <1>3, <1>6, <1>7, <1>8, <1>9, <1>10, <1>11, <1>12, <1>13, <1>14
  DEF Next, Request

(***************************************************************************)
(* What a request has passed was in order at some time since it arrived:   *)
(* the inductive invariant of the reads.                                   *)
(***************************************************************************)
THEOREM RequestInvariant == Spec => []RequestInv
<1>1. Init => PassedChecks
  BY NoCallType DEF Init, PassedChecks
<1> QED
  BY <1>1, TypeCorrect, PassedStep, PTL DEF Spec, RequestInv

(***************************************************************************)
(* Revocation is never outrun: however administrators interleave with the  *)
(* separate reads of Authorize and ResolveRoute, moving the key from user  *)
(* to user included, a request that reaches the provider does so for a     *)
(* user who had its key, active, and was active since it arrived.          *)
(***************************************************************************)
THEOREM RevocationHolds == Spec => []RevokedIsRefused
<1>1. RequestInv => RevokedIsRefused
  BY DEF RequestInv, PassedChecks, AuthorizedUser, RevokedIsRefused, Upstream
<1> QED
  BY <1>1, RequestInvariant, PTL

(***************************************************************************)
(* Nor is a request routed through a model, a projection or a provider     *)
(* that was disabled all along, although the alias is resolved twice and   *)
(* the provider is looked up twice.                                        *)
(***************************************************************************)
THEOREM DisablingHolds == Spec => []DisabledIsNotRouted
<1>1. RequestInv => DisabledIsNotRouted
  BY DEF RequestInv, PassedChecks, DisabledIsNotRouted, Upstream
<1> QED
  BY <1>1, RequestInvariant, PTL
=============================================================================
