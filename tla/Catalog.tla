------------------------------- MODULE Catalog -------------------------------
(***************************************************************************)
(* What the provider catalog promises: providers and models change one     *)
(* whole operation at a time, names are unique, an active model is only    *)
(* ever written over an active provider, and a provider is only removed    *)
(* when it has no models.                                                  *)
(***************************************************************************)
CONSTANTS Providers, Models, Slugs, Apps, Aliases, None

VARIABLES providers, models

Status == {"active", "disabled"}
Provider == [slug : Slugs, app : Apps, status : Status]
Model == [alias : Aliases, provider : Providers, status : Status]

CanBack(p, status) ==
    /\ providers[p] # None
    /\ status = "active" => providers[p].status = "active"

AddProvider(p, provider) ==
    /\ providers[p] = None
    /\ \A q \in Providers : providers[q] # None =>
          providers[q].slug # provider.slug /\ providers[q].app # provider.app
    /\ providers' = [providers EXCEPT ![p] = provider]
    /\ UNCHANGED models

SetProvider(p, status) ==
    /\ providers[p] # None
    /\ providers' = [providers EXCEPT ![p].status = status]
    /\ UNCHANGED models

DropProvider(p) ==
    /\ providers[p] # None
    /\ \A m \in Models : models[m] # None => models[m].provider # p
    /\ providers' = [providers EXCEPT ![p] = None]
    /\ UNCHANGED models

AddModel(m, model) ==
    /\ models[m] = None
    /\ \A n \in Models : models[n] # None => models[n].alias # model.alias
    /\ CanBack(model.provider, model.status)
    /\ models' = [models EXCEPT ![m] = model]
    /\ UNCHANGED providers

SetModel(m, p, status) ==
    /\ models[m] # None
    /\ CanBack(p, status)
    /\ models' = [models EXCEPT
          ![m] = [alias |-> @.alias, provider |-> p, status |-> status]]
    /\ UNCHANGED providers

DropModel(m) ==
    /\ models[m] # None
    /\ models' = [models EXCEPT ![m] = None]
    /\ UNCHANGED providers

Init ==
    /\ providers = [p \in Providers |-> None]
    /\ models = [m \in Models |-> None]

Next ==
    \/ \E p \in Providers :
        \/ \E provider \in Provider : AddProvider(p, provider)
        \/ \E s \in Status : SetProvider(p, s)
        \/ DropProvider(p)
    \/ \E m \in Models :
        \/ \E model \in Model : AddModel(m, model)
        \/ \E p \in Providers, s \in Status : SetModel(m, p, s)
        \/ DropModel(m)

Spec == Init /\ [][Next]_<<providers, models>>
=============================================================================
