------------------------------- MODULE Gateway -------------------------------
(***************************************************************************)
(* A client request on its way through a gateway and an adapter, while     *)
(* administrators change what it depends on.                               *)
(*                                                                         *)
(* The gateway has no state of its own and no snapshot: Authorize and then *)
(* ResolveRoute read key, subjects, alias, model and provider one by one   *)
(* from two stores, and the adapter looks its provider up once more.  The  *)
(* administration is ModelLifecycle, with what it leaves out of a key: its *)
(* user, status and expiry, the subjects of the users, and the time.       *)
(***************************************************************************)
EXTENDS Naturals

CONSTANTS
    Models, Providers, Aliases, Keys, None,     \* as in ModelLifecycle
    MaxRevision, MaxRepairs, MaxFaults,
    Users,          \* the users keys belong to
    AdapterAppID,   \* AdapterAppID[p]: the adapter a provider is created with
    MaxTime         \* bound: the clock

ASSUME TimeAssumption == MaxTime \in Nat

VARIABLES
    providers, models, aliasLookup, issued,     \* as in ModelLifecycle
    subjects, references, sent, saga, faults,
    keys,       \* keys[k]: user, status and expiry of a virtual key, or None
    owners,     \* owners[u]: the status of the KeySubject of a user
    now,        \* the clock
    call,       \* the request in the gateway or adapter
    shut        \* the conditions that were against it ever since it started

adminVars == <<providers, models, aliasLookup, issued, subjects, references,
               sent, saga, faults>>
keyVars == <<keys, owners, now>>
vars == <<adminVars, keyVars, call, shut>>

Admin == INSTANCE ModelLifecycle

Status == {"active", "disabled"}

ASSUME AdminAssumption ==
    /\ MaxRevision \in Nat /\ MaxRepairs \in Nat /\ MaxFaults \in Nat
    /\ None \notin Models \cup Admin!Model \cup Admin!ModelSubject \cup Status

\* A key that never expires has no expiry; time 0 is the beginning.
Expiry == 1..MaxTime \cup {None}

VirtualKey == [user : Users, status : Status, expires : Expiry]

Expired(key) == key.expires # None /\ key.expires <= now

-----------------------------------------------------------------------------
(***************************************************************************)
(* Administration.                                                         *)
(***************************************************************************)
\* No two providers are registered for one adapter.
AdapterAppsUnique ==
    \A p, q \in Providers :
        p # q /\ providers[p] # None /\ providers[q] # None =>
            AdapterAppID[p] # AdapterAppID[q]

ModelAdmin ==
    /\ \/ Admin!ProviderNext /\ AdapterAppsUnique'
       \/ Admin!ModelNext
       \/ \E c \in sent : Admin!Deliver(c)
    /\ UNCHANGED <<keyVars, call>>

\* A user who does not exist yet, or not any more, is here a disabled one without
\* keys: neither lets a request through, nor can he get an active key.
ensureSubjectCanOwnKey(key) ==
    key.status = "active" => owners[key.user] = "active"

\* An active key needs active models and an expiry to come.
normalizeInput(ids, key) ==
    /\ ids # {}
    /\ ensureSubjectCanOwnKey(key)
    /\ \A m \in ids : Admin!ensureModelCanBackKey(m)
    /\ key.status = "active" =>
          /\ \A m \in ids : subjects[m].status = "active"
          /\ ~Expired(key)

\* POST and PUT of a key that is, or becomes, active or disabled; a PUT may
\* give it to another user.
PutKey(k, ids, key) ==
    /\ normalizeInput(ids, key)
    /\ \A m \in references[k] : Admin!ensureModelCanBackKey(m)
    /\ references' = [references EXCEPT ![k] = ids]
    /\ keys' = [keys EXCEPT ![k] = key]
    /\ UNCHANGED <<providers, models, aliasLookup, issued, subjects, sent, saga,
                   faults, owners, now, call>>

DeleteKey(k) ==
    /\ keys[k] # None
    /\ Admin!prepareModelIndexMutations(k, {})
    /\ keys' = [keys EXCEPT ![k] = None]
    /\ UNCHANGED <<owners, now, call>>

\* A user is enabled or disabled; which revision may replace which is
\* UserLifecycle's.
SyncSubject(u, status) ==
    /\ owners' = [owners EXCEPT ![u] = status]
    /\ UNCHANGED <<adminVars, keys, now, call>>

Tick ==
    /\ now < MaxTime
    /\ now' = now + 1
    /\ UNCHANGED <<adminVars, keys, owners, call>>

-----------------------------------------------------------------------------
(***************************************************************************)
(* The request.  call.next is the read that comes next; a check that fails *)
(* ends the request with an error.                                         *)
(***************************************************************************)
Call ==
    [next     : {"none", "key", "owner", "alias", "model", "subject",
                 "provider", "adapter", "upstream"},
     key      : Keys \cup {None},
     alias    : Aliases \cup {None},
     user     : Users \cup {None},                 \* the UserID of the key
     allowed  : (SUBSET Models) \cup {None},       \* the allowlist of the key
     model    : Models \cup {None},
     provider : Providers \cup {None},
     revision : Nat]

\* What the reads still to come depend on has been read.
Informed(c) ==
    /\ c.next # "none" => c.key \in Keys
    /\ c.next \in {"key", "owner", "alias", "model", "subject"} => c.alias \in Aliases
    /\ c.next = "owner" => c.user \in Users
    /\ c.next \in {"model", "subject", "provider", "adapter", "upstream"} =>
          c.model \in Models
    /\ c.next \in {"subject", "provider", "adapter", "upstream"} =>
          c.provider \in Providers

NoCall == [next |-> "none", key |-> None, alias |-> None, user |-> None,
           allowed |-> None, model |-> None, provider |-> None, revision |-> 0]

Reading(next) == call.next = next /\ UNCHANGED <<adminVars, keyVars>>

\* Go on with what was read if ok.
Continue(ok, read) == call' = IF ok THEN read ELSE NoCall

Receive(k, alias) ==
    /\ Reading("none")
    /\ call' = [NoCall EXCEPT !.next = "key", !.key = k, !.alias = alias]

\* GetVirtualKeyByHash.  The hash lookup exists exactly while the key does.
ReadKey ==
    /\ Reading("key")
    /\ LET key == keys[call.key] IN
       Continue(/\ key # None
                /\ key.status = "active"
                /\ ~Expired(key),
                [call EXCEPT !.next = "owner", !.user = key.user,
                             !.allowed = references[call.key]])

\* Mutant of ReadOwner: whoever has the key now is asked for.
ReadPresentOwner ==
    /\ Reading("owner")
    /\ Continue(/\ keys[call.key] # None
                /\ owners[keys[call.key].user] = "active",
                [call EXCEPT !.next = "alias", !.user = None])

\* The subject of the user the key had when it was read.
ReadOwner ==
    /\ Reading("owner")
    /\ Continue(owners[call.user] = "active",
                [call EXCEPT !.next = "alias", !.user = None])

\* resolveActiveModel: the alias, the model, its subject.  Authorize has the
\* allowlist still to check, ResolveRoute has not.
Authorizing == call.allowed # None

\* Mutant of ReadAlias: an alias without a model is not noticed.
ReadAliasUnchecked ==
    /\ Reading("alias")
    /\ call' = [call EXCEPT !.next = "model", !.model = aliasLookup[call.alias]]

ReadAlias ==
    /\ Reading("alias")
    /\ LET m == aliasLookup[call.alias] IN
       Continue(m # None, [call EXCEPT !.next = "model", !.model = m])

ReadModel ==
    /\ Reading("model")
    /\ LET model == models[call.model] IN
       Continue(model # None /\ model.status = "active",
                [call EXCEPT !.next = "subject", !.provider = model.provider,
                             !.revision = model.revision])

\* Mutant of SubjectAgrees: the revision alone decides.
RevisionAgrees(subject) == subject # None /\ subject.revision = call.revision

SubjectAgrees(subject) ==
    /\ subject # None
    /\ subject.alias = call.alias
    /\ subject.status = "active"
    /\ ~subject.deleted
    /\ subject.revision = call.revision

\* The end of Authorize, which throws the resolution away, or of the second
\* resolution.
ReadModelSubject ==
    /\ Reading("subject")
    /\ Continue(/\ SubjectAgrees(subjects[call.model])
                /\ Authorizing => call.model \in call.allowed,
                IF Authorizing
                THEN [NoCall EXCEPT !.next = "alias", !.key = call.key,
                                    !.alias = call.alias]
                ELSE [call EXCEPT !.next = "provider"])

\* ResolveRoute; the adapter of the provider is invoked.
ReadProvider ==
    /\ Reading("provider")
    /\ Continue(providers[call.provider] = "active", [call EXCEPT !.next = "adapter"])

\* The adapter looks up the provider registered for it, which must be the one
\* of the route, and calls upstream.
ResolveProviderByAdapterAppID ==
    /\ Reading("adapter")
    /\ Continue(\E p \in Providers :
                    /\ AdapterAppID[p] = AdapterAppID[call.provider]
                    /\ providers[p] = "active"
                    /\ p = call.provider,
                [call EXCEPT !.next = "upstream"])

\* The answer comes back, or the request times out at any point.
Finish ==
    /\ call # NoCall
    /\ call' = NoCall
    /\ UNCHANGED <<adminVars, keyVars>>

-----------------------------------------------------------------------------
(***************************************************************************)
(* What may be against a request.                                          *)
(***************************************************************************)
Condition ==
    {"key", "owner"} \X Users
    \cup {"model", "subject", "unlisted"} \X Models
    \cup {"provider"} \X Providers

Against(kind, x) ==
    CASE kind = "key" ->
            LET key == keys[call.key] IN
            \/ key = None \/ key.user # x \/ key.status # "active"
            \/ key.expires # None /\ now >= key.expires
      [] kind = "owner" -> owners[x] # "active"
      [] kind = "model" -> models[x] = None \/ models[x].status # "active"
      [] kind = "subject" -> subjects[x] = None \/ subjects[x].status # "active"
      [] kind = "unlisted" -> x \notin references[call.key]
      [] kind = "provider" -> providers[x] # "active"

-----------------------------------------------------------------------------
Init ==
    /\ Admin!Init
    /\ keys = [k \in Keys |-> None]
    /\ owners = [u \in Users |-> "disabled"]
    /\ now = 0
    /\ call = NoCall
    /\ shut = {}

Administration ==
    \/ ModelAdmin
    \/ \E k \in Keys :
        \/ \E ids \in SUBSET Models, key \in VirtualKey : PutKey(k, ids, key)
        \/ DeleteKey(k)
    \/ \E u \in Users, s \in Status : SyncSubject(u, s)
    \/ Tick

Request ==
    \/ \E k \in Keys, a \in Aliases : Receive(k, a)
    \/ ReadKey \/ ReadOwner
    \/ ReadAlias \/ ReadModel \/ ReadModelSubject
    \/ ReadProvider \/ ResolveProviderByAdapterAppID
    \/ Finish

Next ==
    /\ Administration \/ Request
    /\ shut' = IF call' = NoCall THEN {}
               ELSE {c \in IF call = NoCall THEN Condition ELSE shut :
                        Against(c[1], c[2])'}

Spec == Init /\ [][Next]_vars

-----------------------------------------------------------------------------
\* The type of every variable that ModelLifecycle does not have; a request
\* never goes on to a read without what the read depends on.
TypeOK ==
    /\ keys \in [Keys -> VirtualKey \cup {None}]
    /\ owners \in [Users -> Status]
    /\ now \in 0..MaxTime
    /\ call \in Call /\ Informed(call)
    /\ shut \subseteq Condition

Upstream == call.next = "upstream"

(***************************************************************************)
(* Revocation is never outrun: a request reaches the provider only on      *)
(* behalf of some user who had its key, active and unexpired, at some time *)
(* since it arrived, and who was active at some time since it arrived.     *)
(* Whoever moves, disables or deletes the key, or disables a user, before  *)
(* the request arrives keeps it out.                                       *)
(*                                                                         *)
(* The two times may differ: Authorize reads the key and later the subject *)
(* of the user the key had.  A key that moves away in between may have had *)
(* a disabled user at every instant, first the one it is read with, who is *)
(* enabled again before his subject is read, and then another.             *)
(***************************************************************************)
RevokedIsRefused ==
    Upstream =>
        \E u \in Users : <<"key", u>> \notin shut /\ <<"owner", u>> \notin shut

(***************************************************************************)
(* Nor does it reach a provider that was disabled ever since it arrived,   *)
(* or go there for a model that was, in the catalog or in its projection,  *)
(* whatever alias and provider meant in between.                           *)
(***************************************************************************)
DisabledIsNotRouted ==
    Upstream =>
        /\ shut \cap ({"model", "subject"} \X {call.model}) = {}
        /\ <<"provider", call.provider>> \notin shut

(***************************************************************************)
(* The model a request is routed to was on the allowlist of its key at     *)
(* some time since it arrived.                                             *)
(***************************************************************************)
RoutedIsListed == Upstream => <<"unlisted", call.model>> \notin shut
=============================================================================
