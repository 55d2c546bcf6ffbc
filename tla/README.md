# GWAI in TLA+

GWAI is an AI gateway: administrators manage users, providers, models and
virtual keys through two control planes, and stateless gateways authorize
client requests and route them to provider adapters by reading the control
planes' state. This directory holds TLA+ specifications of its core, the TLC
instances that check them and proofs checked by TLAPS.

    tlc -workers 2 -config MCUserLifecycle.cfg MCUserLifecycle
    tlapm UserLifecycleProofs.tla

## 1. The system

| Part | State | Operations | Talks to |
|---|---|---|---|
| Resource control plane (`controlplane/service.go`, `model_service.go`) | `userMu`, `modelMu`; private store (users) and provider store (providers, models) | POST/PUT/DELETE of users, providers, models | the virtual-key control plane, by `SyncSubject`, `FenceSubject`, `SyncModel`, `FenceModel` |
| Virtual-key control plane (`virtual_key_service.go`, `repository.go`, `model_subject_repository.go`) | key store: keys, hash lookups, per-user and per-model indexes, `KeySubject`s, `ModelSubject`s | POST/PUT/DELETE of keys; sync and fence of subjects | - |
| Repositories (`repository.go`, `model_repository.go`) | one mutex per repository | read keys, compute one transaction, commit it with ETags | state store |
| State store (`state/`, `daprhttp/state.go`) | key -> value, ETag | `Get`, `Transact` | Dapr |
| Gateways (`runtime.go`, `dataplane/`, protocol packages) | none | authorize, resolve a route, translate, invoke the adapter | key store and provider store, adapters |
| Adapters (`openai`, `openairesponses`, `anthropic`, `gemini`, `adapterconfig`) | configuration | resolve the provider, translate, call upstream | provider store, upstream |
| Admin web UI (`adminui/`) | sessions, CSRF and key-creation tokens | login, logout, forms | both control planes |
| Translators and IR (`ir/`, `*/translate.go`) | none | protocol <-> IR, validation | - |

What is hard about it:

- **Two stores, no common transaction.** A user or a model lives in one store
  and its authorization projection in another. Every change is a saga whose
  remote call may be lost, repeated (Dapr's service retries), delayed past the
  caller's 15 s time-out, or committed and reported as failed. The code orders
  the two writes so that failures only restrict access, and orders calls by
  revision.
- **Two mutexes over one store.** Providers and models share a store; the two
  repositories have a mutex each, and the service loads records before either
  is taken. ETags and the "touch" of the provider record are what is left.
- **Transactions that outlive their caller.** A cancelled request releases the
  mutex; its transaction may still be applied.
- **Gateways read several keys of two stores without a snapshot.**
- **Conversations that change protocol.** A gateway keeps nothing between two
  requests; the client sends the whole history, calls, results and IDs
  included, and each request may be translated for a provider of another
  protocol. What one translation drops or makes up, a later one must cope with.
- **Administrators who share resources.** Forms are posted twice, or after
  someone else changed the resource; answers are lost while the change is made;
  sessions end while a request is under way and are bounded in number.

Correctness, part by part: authorization is never wider than the canonical
record; keys and models never dangle; an acknowledged write is what
authorization sees; names are unique and lookups exact; concurrent repository
operations are atomic; a repeated request repairs or completes what a failed
one left behind; a form does once what it says and its page tells what
happened; a conversation keeps its calls, results, options and counts through
every translation.

## 2. The modules

| Module | Models |
|---|---|
| `UserLifecycle` | users, `KeySubject`s and key ownership across the two control planes |
| `ModelLifecycle` | providers, models, `ModelSubject`s and key references across the two control planes |
| `Store` | `state.Store`: entries, ETags, `Transact` |
| `Repository` | what all repositories share: mutex, reads, one transaction, late transactions |
| `ProviderCatalog` | the provider and model repositories, read by read, over `Store` |
| `Catalog` | what `ProviderCatalog` promises: atomic operations on providers and models |
| `VirtualKeys` | the virtual-key repository, read by read, over `Store` |
| `KeyRegistry` | what `VirtualKeys` promises: atomic operations on keys and subjects |
| `Gateway` | a client request through gateway and adapter, composed with `ModelLifecycle` |
| `AdminSession` | the session store of the admin UI, as operators on its map |
| `AdminAPI` | entity tags, `If-Match`, error statuses, and when an outcome is ambiguous |
| `AdminUI` | browser, admin UI and control plane, over `AdminSession` and `AdminAPI` |
| `IR` | the intermediate representation and its validation |
| `OpenAIChat`, `OpenAIResponses`, `Anthropic`, `Gemini` | one protocol each, both directions, gateway and adapter side |
| `Conversation` | a client's conversation through gateways and adapters, over the five modules above |
| `UserLifecycleProofs`, `ModelLifecycleProofs`, `ProviderCatalogProofs`, `VirtualKeysProofs`, `GatewayProofs`, `AdminUIProofs`, `ConversationProofs` | the TLAPS proofs about the module named |
| `HistoryProofs` | the TLAPS proofs about `Conversation` that follow the history from request to request |
| `MC*` | TLC instances (symmetry sets) of the module named |

### UserLifecycle

State: the private store (`users`, `userIndex`, `emailLookup`), the IDs handed
out, the key store (`subjects`, `keyOwner`), the saga that holds `userMu`, and
`sent`, every call ever sent. `sent` only grows and `Deliver` may take any of
its members at any time: that is loss, delay, reordering and duplication in
one. A handler of the virtual-key control plane is one step because its
repository mutex covers it. A saga is cut exactly where the code waits: after
each remote call and each store transaction. `GiveUp` ends it at any such
point (time-out, store error, restart), leaving its call under way. Between a
remote commit and the caller's view of it lies `Deliver` followed by `GiveUp`.

`Update` is a PUT with new content; `RepeatPut` is the operator repeating a
complete PUT because the projection is behind. They differ only in the bound.

Left out: names and time stamps, requests refused before anything changes
(validation, `If-Match`, a duplicate email on POST), key status and expiry. A
private-store transaction commits while its caller waits or not at all; late
transactions are the subject of `ProviderCatalog`, and what is found there
applies to the email lookup too.

### ModelLifecycle

The same shape for models, with the provider in addition: a provider may be
disabled or deleted between the check in `normalizeModelInput` and the commit
of `ReplaceModel`, which looks again. `prepareModelIndexMutations` is every
create, update and delete of a key as far as models are concerned.

### ProviderCatalog and Catalog

A handler runs one operation: the service loads the record (`updateProvider`,
`deleteModel`, ...), the repository takes its mutex (`Lock`), reads one key per
step (`Read`) and runs one transaction (`Commit`), computed by the operator
named after the repository function from exactly what was read. An early
return is the empty transaction; that the code skips its remaining reads makes
no difference to anyone else. `DeleteProviderIfNoModels` runs under the *model*
repository's mutex, as in the code. `Abandon` and `Land` are a caller that goes
away while its transaction is with the store, and the transaction arriving
later; each such transaction takes one of the places `Strays`, so that their
number is the bound. A request that is abandoned keeps what it has read, from
which its transaction follows. Remote calls are left to `ModelLifecycle`.

`writes` stands for `UpdatedAt` and `Revision`: it makes versions of a record
distinct for the `reflect.DeepEqual` of the code. ETags are counters per key, as
in `MemoryStore`; an absent entry has none. No ETag value comes back with
another content, because IDs are never reused and the two collection indexes
are never deleted.

`ImplementsCatalog` maps the store's records to `Catalog`: every step of the
repositories is one atomic operation of the catalog or none.

### VirtualKeys and KeyRegistry

The same machinery (`EXTENDS Repository`) for the key store, with one mutex.
All operations read in one order: `Reads` says which keys, `Stage` and `Before`
in which order.
`KeySubject` and `ModelSubject` follow the same rules in the code, written
twice; here both are a subject, and the user and the models of a key are its
`Holders`. A model subject's alias never changes and is left out.
`CreateVirtualKey`, `ReplaceVirtualKey` and `DeleteVirtualKey` touch the subject
of every holder and rewrite its index (`HolderOperations`); a fence reads the
index but guards only the subject. `normalizeInput` makes the same checks
before the mutex; the model lets every request through to the mutex, which
allows more than the code does. Calls of
the resource control plane carry any payload in any order. The secret of a key
is random, so each key has a hash of its own; expiry is left to `Gateway`.

`ImplementsKeyRegistry` maps the store to `KeyRegistry`, where a key is only
written over holders that can hold it and a holder is never fenced.

### Gateway

`Admin == INSTANCE ModelLifecycle` supplies providers, models, projections and
key references, sagas, late calls and faults included; added are the user, the
status and the expiry of a key (`keys`), the subjects of the users (`owners`) and a
clock. A PUT of a key may give it to another user (`PutKey`). What `UserLifecycle`
says of the order of revisions is not repeated: a subject may become active or
disabled at any time (`SyncSubject`). A user without a subject, or with a tombstone,
is to a gateway a disabled one, and has no keys. The request is a sequence of
reads in the order of `Authorize`, `ResolveRoute` and the adapter's `generate`;
administration may happen between any two. `resolveActiveModel` runs twice, as
in the code. Each check uses what was read at that moment; the first failing
one ends the request. The subject that `ReadOwner` reads is that of the user the
key had in `ReadKey`, whoever has it by then. `Finish` is the answer or the time-out of
`Dispatcher.Generate`. `shut` is a history variable: the conditions that have
been against the request in every state since it arrived. Gateways keep no
state between requests, so one request at a time is enough. The four adapters
resolve their provider in the same way. Translation and the upstream answer are
in `Conversation`.

### AdminSession, AdminAPI and AdminUI

`AdminSession` has one operator per method of `sessionStore`; each runs under
the store's mutex and is therefore one step of whoever calls it. `AdminAPI` has
what a client of the administrative API sees. A tag is equal to another exactly
if the two representations are: the code digests the JSON.

In `AdminUI` a browser opens pages, which are one step each, and submits the
form it was last shown, any number of times and with any cookie it has since
got. A submission (`reqs`) goes through `auth`, the CSRF check with the handler's
first part (`updateUser`, `deleteModel`, ...), the consumption of the token
(`ConsumeToken`) or the read before a status change (`GetCurrent`), the call and
the page (`Receive`, `Lose`). The call (`calls`) goes through `Serve`, where
the service loads the resource and checks the precondition, and `CommitCall`, where the
repository compares and swaps. The deadline of the request does not stop the
call. The four kinds of resource have handlers of their own in the code and in
the model; that they are written alike does not mean that they are alike, so
each run of the model picks one kind. Between record and projection, users and
models can fail in the way `UserLifecycle` shows; here this is only a set of
possible answers (`Answers`).

Random values never collide: a session's CSRF token is identified with the
session, tokens are counted. A sign-in challenge is signed and unforgeable.
Expiry times have half-millisecond units, so that a displayed time can differ
from the stored one. Flash messages, lists and the dashboard are left out.

`Deliveries` is 1 because the client hides the length of the body, which keeps
Dapr from repeating a call; with 2, `OneKeyPerForm` and `OutcomeIsTold` are violated.

### IR, the protocols and Conversation

A protocol module has, under the names of the code, the gateway's two
translations (request to IR, IR response to answer) and the adapter's two. A
translation returns a value or is refused. The other operators of the
module (`Ask`, `Echo`, `Results`, `Read`, `Seen`, `Talk`, `ToolReplies`,
`OddReplies`) are the client and the provider: how a request is spelled in the protocol, how a
client puts an answer back into its history, what a provider may reply, odd
replies included (calls without IDs, cut short, filtered, with an image), and how an observer
reads either.

`Conversation` passes one request at a time along: client, gateway, adapter,
provider and back. `Abandon` is a lost invocation or a deadline; the adapters'
refusals and the provider's errors are reported as the code does, so that an
adapter's own refusal reaches the client as 502. The client repeats what
failed, answers calls in any order its protocol lets it tell apart, and goes on
after an answer without calls. `portable` is a history variable: all that was
said so far can be expressed in every protocol. Only such a conversation can be
promised to be accepted everywhere; the others may be refused, and have to be
refused rather than altered, which is what the remaining properties say. An answer
to a reply that is not `OrdinaryReply` is not portable once it is in the history;
that its translation is refused makes no difference to the history.

`"-"` stands for an empty string or an absent field. Text, schemas, temperature
and `top_p` are left out, images are of two kinds
(URL, inline), arguments and outcomes are opaque. Streaming is refused by all
gateways, so that it does not appear. The request number stands for the request
ID: requests have fresh IDs, as `HTTPMiddleware` gives them. A client that
sends the same `X-Request-ID` with each request makes the call IDs generated for
Gemini collide.

## 3. Runs

| Run | Instance | Result |
|---|---|---|
| `user_lifecycle` | 2 users, 2 emails, 1 key, revisions to 2 (fences to 3), 2 faults | `TypeOK`, `NeverMorePermissive`, `OwnersExist`, `CompletedIsProjected`, `LookupsExact`, `AheadOnlyToRestrict` hold |
| `user_repair` | 1 user, revisions to 3 and 4 repairs, 2 faults | `PutRepairs`, `FenceDrains` hold |
| `model_lifecycle` | 2 models, 2 providers, 1 alias, 1 key, 2 faults | `TypeOK`, `NeverMorePermissive`, `AliasAuthorizedOnce`, `ReferencesExist` hold |
| `model_delete_retry` | 1 model, 1 provider, 1 fault | `DeleteRetryCompletes` **fails** |
| `provider_catalog` | 2 providers, 2 slugs, 2 app IDs, 1 model, 2 handlers, empty store | `ImplementsCatalog`, `IndexesExact`, `LookupsExact` hold |
| `catalog_unique` | 2 providers, 1 slug, 1 late transaction | `UniqueNames` **fails** |
| `virtual_keys` | 2 users, 1 model, 1 key, 1 late transaction, subjects present | `ImplementsKeyRegistry`, `IndexesExact`, `HoldersLive`, `SubjectsAdvance` hold |
| `keys_first_sync` | 1 user, 1 model, 1 late transaction, empty store | `SubjectsAdvance` **fails** |
| `gateway` | 2 users, 1 model, 1 provider, 1 key, clock to 1, 1 fault | `TypeOK`, `RevokedIsRefused`, `DisabledIsNotRouted` hold |
| `gateway_alias` | 2 models that share an alias, 1 provider | `RoutedIsListed` **fails** |
| `admin_ui` | 1 resource of each kind, 2 submissions, clock to 3, sessions last 2, tokens and challenges 1, 1 session and 1 pending token at a time, 1 change by others | `TypeOK`, `OneKeyPerForm`, `OutcomeIsTold`, `NoBlindOverwrite`, `ExpiryKept`, `SessionBound`, `RefusedOnlyWhenFull` hold |
| `conversation` | 6 kinds of client, 5 kinds of provider, 3 requests; one request for each unusual option | `TypeOK`, `HistoryAccepted`, `ResultsPaired`, `CallsSigned`, `FailuresMarked`, `DemandsKept`, `PromptKept`, `StatusTells`, `AnswerKept`, `UsageKept` hold |

Bounds. Two users, models or providers are what a conflict over one name
takes; two faults let a failed request be followed by a failed repair; two
revisions give a stale, a current and a future call. For what section 4 lists,
the proofs remove the bounds altogether. In `virtual_keys` the late transaction
is the second actor, so one handler is enough, and one key: keys meet only in
the indexes and in the subjects they touch. A clock of two instants makes an expiry lie before, at
and after the present. In `gateway` two users are what it takes to move a key, and the one fault is a PUT that is
given up and leaves a disabled projection with the revision of the next, active
record. One provider is enough there: each property speaks of the provider that the
request ends up with, which was read once and is checked twice. In
`admin_ui` the bounds depend on the kind (`MCBounds`): sessions come and go with
users, forms are posted twice with providers and keys, others interfere with
providers and models. The handlers of the kinds share these steps, so that each
hazard is met by one of them, and the product of all bounds would be out of
reach. Three requests make a history in which two rounds of calls, from two
protocols, are translated for a third. Options do not depend on the history and
are checked in conversations of one request. Deadlock is not checked where the
system may stop:
IDs and PUTs are finite in an instance.

Fairness. `SagaFairness`: a handler that holds the mutex is answered or times
out (HTTP client and request deadlines) and so runs on. Strong fairness of
`RepeatPut` and of the repeated DELETE is the operator the documentation speaks
of, who repeats the request until it succeeds. Faults are bounded, so that
eventually a request is not interrupted. `PutRepairs` does not promise anything
for a user whose DELETE has been fenced: a tombstone is final, and
`FenceDrains` says how that ends.

### What the failing runs show

1. `model_delete_retry`. A disabling PUT stores its subject at revision n+1 and
   is given up before the canonical record changes. A DELETE now fences with
   revision n+1 as well, with another payload, and conflicts; so does every
   retry, until a PUT moves the revision on. `docs/control-plane-api.md` says
   that retrying deletion completes. `deleteUser` is written the same way.
2. `catalog_unique`. `createResource` reads the unique lookups, then the index,
   and guards only the index. An abandoned create that lands between the two
   reads of the next create goes unnoticed: both take the slug. The mutex that
   should exclude this was released when the first caller timed out.
3. `keys_first_sync`. The first `SyncSubject` of a user has no ETag to be
   guarded by. Its handler times out, a later call disables the user, and then
   the first transaction lands: the user is active again. Every later call is
   guarded (`virtual_keys`). The first write of a collection index and the
   fence of a user that has no subject yet have the same gap; `virtual_keys` and
   `catalog_unique` therefore start from subjects and indexes that exist
   (`Bootstrapped`).
4. `gateway_alias`. Between `Authorize` and `ResolveRoute` the key gives up the
   model, the model is deleted and a new one takes its alias: the request is
   routed to a model the key never listed. Passing the authorized model on
   would close the gap. `DisabledIsNotRouted` is not affected, because the second
   resolution makes every other check again.

## 4. Proofs

Every theorem below holds for all values of the constants that satisfy the
named assumptions; where a property follows in parentheses a run checks it too,
and shows the instance that the proof generalizes.

**`UserLifecycleProofs`**, from `BoundAssumption` (the bounds are naturals) and
`NoneAssumption` (`None` is not a record or an ID): `TypeCorrect`, `FailClosed`
(`NeverMorePermissive`), `NoOrphanKeys` (`OwnersExist`),
`CompletedWritesVisible` (`CompletedIsProjected`), `LookupsStayExact`
(`LookupsExact`) and `NeverOutOfReach` (`AheadOnlyToRestrict`).

None of the invariants but the type and the lookups is inductive: whether a user
may become authorized depends on the calls that may still arrive.
`ProtocolInv` therefore bounds every call ever sent by the canonical record
(`CallsBounded`: a revocation may be one revision ahead, an activation never),
says that a disabled record with an activation still under way is shielded by a
subject at least as recent (`DisabledIsShielded`), that a record is only missing
behind a tombstone (`GoneIsFenced`), and what the running saga has achieved
(`SagaProgress`). `ProtocolInvariant` proves it with one lemma per action;
`HandlerStep` and `ProjectedStep` hold what all deliveries have in common. From
it `NeverMorePermissive` follows: an authorizing subject was sent as an
activation (`SubjectsWereSent`), is not ahead of the record, and would be
shielded against if the record were disabled. So does `AheadOnlyToRestrict`
(`ReachImplied`): it is what keeps the revisions that the next requests use
from being behind the projection.

**`ModelLifecycleProofs`**, from the same two assumptions: `TypeCorrect`,
`FailClosed` (`NeverMorePermissive`), `OneModelPerAlias` (`AliasAuthorizedOnce`)
and `NothingDangles` (`ReferencesExist`). The inductive `ProtocolInv` has the
shape of the one for users. In addition calls carry the alias of their record
while it exists, and lookups are exact (`AliasesExact`): an alias authorized
twice would need two records with one alias.

**`ProviderCatalogProofs`**, from `NoneAssumption` (`None` is not a provider or a
model) and given `Strays = {}`, that is, as long as no transaction outlives its
caller: `IndexesStayExact` (`IndexesExact`), `LookupsStayExact` (`LookupsExact`),
`NamesStayUnique` (`UniqueNames`) and the refinement `CatalogImplemented`
(`ImplementsCatalog`), for any number of handlers and with or without
bootstrapped indexes. For all but the indexes the hypothesis is needed:
`catalog_unique` shows two providers with one slug once a transaction arrives
late, since a lookup that was found absent has no ETag to guard it. So here the
mutexes carry part of the proof. The inductive `CatalogInv` says that the store is in order, that a
mutex has one holder, and what that holder may rely on. Under the provider
mutex a name that was free still is, and a provider that was read is gone, the
same, or out of date for good (`ProviderReadOK`): `DeleteProviderIfNoModels`
runs under the other mutex and may remove it. Under the model mutex everything
about models is as it was read, and a provider is the same or out of date
(`ModelReadOK`): a `PUT` of the provider may overtake. The index of the
providers is written under both, and its ETag decides (`IndexReadOK`); it is never
absent when a provider is deleted (`OpOK`), so the unguarded first write cannot
meet a deletion. `TransactionEffect` shows that a transaction changes nothing or
is one of `ProviderPut`, `ProviderDropped`, `ModelPut` and `ModelDropped`; each
keeps the store in order, leaves the other mutex's holder in order
(`OthersStay`) and is a step of `Catalog`.

**`VirtualKeysProofs`**, from `BoundAssumption` (users and models are different
things, models are ordered, revisions start at 1) and `NoneAssumption`, and given
`Bootstrapped`, without which `keys_first_sync` fails: `IndexesStayExact`
(`IndexesExact`), `HoldersStayLive` (`HoldersLive`), the action property
`SubjectsOnlyAdvance` (`SubjectsAdvance`) and the refinement
`RegistryImplemented` (`ImplementsKeyRegistry`), for any number of handlers and
of late transactions. The inductive `RegistryInv` says what an operation may
rely on of what it has read. A subject, the collection index and a key that was
read are still there, or their ETag is out of date for good (`Recalled`). The
index of a holder is current if the subject is (`HolderRecalled`): it is read
after the subject, and never written without it. That is the protocol of the
touch, and why a fence may look at an index it does not guard. A key being
created is not there and nobody else knows its ID (`Alone`). So a transaction
whose ETags are current acts on what is stored, however late it comes:
`TransactionEffect` shows that it changes nothing or is one of `KeyPut`,
`KeyDropped` and `SubjectPut`, each of which keeps the store in order, leaves
the others' readings in order (`OthersStay`) and is a step of `KeyRegistry`. The
mutex is not used: ETags alone carry the proof.

**`GatewayProofs`**, from `TimeAssumption` and `AdminAssumption` (what
`ModelLifecycle` assumes). `AdministrationIsLifecycle` shows `Spec =>
Lifecycle!Spec`: the composed system refines `ModelLifecycle`, so that its
theorems hold for the stores a gateway reads (`StoresAreConsistent`) without
being proved again. `TypeCorrect`; `RevocationHolds` (`RevokedIsRefused`) and
`DisablingHolds` (`DisabledIsNotRouted`) follow from `RequestInv`: a condition a
request has passed is no longer in `shut`, and nothing enters `shut` while the
request lives. For `RevocationHolds` it names the user: the one the key was read
with, as long as the request remembers him, and some user afterwards.

**`AdminUIProofs`**, from the assumptions of `AdminSession` and `AdminUI` (the
bounds are naturals, the requests are finitely many):
`TypeCorrect`, `KeyPerForm` (`OneKeyPerForm`), `OutcomeReported`
(`OutcomeIsTold`) and the action properties `NoLostUpdate`
(`NoBlindOverwrite`), `ExpiryPreserved` (`ExpiryKept`), `SessionRequired`
(`SessionBound`) and `RoomForSessions` (`RefusedOnlyWhenFull`). The inductive
`Sound` says that forms and calls carry versions the resource has or had
(`WorldOK`), the store holds only sessions that began, were not signed out and
keep their expiry, never too many (`StoreOK`), a request that is past the
authentication had a live session of its own and its call is what its form
says (`RequestsOK`), and a creation token is pending in the store or taken by
one request (`TokensOK`). The first lemmas say what each method of
`sessionStore` may do to sessions and tokens (`Shrunk`, `Grown`).

**`ConversationProofs`**, from `ConfigurationAssumption` and `WantsAssumption`
(wants are records of the fields listed): `TypeCorrect` (with it: what is on
its way to an adapter or back is valid IR), `StatusHonest` (`StatusTells`),
`DemandsReachProvider` (`DemandsKept`), `UsageReported` (`UsageKept`) and
`AnswersTrue` (`AnswerKept`), for conversations of any length, answers with any
number of parts and any wants. Two invariants are inductive, the second over the
first: `Carried` follows the demands outward and the counts homeward, `Telling`
follows calls and end of a reply homeward, through each translator; there is
one lemma per protocol and direction. The rest of the module has no
invariant: it shows of each adapter that its provider sees the calls, results
and images of the IR request, in their order (`Shows`), also where messages are
split (tool messages of Chat, items of Responses) or merged (contents of Gemini).
It also shows of the gateways of Chat, Responses and Anthropic that the IR request
says what the client's messages say (`Faithful`, message by message with `Lift`).

**`HistoryProofs`**, from the same assumptions: `ResultsReachProvider`
(`ResultsPaired`), `CallsReachGeminiSigned` (`CallsSigned`),
`PromptsReachProvider` (`PromptKept`) and `FailuresReachProviderMarked`
(`FailuresMarked`). What a provider sees depends on all earlier requests, so
`Keeping` says of the whole history what the gateway would make of it: an IR
request whose content is `Faithful` to the calls that were made, that is, has
the same calls in the same order, one result of each, and the images of the
prompt. For Chat, Responses and Anthropic a message can be read by itself
(`Lift`), and the history says what its messages say. A Gemini history cannot be
read that way, because a function response without ID belongs to the first open
call that it fits; `GemKept` follows the translator's state (messages, content,
open calls) through every content, and needs that a client without IDs answers
in the order of the calls and that the open calls are those of the last echo.
`Dating` is needed for `FailuresMarked` only: arguments tell the request whose
answer they came from, so that calls with the same outcome fared alike.

The facts about sequences at the start of `ConversationProofs` are by induction:
the provers cannot instantiate an induction rule whose parameter is an
operator, but `SetInduction` is one about a set of numbers, and follows from the
well-foundedness of the order on the naturals. That reaches `FlattenSeq` and the folds of
the translators, which are recursive functions of a position.

Only model-checked:

- liveness under fairness (`PutRepairs`, `FenceDrains`), out of the prover's reach;
- `HistoryAccepted` of `Conversation`. It does not hold for every value of the
  constants: a `Plain` that some protocol refuses (two tools of one name, a limit of
  no tokens) makes every conversation fail. It would take an assumption that all of the
  translators' demands are met by `Plain`, and the proof that every translator
  accepts what the others produce, where the theorems above only need what a
  translator returns when it accepts.

## 5. Not modelled

One replica of each administrative writer is assumed, as the Helm chart
enforces. HTTP encoding, authentication of the administrative APIs, logging,
rendering, wiring (`cmd/`, `platform/`, `daprhttp/secrets.go`, `adapterconfig`)
and secrets have no state that the properties speak of. Reads (`List*`, `Get*`,
the lists and the dashboard of the admin UI) change nothing. The parser of the
`If-Match` header works on characters and has unit tests of its own; flash messages
are text for the next page.

Where the models except something, because the code does not do it:

- `RevokedIsRefused` asks for one user who had the key, active and unexpired, at some
  time since the request arrived, and was active himself at some time since; not
  at the same time. `Authorize` reads the key and then the subject of the
  user it had (`runtime.go:34`, `:44`). If the key is read with a disabled user, is
  moved to another disabled user and the first one is then enabled, the request gets
  through although the owner of the key was disabled at every instant.
- `FailuresMarked` leaves OpenAI Chat out. Its adapter (`toolMessages`) drops the
  error flag of a result, whereas the adapters of Responses and Gemini refuse
  the request or pass the flag on; `docs/adr/0002-versioned-ir.md` says that
  adapters fail explicitly when semantics cannot be preserved.
- `HistoryAccepted` speaks of portable histories and, for the way back, of ordinary
  replies. An answer with a refusal,
  a filtered answer without content or an image of the assistant, echoed by the
  client, is refused by its own gateway. A reply of Anthropic that names another model than
  the one asked for, such as the dated snapshot of an alias (`anthropic/translate.go:165`), and a
  reply of Gemini with a thought signature on a part that is no call
  (`gemini/translate.go:560`) are refused by the adapter and reach the client as 502,
  as do other replies that an adapter cannot represent (`OddReplies`).
- `OutcomeIsTold` promises for users and models only that a success is one: a
  user or model can be saved and then answered with 409, when its projection is
  refused, and the page calls that a failure. `PutRepairs` is what follows.

What the models simplify, because nothing in the repository reaches it:

- The IR's tool results always have the name of their call, as all four gateways
  set it; that Gemini's `contentToProvider` fills in a missing one, or refuses, is left out.
  Clients of Gemini send the role of a content; an absent one means `user` in the code.
- `requireEntityTag` of the admin UI's client (`client.go:189`) calls a PUT without an
  `ETag` in its answer a failure; both control planes send one with every entity.
- `inputExpiry` compares displayed times where the code compares their texts. A
  browser that shortens the text of an untouched field is outside the model.
- A reply of OpenAI Chat with `choices = 1` is one choice of index 0 and of the
  assistant. Missing IDs and wrong types or roles of an Anthropic reply are one
  kind of malformed reply.
- Providers take any request the adapter sends. What a real one makes of a legal but
  unusual shape (a Responses history, for example, reaches Chat as one assistant
  message per call) is outside the model.

## 6. Plan

Done: users, models, the provider catalog, virtual keys, the gateway, the admin
UI, the translators and adapters; the proofs of section 4. Next:

1. `IndexesExact` of `ProviderCatalog` with late transactions: with bootstrapped
   collection indexes the ETags alone should carry it, as in `VirtualKeys`. That
   needs an invariant without the lookups, which a late transaction breaks.
2. `HistoryAccepted` of `Conversation`, for a `Plain` that every protocol can
   express: next to what a translator returns, when it accepts.
