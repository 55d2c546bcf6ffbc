------------------------------- MODULE AdminUI -------------------------------
(***************************************************************************)
(* The administration UI between one browser and the control planes.       *)
(*                                                                         *)
(* The browser holds one cookie and the last form it was shown, which it   *)
(* may submit more than once, at the same time too, and go on to another   *)
(* page meanwhile.  Each submission is a request that the server takes     *)
(* through auth, the CSRF check, the handler, the call to a control plane  *)
(* and the page that tells the outcome; the steps of several requests      *)
(* interleave, the session may end between any two of them, and the answer *)
(* to the call may be lost while the call itself is still on its way.      *)
(*                                                                         *)
(* There is one resource of one kind, and other clients of the API change  *)
(* it too.  Pages that only read are one step.                             *)
(***************************************************************************)
EXTENDS AdminSession, AdminAPI, Sequences

CONSTANTS
    Kinds,          \* what the resource is: user, provider, model or key
    Requests,       \* submissions of a form; each is made once
    Inputs,         \* what the administrator fills in
    ChallengeTTL,   \* loginChallengeTTL
    Bounds          \* bounds, for each kind: time (the clock), logins (sessions
                    \* created), requests, tokens (key-creation forms opened)
                    \* and others (changes made by other clients)

ASSUME UIAssumption ==
    /\ Kinds \subseteq {"user", "provider", "model", "key"}
    /\ IsFiniteSet(Requests)
    /\ ChallengeTTL \in Nat \ {0}
    /\ Bounds \in [Kinds -> [time : Nat, logins : Nat, requests : Nat,
                             tokens : Nat, others : Nat]]

None == "none"
NoToken == 0
Gone == [exists |-> FALSE]

\* The cookie holds the ID of a session (1, 2, ...), a sign-in challenge with
\* its expiry, or nothing.
Cookie(session, until) == [session |-> session, until |-> until]
NoCookie == Cookie(0, 0)

\* Expiry times of keys, in units of which two make a millisecond.
NoExpiry == 0
ExactExpiry == 5
NewExpiry == 8

\* A resource: its status, its expiry if it is a key, and the count of its
\* changes, which stands for Revision and UpdatedAt.
Resource(status, expiry, change) ==
    [exists |-> TRUE, status |-> status, expiry |-> expiry, change |-> change]

\* A form: the session it was rendered for, the operation, the version of the
\* resource it shows (whose tag it carries), the status a confirmation is for
\* and the one-time token of a key-creation form.
Form(csrf, op, shown, target, token) ==
    [csrf |-> csrf, op |-> op, shown |-> shown, target |-> target, token |-> token]
NoForm == Form(0, None, Gone, None, NoToken)

VARIABLES
    kind,       \* the kind of the resource, fixed
    now,        \* the clock
    sessions,   \* the session store
    tokens,     \* key-creation tokens issued so far
    jar,        \* the browser's cookie
    challenge,  \* the challenge in the sign-in form, if that is shown
    form,       \* the form the browser was last shown; it can go back to it
    reqs,       \* the requests the UI is handling
    calls,      \* the calls made for them
    item,       \* the resource
    others,     \* changes made by other clients so far
    begun,      \* history: begun[s] is when session s was created
    loggedOut,  \* history: the sessions that were signed out
    told,       \* history: the page each request was answered with
    made        \* history: the token and the number of changes of each

vars == <<kind, now, sessions, tokens, jar, challenge, form, reqs, calls,
          item, others, begun, loggedOut, told, made>>

Idle == [pc |-> "idle"]
Done == [pc |-> "done"]
NoCall == [state |-> None]

Init ==
    /\ kind \in Kinds
    /\ now = 0
    /\ sessions = << >>
    /\ tokens = 0
    /\ jar = NoCookie
    /\ challenge = NoCookie
    /\ form = NoForm
    /\ reqs = [r \in Requests |-> Idle]
    /\ calls = [r \in Requests |-> NoCall]
    /\ item = Resource("active", IF kind = "key" THEN ExactExpiry ELSE NoExpiry, 0)
    /\ others = 0
    /\ begun = << >>
    /\ loggedOut = {}
    /\ told = [r \in Requests |-> None]
    /\ made = [r \in Requests |-> [token |-> NoToken, times |-> 0]]

browserVars == <<jar, challenge, form>>
requestVars == <<reqs, calls, told, made>>
worldVars == <<item, others>>
history == <<begun, loggedOut>>

Tick ==
    /\ now < Bounds[kind].time
    /\ now' = now + 1
    /\ UNCHANGED <<kind, sessions, tokens, browserVars, requestVars, worldVars, history>>

\* Neither signed out nor expired.
Live(s) ==
    /\ s \in DOMAIN begun
    /\ s \notin loggedOut
    /\ now < begun[s] + SessionTTL

-----------------------------------------------------------------------------
(* Sign-in.  A challenge needs no state on the server: it is signed and it *)
(* carries its own expiry.                                                 *)

newLoginChallenge == Cookie(0, now + ChallengeTTL)
validLoginChallenge(c) == After(c.until, now)

\* A request without a cookie does not get as far as the store.
cookieSession(cookie) ==
    IF cookie = NoCookie THEN [ok |-> FALSE, store |-> sessions]
    ELSE load(sessions, cookie.session, now)

\* The cookie is the challenge of the form, and it holds.
Genuine == jar = challenge /\ validLoginChallenge(challenge)

ShowChallenge ==
    /\ challenge' = newLoginChallenge
    /\ jar' = newLoginChallenge

\* A browser that shows a form it can use does not ask for another one.
loginPage ==
    LET existing == cookieSession(jar) IN
    /\ Len(begun) < Bounds[kind].logins
    /\ ~Genuine
    /\ ~existing.ok
    /\ ShowChallenge
    /\ sessions' = existing.store
    /\ UNCHANGED <<kind, now, tokens, form, requestVars, worldVars, history>>

\* The sign-in form is posted, with the administrator's token or another one.
login(rightToken) ==
    LET existing == cookieSession(jar)
        id == Len(begun) + 1
        created == create(existing.store, id, now)
    IN
    /\ challenge # NoCookie
    /\ Len(begun) < Bounds[kind].logins
    /\ ~existing.ok
    /\ \/ /\ ~Genuine
          /\ ShowChallenge
          /\ sessions' = existing.store
          /\ UNCHANGED begun
       \/ /\ Genuine /\ ~rightToken
          /\ sessions' = existing.store
          /\ UNCHANGED <<jar, challenge, begun>>
       \/ /\ Genuine /\ rightToken /\ ~created.ok
          /\ jar' = NoCookie
          /\ challenge' = NoCookie
          /\ sessions' = created.store
          /\ UNCHANGED begun
       \/ /\ Genuine /\ rightToken /\ created.ok
          /\ jar' = Cookie(id, 0)
          /\ challenge' = NoCookie
          /\ sessions' = created.store
          /\ begun' = Append(begun, now)
    /\ UNCHANGED <<kind, now, tokens, form, requestVars, worldVars, loggedOut>>

\* The browser loses its cookie; the session stays behind.
ForgetCookie ==
    /\ jar.session # 0
    /\ Len(begun) < Bounds[kind].logins
    /\ jar' = NoCookie
    /\ UNCHANGED <<kind, now, sessions, tokens, challenge, form, requestVars,
                   worldVars, history>>

-----------------------------------------------------------------------------
(* Pages.  They read and, but for newVirtualKey, change nothing; the       *)
(* lookup of the session drops the expired ones.                           *)

Loaded == cookieSession(jar).store

PageOf(k) ==
    /\ kind = k
    /\ cookieSession(jar).ok
    /\ UNCHANGED <<kind, now, jar, challenge, requestVars, worldVars, history>>

\* No session: the cookie is cleared and the browser sent to /login.
VisitSignedOut ==
    /\ jar.session # 0
    /\ ~cookieSession(jar).ok
    /\ jar' = NoCookie
    /\ sessions' = Loaded
    /\ UNCHANGED <<kind, now, tokens, challenge, form, requestVars, worldVars, history>>

\* A form for the resource as it is now; an error page if there is none.
ShowForm(k, op, target) ==
    /\ PageOf(k)
    /\ item.exists
    /\ sessions' = Loaded
    /\ form' = Form(jar.session, op, item, target, NoToken)
    /\ UNCHANGED tokens

ShowBlank(k) ==
    /\ PageOf(k)
    /\ sessions' = Loaded
    /\ form' = Form(jar.session, "create", Gone, None, NoToken)
    /\ UNCHANGED tokens

Statuses == {"active", "disabled"}

\* Mutant of validLifecycleStatus: whatever is posted is passed on.
anyLifecycleStatus(status) == TRUE

validLifecycleStatus(status) == status \in Statuses

\* The lists link to the confirmation of the other status.
ConfirmStatus(k) ==
    /\ item.exists
    /\ \E target \in Statuses \ {item.status} : ShowForm(k, "status", target)

newUser == ShowBlank("user")
editUser == ShowForm("user", "update", None)
confirmUserStatus == ConfirmStatus("user")
confirmDeleteUser == ShowForm("user", "delete", None)
newProvider == ShowBlank("provider")
editProvider == ShowForm("provider", "update", None)
confirmProviderStatus == ConfirmStatus("provider")
confirmDeleteProvider == ShowForm("provider", "delete", None)
newModel == ShowBlank("model")
editModel == ShowForm("model", "update", None)
confirmModelStatus == ConfirmStatus("model")
confirmDeleteModel == ShowForm("model", "delete", None)
editVirtualKey == ShowForm("key", "update", None)
confirmVirtualKeyStatus == ConfirmStatus("key")
confirmDeleteVirtualKey == ShowForm("key", "delete", None)

\* A page with a key-creation form and its token, or an error page without.
ShowKeyCreation(S, id) ==
    LET issued == issueKeyCreationToken(S, id, tokens + 1, now) IN
    /\ sessions' = issued.store
    /\ \/ issued.ok /\ tokens' = tokens + 1
                    /\ form' = Form(id, "create", Gone, None, tokens + 1)
       \/ ~issued.ok /\ UNCHANGED <<tokens, form>>

newVirtualKey ==
    /\ PageOf("key")
    /\ tokens < Bounds[kind].tokens
    /\ ShowKeyCreation(Loaded, jar.session)

Pages ==
    \/ VisitSignedOut
    \/ newUser \/ editUser \/ confirmUserStatus \/ confirmDeleteUser
    \/ newProvider \/ editProvider \/ confirmProviderStatus \/ confirmDeleteProvider
    \/ newModel \/ editModel \/ confirmModelStatus \/ confirmDeleteModel
    \/ newVirtualKey \/ editVirtualKey \/ confirmVirtualKeyStatus
    \/ confirmDeleteVirtualKey

-----------------------------------------------------------------------------
(* Submissions.                                                            *)

\* Every page has a sign-out button, also one of an earlier session.
Forms ==
    (IF form = NoForm THEN {} ELSE {form})
    \cup {Form(s, "logout", Gone, None, NoToken) : s \in DOMAIN begun}

InputsFor(op) == IF op \in {"create", "update"} THEN Inputs ELSE {None}

Submit(r) ==
    /\ reqs[r] = Idle
    /\ Cardinality({q \in Requests : reqs[q] # Idle}) < Bounds[kind].requests
    /\ \E f \in Forms : \E input \in InputsFor(f.op) :
          reqs' = [reqs EXCEPT ![r] =
              [pc |-> "auth", cookie |-> jar.session, form |-> f, input |-> input,
               live |-> Live(jar.session)]]
    /\ UNCHANGED <<kind, now, sessions, tokens, browserVars, calls, told, made,
                   worldVars, history>>

At(r, pc) == reqs[r].pc = pc
Goto(r, pc) == reqs' = [reqs EXCEPT ![r].pc = pc] /\ UNCHANGED told

\* The page that answers the request.
Answer(r, page) ==
    /\ reqs' = [reqs EXCEPT ![r] = Done]
    /\ told' = [told EXCEPT ![r] = page]

auth(r) ==
    LET session == load(sessions, reqs[r].cookie, now) IN
    /\ At(r, "auth")
    /\ sessions' = session.store
    /\ \/ session.ok /\ Goto(r, "form") /\ UNCHANGED jar
       \/ ~session.ok /\ Answer(r, "login") /\ jar' = NoCookie
    /\ UNCHANGED <<kind, now, tokens, challenge, form, calls, made,
                   worldVars, history>>

\* The session is looked up again: it may have ended since auth.
parseProtectedForm(r) ==
    verifyCSRF(sessions, reqs[r].cookie, reqs[r].form.csrf, now)

RejectForm(r) ==
    /\ At(r, "form")
    /\ ~parseProtectedForm(r).ok
    /\ Answer(r, "rejected")
    /\ sessions' = parseProtectedForm(r).store
    /\ UNCHANGED <<kind, now, tokens, browserVars, calls, made, worldVars, history>>

\* The value of a datetime-local input has whole milliseconds.
Display(expiry) == expiry - (expiry % 2)
Typed(f, input) ==
    IF input.expiry = "keep" THEN Display(f.shown.expiry) ELSE NewExpiry

\* Mutant of inputExpiry: the field is taken as it is.
inputTyped(f, input) == Typed(f, input)

\* virtualKeyForm.input: a field that still shows the original stands for it.
\* The browser returns an untouched field character by character: the code compares
\* texts in the display layout, which are equal exactly if the displayed times are.
inputExpiry(f, input) ==
    IF Typed(f, input) = Display(f.shown.expiry)
    THEN f.shown.expiry ELSE Typed(f, input)

\* Only keys expire, and a creation form has no original.
FormExpiry(f, input) ==
    IF kind # "key" THEN NoExpiry
    ELSE IF f.op = "create" THEN NewExpiry
    ELSE inputExpiry(f, input)

ValidInput(input) ==
    /\ validLifecycleStatus(input.status)
    /\ kind = "key" => input.expiry # "unreadable"

\* The handler calls a control plane: the sidecar has the request.  keep says
\* that the administrator left the expiry alone.
Call(r, status, expiry, keep) ==
    LET f == reqs[r].form IN
    /\ calls' = [calls EXCEPT ![r] =
          [state |-> "sent", op |-> f.op, shown |-> f.shown, token |-> f.token,
           status |-> status, expiry |-> expiry, keep |-> keep,
           left |-> Deliveries, loaded |-> Gone]]
    /\ Goto(r, "call")

CallFromForm(r) ==
    LET f == reqs[r].form
        input == reqs[r].input
    IN  Call(r, input.status, FormExpiry(f, input),
             f.op = "update" /\ input.expiry = "keep")

\* A handler goes on with a form that was accepted.
Handling(r, k, op) ==
    /\ At(r, "form")
    /\ parseProtectedForm(r).ok
    /\ kind = k
    /\ reqs[r].form.op = op
    /\ sessions' = parseProtectedForm(r).store
    /\ UNCHANGED <<kind, now, tokens, jar, challenge, made, worldVars, history>>

\* An error page.  A form that failed is shown again as it was posted, with
\* its tag; the page of a status change and of an open outcome has none.
Fail(r, page) ==
    /\ Answer(r, page)
    /\ form' = IF reqs[r].form.op = "status" \/ page = "unknown" THEN form
               ELSE reqs[r].form

Save(r, k, op) ==
    /\ Handling(r, k, op)
    /\ \/ ValidInput(reqs[r].input) /\ CallFromForm(r) /\ UNCHANGED form
       \/ ~ValidInput(reqs[r].input) /\ Fail(r, "invalid") /\ UNCHANGED calls

\* A status change reads the resource first, to put back all else unchanged.
ChangeStatus(r, k) ==
    /\ Handling(r, k, "status")
    /\ Goto(r, "get")
    /\ UNCHANGED <<form, calls>>

Remove(r, k) ==
    /\ Handling(r, k, "delete")
    /\ Call(r, None, NoExpiry, FALSE)
    /\ UNCHANGED form

createUser(r) == Save(r, "user", "create")
updateUser(r) == Save(r, "user", "update")
changeUserStatus(r) == ChangeStatus(r, "user")
deleteUser(r) == Remove(r, "user")
createProvider(r) == Save(r, "provider", "create")
updateProvider(r) == Save(r, "provider", "update")
changeProviderStatus(r) == ChangeStatus(r, "provider")
deleteProvider(r) == Remove(r, "provider")
createModel(r) == Save(r, "model", "create")
updateModel(r) == Save(r, "model", "update")
changeModelStatus(r) == ChangeStatus(r, "model")
deleteModel(r) == Remove(r, "model")
updateVirtualKey(r) == Save(r, "key", "update")
changeVirtualKeyStatus(r) == ChangeStatus(r, "key")
deleteVirtualKey(r) == Remove(r, "key")

\* The form is shown again with a token of its own, if one can be had.
refreshKeyCreationForm(S, r) == ShowKeyCreation(S, reqs[r].cookie)

createVirtualKey(r) ==
    /\ Handling(r, "key", "create")
    /\ Goto(r, "consume")
    /\ UNCHANGED <<form, calls>>

ConsumeToken(r) ==
    LET used == consumeKeyCreationToken(sessions, reqs[r].cookie,
                                        reqs[r].form.token, now)
    IN
    /\ At(r, "consume")
    /\ \/ /\ ~used.ok
          /\ refreshKeyCreationForm(used.store, r)
          /\ Answer(r, "used")
          /\ UNCHANGED calls
       \/ /\ used.ok /\ ~ValidInput(reqs[r].input)
          /\ refreshKeyCreationForm(used.store, r)
          /\ Answer(r, "invalid")
          /\ UNCHANGED calls
       \/ /\ used.ok /\ ValidInput(reqs[r].input)
          /\ CallFromForm(r)
          /\ sessions' = used.store
          /\ UNCHANGED <<tokens, form>>
    /\ UNCHANGED <<kind, now, jar, challenge, made, worldVars, history>>

\* The answer clears the cookie, unless it is lost on the way to the browser.
logout(r) ==
    /\ At(r, "form")
    /\ parseProtectedForm(r).ok
    /\ reqs[r].form.op = "logout"
    /\ sessions' = destroy(parseProtectedForm(r).store, reqs[r].cookie)
    /\ loggedOut' = loggedOut \cup {reqs[r].cookie}
    /\ jar' \in {NoCookie, jar}
    /\ Answer(r, "signedOut")
    /\ UNCHANGED <<kind, now, tokens, challenge, form, calls, made, worldVars, begun>>

Handle(r) ==
    \/ createUser(r) \/ updateUser(r) \/ changeUserStatus(r) \/ deleteUser(r)
    \/ createProvider(r) \/ updateProvider(r) \/ changeProviderStatus(r)
    \/ deleteProvider(r)
    \/ createModel(r) \/ updateModel(r) \/ changeModelStatus(r) \/ deleteModel(r)
    \/ createVirtualKey(r) \/ updateVirtualKey(r) \/ changeVirtualKeyStatus(r)
    \/ deleteVirtualKey(r)
    \/ ConsumeToken(r) \/ logout(r) \/ RejectForm(r)

\* A status change: the read before the write.  The write carries the tag of
\* the confirmation page, not the one just read.
GetCurrent(r) ==
    /\ At(r, "get")
    /\ \/ /\ item.exists
          /\ Call(r, reqs[r].form.target, item.expiry, TRUE)
          /\ UNCHANGED form
       \/ Fail(r, "failed") /\ UNCHANGED calls
    /\ UNCHANGED <<kind, now, sessions, tokens, jar, challenge, made, worldVars, history>>

-----------------------------------------------------------------------------
(* The control planes.                                                     *)

\* The If-Match header of the call: the tag of the version the form shows.
Precondition(call) ==
    IF call.op = "create" THEN Unconditional
    ELSE IfMatch(entityETag(call.shown), FALSE)

\* The call is over; its answer, if anyone still waits for it, has a status.
\* A sidecar that misses the answer may have deliveries left.
Over(r, status) ==
    \E again \in 0..(calls[r].left - 1) :
        calls' = [calls EXCEPT ![r] =
            IF again > 0 /\ At(r, "call")
            THEN [@ EXCEPT !.state = "sent", !.left = again]
            ELSE [state |-> "over",
                  answer |-> IF At(r, "call") THEN status ELSE NoResponse]]

ControlPlane ==
    UNCHANGED <<kind, now, sessions, tokens, browserVars, reqs, told, others, history>>

\* The service loads the resource and checks the precondition.  It may also
\* reject the input, or fail to reach its store.
Serve(r) ==
    LET call == calls[r]
        found == call.op = "create" \/ item.exists
        current == call.op = "create" \/ enforceIfMatch(Precondition(call), item)
    IN
    /\ call.state = "sent"
    /\ \/ ~found /\ Over(r, writeError("notFound"))
       \/ found /\ ~current /\ Over(r, writeError("conflict"))
       \/ found /\ current /\ call.op # "delete" /\ Over(r, writeError("validation"))
       \/ Over(r, writeError("unavailable"))
       \/ /\ found /\ current
          /\ calls' = [calls EXCEPT ![r] =
                [call EXCEPT !.state = "loaded", !.loaded = item]]
    /\ UNCHANGED <<item, made>>
    /\ ControlPlane

\* Users and models are projected to the other control plane as well: after
\* the record is written if they become active or are new, before it otherwise.
ProjectedAfter(call) ==
    /\ kind \in {"user", "model"}
    /\ call.op = "create" \/ call.status = "active"

Written(call) ==
    CASE call.op = "create" -> item
      [] call.op = "delete" -> Gone
      [] OTHER -> Resource(call.status, call.expiry, item.change + 1)

\* The repository's transaction compares the record with the one the service
\* has loaded.
CompareAndSwap(call) == call.op = "create" \/ call.loaded = item

\* What a call that was carried out is answered with.
Answers(call) ==
    {IF call.op = "delete" THEN 204 ELSE 200, writeError("unavailable")}
    \cup (IF ProjectedAfter(call) THEN {writeError("conflict")} ELSE {})

CommitCall(r) ==
    LET call == calls[r]
        token == IF call.op = "create" THEN call.token ELSE NoToken
    IN
    /\ call.state = "loaded"
    /\ \/ /\ CompareAndSwap(call)
          /\ item' = Written(call)
          /\ made' = [made EXCEPT ![r] = [token |-> token, times |-> @.times + 1]]
          /\ \E status \in Answers(call) : Over(r, status)
       \/ /\ ~CompareAndSwap(call)
          /\ UNCHANGED <<item, made>>
          /\ Over(r, writeError("conflict"))
    /\ ControlPlane

\* Another client of the API makes a change or a deletion, unconditionally or
\* with a precondition that the resource meets.
OtherClient ==
    /\ others < Bounds[kind].others
    /\ item.exists
    /\ \E precondition \in {Unconditional, Wildcard,
                            IfMatch(entityETag(item), FALSE)} :
          enforceIfMatch(precondition, item)
    /\ \/ item' = Gone
       \/ item' = Resource("disabled", IF kind = "key" THEN NewExpiry ELSE NoExpiry,
                           item.change + 1)
    /\ others' = others + 1
    /\ UNCHANGED <<kind, now, sessions, tokens, browserVars, requestVars, history>>

-----------------------------------------------------------------------------
(* The answer reaches the handler, or it never does.                       *)

\* After an ambiguous outcome there is no form to repeat it with; a failed
\* key creation gets a new token.
renderOperationError(r, status) ==
    IF Ambiguous(TRUE, status)
    THEN Fail(r, "unknown") /\ UNCHANGED <<sessions, tokens>>
    ELSE IF kind = "key" /\ reqs[r].form.op = "create"
    THEN Answer(r, "failed") /\ refreshKeyCreationForm(sessions, r)
    ELSE Fail(r, "failed") /\ UNCHANGED <<sessions, tokens>>

\* Every 2xx of a POST or PUT has an entity tag (writeEntity), so that the
\* client's requireEntityTag has nothing to refuse.
Receive(r) ==
    LET status == calls[r].answer IN
    /\ At(r, "call")
    /\ calls[r].state = "over"
    /\ \/ /\ Success(status)
          /\ Answer(r, "success")
          /\ UNCHANGED <<sessions, tokens, form>>
       \/ ~Success(status) /\ renderOperationError(r, status)
    /\ calls' = [calls EXCEPT ![r].answer = NoResponse]
    /\ UNCHANGED <<kind, now, jar, challenge, made, worldVars, history>>

\* The answer is lost, or comes after the deadline; the call goes on.
Lose(r) ==
    /\ At(r, "call")
    /\ renderOperationError(r, NoResponse)
    /\ calls' = [calls EXCEPT ![r] =
          IF @.state = "over" THEN [@ EXCEPT !.answer = NoResponse] ELSE @]
    /\ UNCHANGED <<kind, now, jar, challenge, made, worldVars, history>>

Next ==
    \/ Tick \/ ForgetCookie \/ loginPage \/ Pages \/ OtherClient
    \/ \E rightToken \in BOOLEAN : login(rightToken)
    \/ \E r \in Requests :
          \/ Submit(r) \/ auth(r) \/ Handle(r) \/ GetCurrent(r) \/ Receive(r) \/ Lose(r)
          \/ Serve(r) \/ CommitCall(r)

Spec == Init /\ [][Next]_vars

-----------------------------------------------------------------------------
(* Properties.                                                             *)

\* Every variable has its type.
TypeOK ==
    /\ kind \in Kinds
    /\ now \in 0..Bounds[kind].time
    /\ DOMAIN sessions \subseteq 1..Bounds[kind].logins
    /\ tokens \in 0..(Bounds[kind].tokens + Cardinality(Requests))
    /\ item = Gone \/ item.status \in Statuses
    /\ others \in 0..Bounds[kind].others
    /\ loggedOut \subseteq DOMAIN begun
    /\ \A r \in Requests :
          /\ reqs[r].pc \in {"idle", "auth", "form", "consume", "get", "call", "done"}
          /\ calls[r].state \in {None, "sent", "loaded", "over"}
          /\ told[r] \in {None, "login", "rejected", "invalid", "used", "failed",
                          "unknown", "success", "signedOut"}
          /\ made[r] \in [token : 0..tokens, times : Nat]

\* One key-creation form makes at most one key, however often it is posted, at
\* the same time or again after an answer was lost (consumeKeyCreationToken,
\* createVirtualKey, invokeWithoutRetries).
OneKeyPerForm ==
    kind = "key" =>
        \A q, r \in Requests :
            /\ made[r].times <= 1
            /\ (q # r /\ made[r].token # NoToken) => made[q].token # made[r].token

Changes(r) == made'[r].times > made[r].times

\* What an edit, a status change or a deletion replaces is exactly what its
\* form showed, although a status change reads the resource again and the
\* service checks the tag before it writes.
NoBlindOverwrite ==
    [][\A r \in Requests :
          (Changes(r) /\ calls[r].op # "create") => item = calls[r].shown]_vars

\* A change of status keeps the expiry, and so does, to the nanosecond, an edit
\* that leaves the expiry field alone, although the field shows milliseconds
\* (virtualKeyForm.input, changeVirtualKeyStatus).
ExpiryKept ==
    [][\A r \in Requests :
          (Changes(r) /\ calls[r].keep) => item'.expiry = item.expiry]_vars

\* A request calls a control plane only if its session was live when it was
\* submitted and its form was made for that session: not after sign-out, not
\* at the instant of expiry, not with a form of an earlier session.
SessionBound ==
    [][\A r \in Requests :
          (calls[r] = NoCall /\ calls'[r] # NoCall)
              => reqs[r].live /\ reqs[r].form.csrf = reqs[r].cookie]_vars

\* The page tells the truth: a success was made, and what is reported as
\* failed was not made and never will be.  The second half is for providers
\* and keys: a user or a model can be saved and its projection then refused
\* with a conflict, which is not ambiguous to the UI.
OutcomeIsTold ==
    \A r \in Requests :
        /\ told[r] = "success" => made[r].times > 0
        /\ (told[r] = "failed" /\ kind \in {"provider", "key"})
               => made[r].times = 0

\* The sign-in form is answered, by neither a challenge nor a session.
SignInRefused ==
    challenge # NoCookie /\ challenge' = NoCookie /\ begun' = begun

\* Sign-in is refused for lack of room only if as many sessions are live as
\* the store may hold, and the store never holds more.
RefusedOnlyWhenFull ==
    [][/\ SignInRefused => Cardinality({s \in DOMAIN begun : Live(s)}) >= MaxSessions
       /\ Cardinality(DOMAIN sessions') <= MaxSessions]_vars
=============================================================================
