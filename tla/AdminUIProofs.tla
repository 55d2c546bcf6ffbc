---------------------------- MODULE AdminUIProofs ----------------------------
(***************************************************************************)
(* Proofs about AdminUI: one key per form, no lost update, no call without *)
(* a session, for any number of requests, sessions and forms.              *)
(***************************************************************************)
EXTENDS AdminUI, FiniteSetTheorems, SequenceTheorems, TLAPS

-----------------------------------------------------------------------------
(***************************************************************************)
(* The session store: what its methods do to sessions and pending tokens.  *)
(***************************************************************************)
Shaped(S) ==
    \A id \in DOMAIN S : S[id] = [expires |-> S[id].expires, tokens |-> S[id].tokens]

\* Sessions and tokens may go, and nothing comes or changes.
Shrunk(T, S) ==
    /\ DOMAIN T \subseteq DOMAIN S
    /\ \A id \in DOMAIN T :
          /\ T[id] = [expires |-> S[id].expires, tokens |-> T[id].tokens]
          /\ DOMAIN T[id].tokens \subseteq DOMAIN S[id].tokens

\* Likewise, but that the session own may have the new token t.
Grown(T, S, own, t) ==
    /\ own \in DOMAIN S
    /\ DOMAIN T \subseteq DOMAIN S
    /\ \A id \in DOMAIN T :
          /\ T[id] = [expires |-> S[id].expires, tokens |-> T[id].tokens]
          /\ DOMAIN T[id].tokens
                 \subseteq DOMAIN S[id].tokens \cup (IF id = own THEN {t} ELSE {})

\* A step of the store that changes nothing shrinks it, too.
LEMMA ShrunkItself == ASSUME NEW S, Shaped(S) PROVE Shrunk(S, S)
BY DEF Shaped, Shrunk

LEMMA ShrunkShaped == ASSUME NEW S, NEW T, Shrunk(T, S) PROVE Shaped(T)
BY DEF Shaped, Shrunk

LEMMA ShrunkTwice ==
    ASSUME NEW S, NEW T, NEW U, Shrunk(T, S), Shrunk(U, T)
    PROVE  Shrunk(U, S)
BY DEF Shrunk

LEMMA GrownAfterShrunk ==
    ASSUME NEW S, NEW T, NEW U, NEW own, NEW t, Shrunk(T, S), Grown(U, T, own, t)
    PROVE  Grown(U, S, own, t)
BY DEF Shrunk, Grown

LEMMA ShrunkExpires ==
    ASSUME NEW S, NEW T, Shrunk(T, S), NEW id \in DOMAIN T
    PROVE  T[id].expires = S[id].expires
<1>1. T[id] = [expires |-> S[id].expires, tokens |-> T[id].tokens]
  BY DEF Shrunk
<1> QED
  BY <1>1

\* cleanupLocked drops the expired sessions, and all expired tokens.
LEMMA Cleaned ==
    ASSUME NEW S, Shaped(S), NEW at
    PROVE  /\ Shrunk(cleanupLocked(S, at), S)
           /\ DOMAIN cleanupLocked(S, at) = {id \in DOMAIN S : S[id].expires > at}
BY DEF Shaped, Shrunk, cleanupLocked, After, Unexpired, Restrict

LEMMA Loads ==
    ASSUME NEW S, Shaped(S), NEW id, NEW at
    PROVE  /\ Shrunk(load(S, id, at).store, S)
           /\ DOMAIN load(S, id, at).store = {i \in DOMAIN S : S[i].expires > at}
           /\ load(S, id, at).ok <=> id \in DOMAIN S /\ S[id].expires > at
<1>1. load(S, id, at).store = cleanupLocked(S, at)
  BY DEF load
<1>2. load(S, id, at).ok <=> id \in DOMAIN cleanupLocked(S, at)
  BY DEF load
<1>3. /\ Shrunk(cleanupLocked(S, at), S)
      /\ DOMAIN cleanupLocked(S, at) = {i \in DOMAIN S : S[i].expires > at}
  BY Cleaned
<1>4. load(S, id, at).ok <=> id \in DOMAIN S /\ S[id].expires > at
  BY <1>2, <1>3
<1> QED
  BY <1>1, <1>3, <1>4

LEMMA Verifies ==
    ASSUME NEW S, Shaped(S), NEW id, NEW csrf, NEW at
    PROVE  /\ Shrunk(verifyCSRF(S, id, csrf, at).store, S)
           /\ verifyCSRF(S, id, csrf, at).ok <=> /\ id \in DOMAIN S /\ S[id].expires > at
                                                 /\ csrf = id
<1>1. verifyCSRF(S, id, csrf, at).store = load(S, id, at).store
  BY DEF verifyCSRF, load
<1>2. verifyCSRF(S, id, csrf, at).ok <=> load(S, id, at).ok /\ csrf = id
  BY DEF verifyCSRF, load
<1> QED
  BY <1>1, <1>2, Loads

LEMMA Destroys ==
    ASSUME NEW S, Shaped(S), NEW id
    PROVE  Shrunk(destroy(S, id), S) /\ DOMAIN destroy(S, id) = DOMAIN S \ {id}
BY DEF Shaped, Shrunk, destroy, Restrict

\* A token is issued for a session that is there, or the store only shrinks.
LEMMA Issues ==
    ASSUME NEW S, Shaped(S), NEW id, NEW t, NEW at
    PROVE  LET issued == issueKeyCreationToken(S, id, t, at)
           IN  /\ issued.ok => Grown(issued.store, S, id, t)
               /\ ~issued.ok => Shrunk(issued.store, S)
<1> DEFINE issued == issueKeyCreationToken(S, id, t, at)
           pending == Unexpired(S[id].tokens, at)
           lasts == at + TokenTTL
           expires == IF lasts > S[id].expires THEN S[id].expires ELSE lasts
           full == Cardinality(DOMAIN pending) >= MaxPending
<1>1. CASE ~Alive(S, id, at)
  <2>1. issued = [ok |-> FALSE, store |-> S]
    BY <1>1 DEF issueKeyCreationToken
  <2>2. ~issued.ok /\ issued.store = S
    BY <2>1
  <2> QED
    BY <2>2, ShrunkItself
<1>2. CASE Alive(S, id, at)
  <2>1. id \in DOMAIN S
    BY <1>2 DEF Alive
  <2>2. DOMAIN pending \subseteq DOMAIN S[id].tokens
    BY DEF Unexpired, Restrict
  <2>3. CASE full
    <3>1. ~issued.ok
      BY <1>2, <2>3 DEF issueKeyCreationToken
    <3>2. issued.store = [S EXCEPT ![id].tokens = pending]
      BY <1>2, <2>3 DEF issueKeyCreationToken
    <3> HIDE DEF pending, issued
    <3>3. Shrunk(issued.store, S)
      BY <2>1, <2>2, <3>2 DEF Shrunk, Shaped
    <3> QED
      BY <3>1, <3>3 DEF issued
  <2>4. CASE ~full
    <3>1. issued.ok
      BY <1>2, <2>4 DEF issueKeyCreationToken
    <3>2. issued.store = [S EXCEPT ![id].tokens = With(pending, t, expires)]
      BY <1>2, <2>4 DEF issueKeyCreationToken
    <3>3. DOMAIN With(pending, t, expires) = DOMAIN pending \cup {t}
      BY DEF With
    <3> HIDE DEF pending, issued, expires
    <3>4. Grown(issued.store, S, id, t)
      BY <2>1, <2>2, <3>2, <3>3 DEF Grown, Shaped
    <3> QED
      BY <3>1, <3>4 DEF issued
  <2> QED
    BY <2>3, <2>4
<1> QED
  BY <1>1, <1>2

\* A token that is consumed was pending in the session, and is no longer.
LEMMA Consumes ==
    ASSUME NEW S, Shaped(S), NEW id, NEW t, NEW at
    PROVE  LET used == consumeKeyCreationToken(S, id, t, at)
           IN  /\ Shrunk(used.store, S)
               /\ used.ok => /\ id \in DOMAIN S
                             /\ t \in DOMAIN S[id].tokens
                             /\ DOMAIN used.store = DOMAIN S
                             /\ t \notin DOMAIN used.store[id].tokens
<1> DEFINE used == consumeKeyCreationToken(S, id, t, at)
           rest == Restrict(S[id].tokens, DOMAIN S[id].tokens \ {t})
<1>1. CASE ~Alive(S, id, at)
  <2>1. used = [ok |-> FALSE, store |-> S]
    BY <1>1 DEF consumeKeyCreationToken
  <2>2. ~used.ok /\ used.store = S
    BY <2>1
  <2> QED
    BY <2>2, ShrunkItself
<1>2. CASE Alive(S, id, at)
  <2>1. id \in DOMAIN S
    BY <1>2 DEF Alive
  <2>2. used.ok <=> t \in DOMAIN Unexpired(S[id].tokens, at)
    BY <1>2 DEF consumeKeyCreationToken
  <2>3. used.store = [S EXCEPT ![id].tokens = rest]
    BY <1>2 DEF consumeKeyCreationToken
  <2>4. DOMAIN Unexpired(S[id].tokens, at) \subseteq DOMAIN S[id].tokens
    BY DEF Unexpired, Restrict
  <2>5. DOMAIN rest = DOMAIN S[id].tokens \ {t}
    BY DEF Restrict
  <2> HIDE DEF used, rest
  <2>6. Shrunk(used.store, S)
    BY <2>1, <2>3, <2>5 DEF Shrunk, Shaped
  <2>7. DOMAIN used.store = DOMAIN S /\ t \notin DOMAIN used.store[id].tokens
    BY <2>1, <2>3, <2>5 DEF Shaped
  <2> QED
    BY <2>1, <2>2, <2>4, <2>6, <2>7 DEF used
<1> QED
  BY <1>1, <1>2

\* A session is created, with no tokens, only if there is room.
LEMMA Creates ==
    ASSUME NEW S, Shaped(S), NEW id, id \notin DOMAIN S, NEW at
    PROVE  LET created == create(S, id, at)
               live == {i \in DOMAIN S : S[i].expires > at}
           IN  /\ ~created.ok => /\ Shrunk(created.store, S)
                                 /\ Cardinality(live) >= MaxSessions
               /\ created.ok =>
                     /\ ~(Cardinality(live) >= MaxSessions)
                     /\ DOMAIN created.store = live \cup {id}
                     /\ \A i \in live : 
                           /\ created.store[i] = [expires |-> S[i].expires,
                                                  tokens |-> created.store[i].tokens]
                           /\ DOMAIN created.store[i].tokens \subseteq DOMAIN S[i].tokens
                     /\ created.store[id] = [expires |-> at + SessionTTL, tokens |-> << >>]
<1> DEFINE created == create(S, id, at)
           cleaned == cleanupLocked(S, at)
           live == {i \in DOMAIN S : S[i].expires > at}
<1>1. Shrunk(cleaned, S) /\ DOMAIN cleaned = live
  BY Cleaned
<1>2. CASE Cardinality(DOMAIN cleaned) >= MaxSessions
  <2>1. ~created.ok /\ created.store = cleaned
    BY <1>2 DEF create
  <2> QED
    BY <1>1, <1>2, <2>1
<1>3. CASE ~(Cardinality(DOMAIN cleaned) >= MaxSessions)
  <2>1. created.ok /\ created.store = With(cleaned, id, NewSession(at))
    BY <1>3 DEF create
  <2>2. DOMAIN created.store = live \cup {id}
    BY <1>1, <2>1 DEF With
  <2>3. \A i \in live : created.store[i] = cleaned[i]
    BY <1>1, <2>1 DEF With
  <2>4. created.store[id] = [expires |-> at + SessionTTL, tokens |-> << >>]
    BY <2>1 DEF With, NewSession
  <2> HIDE DEF created, cleaned
  <2> QED
    BY <1>1, <1>3, <2>1, <2>2, <2>3, <2>4 DEF Shrunk, created
<1> QED
  BY <1>2, <1>3

-----------------------------------------------------------------------------
(***************************************************************************)
(* The resource: its versions are numbered by change.                      *)
(***************************************************************************)
\* A version is gone or a resource; only keys expire.
Version(v) ==
    \/ v = Gone
    \/ /\ v = Resource(v.status, v.expiry, v.change)
       /\ v.status \in Statuses
       /\ v.change \in Nat
       /\ kind # "key" => v.expiry = NoExpiry

\* The resource is past the version v, and will never be v again.
Past(v) == item = Gone \/ item.change > v.change

\* v is a version that the resource has or had.
Known(v) == Version(v) /\ (v = Gone \/ Past(v) \/ v = item)

\* The fields of a version.
LEMMA ResourceFields ==
    ASSUME NEW s, NEW e, NEW c
    PROVE  /\ Resource(s, e, c).status = s /\ Resource(s, e, c).expiry = e
           /\ Resource(s, e, c).change = c
           /\ Resource(s, e, c).exists
           /\ ~Gone.exists
           /\ Resource(s, e, c) # Gone
<1>1. /\ Resource(s, e, c).status = s /\ Resource(s, e, c).expiry = e
      /\ Resource(s, e, c).change = c
  BY DEF Resource
<1>2. Resource(s, e, c).exists
  BY DEF Resource
<1>3. ~Gone.exists
  BY DEF Gone
<1> QED
  BY <1>1, <1>2, <1>3

LEMMA Exists == ASSUME NEW v, Version(v) PROVE v.exists <=> v # Gone
BY ResourceFields DEF Version

LEMMA FormFields ==
    ASSUME NEW c, NEW o, NEW s, NEW x, NEW t
    PROVE  /\ Form(c, o, s, x, t).csrf = c /\ Form(c, o, s, x, t).op = o
           /\ Form(c, o, s, x, t).shown = s /\ Form(c, o, s, x, t).target = x
           /\ Form(c, o, s, x, t).token = t
BY DEF Form

-----------------------------------------------------------------------------
(***************************************************************************)
(* The invariant.                                                          *)
(***************************************************************************)
\* A form shows a version of the resource; only creations have none to show.
FormOK(f) ==
    /\ f.token \in 0..tokens
    /\ Known(f.shown)
    /\ f.op = "status" => f.target \in Statuses
    /\ f.op \in {"update", "status"} => f.shown # Gone

Busy(r) == reqs[r].pc \in {"auth", "form", "consume", "get", "call"}

\* The session has ended.
Dead(s) ==
    \/ s = 0
    \/ s \in loggedOut
    \/ s \in DOMAIN begun /\ now >= begun[s] + SessionTTL

\* A request has had its session checked before it gets to its handler, and
\* has made no call before it waits for one.
RequestOK(r) ==
    /\ reqs[r].pc \in {"idle", "auth", "form", "consume", "get", "call", "done"}
    /\ Busy(r) =>
          /\ reqs[r] = [pc |-> reqs[r].pc, cookie |-> reqs[r].cookie, form |-> reqs[r].form,
                        input |-> reqs[r].input, live |-> reqs[r].live]
          /\ reqs[r].cookie \in 0..Len(begun)
          /\ FormOK(reqs[r].form)
          /\ reqs[r].live \/ Dead(reqs[r].cookie)
    /\ reqs[r].pc \in {"consume", "get"} =>
          reqs[r].live /\ reqs[r].form.csrf = reqs[r].cookie
    /\ reqs[r].pc = "consume" => reqs[r].form.op = "create"
    /\ reqs[r].pc = "get" => reqs[r].form.op = "status"
    /\ reqs[r].pc # "done" => told[r] = None
    /\ reqs[r].pc \in {"idle", "auth", "form", "consume", "get"} => calls[r] = NoCall
    /\ reqs[r].pc = "call" => calls[r].state # None

NothingMade == [token |-> NoToken, times |-> 0]

Open(r) == calls[r].state \in {"sent", "loaded"}

\* A call that was delivered but not yet carried out.
OpenCallOK(r) ==
    LET call == calls[r] IN
    /\ call = [state |-> call.state, op |-> call.op, shown |-> call.shown,
               token |-> call.token, status |-> call.status, expiry |-> call.expiry,
               keep |-> call.keep, left |-> call.left, loaded |-> call.loaded]
    /\ call.left = 1
    /\ call.token \in 0..tokens
    /\ Known(call.shown)
    /\ call.op \in {"create", "update", "status", "delete"}
    /\ call.op \in {"update", "status"} =>
          /\ call.status \in Statuses
          /\ call.shown # Gone
          /\ kind # "key" => call.expiry = NoExpiry
    /\ call.keep =>
          /\ call.op \in {"update", "status"}
          /\ call.expiry = call.shown.expiry \/ Past(call.shown)
    /\ (call.state = "loaded" /\ call.op # "create") => call.loaded = call.shown

\* The kinds of which a failed call leaves nothing behind.
Plain == kind \in {"provider", "key"}

CallOK(r) ==
    /\ calls[r].state \in {None, "sent", "loaded", "over"}
    /\ calls[r].state \in {None, "sent", "loaded"} => made[r] = NothingMade
    /\ Open(r) => OpenCallOK(r)
    /\ made[r].token \in 0..tokens /\ made[r].times \in {0, 1}
    /\ made[r] = [token |-> made[r].token, times |-> made[r].times]
    /\ calls[r].state = "over" =>
          /\ calls[r] = [state |-> "over", answer |-> calls[r].answer]
          /\ calls[r].answer \in Nat
          /\ Success(calls[r].answer) => made[r].times = 1
          /\ (Plain /\ ~Success(calls[r].answer) /\ ~Ambiguous(TRUE, calls[r].answer))
                 => made[r].times = 0

ToldOK(r) ==
    /\ told[r] \in {None, "login", "rejected", "invalid", "used", "failed", "unknown",
                    "success", "signedOut"}
    /\ told[r] = "success" => made[r].times = 1
    /\ (told[r] = "failed" /\ Plain) => made[r].times = 0 /\ calls[r].state \in {None, "over"}

RequestsOK ==
    /\ DOMAIN reqs = Requests /\ DOMAIN calls = Requests
    /\ DOMAIN told = Requests /\ DOMAIN made = Requests
    /\ \A r \in Requests : RequestOK(r) /\ CallOK(r) /\ ToldOK(r)

\* The sessions of the store: begun, not signed out, and with their expiry.
StoreOK ==
    /\ \A s \in DOMAIN sessions :
          /\ s \in DOMAIN begun
          /\ s \notin loggedOut
          /\ sessions[s] = [expires |-> begun[s] + SessionTTL, tokens |-> sessions[s].tokens]
          /\ DOMAIN sessions[s].tokens \subseteq 1..tokens
    /\ \A i, j \in DOMAIN sessions :
          i # j => DOMAIN sessions[i].tokens \cap DOMAIN sessions[j].tokens = {}
    /\ Cardinality(DOMAIN sessions) <= MaxSessions

Finished == {r \in Requests : reqs[r].pc = "done"}

WorldOK ==
    /\ kind \in Kinds
    /\ now \in 0..Bounds[kind].time
    /\ begun \in Seq(Nat) /\ Len(begun) <= Bounds[kind].logins
    /\ loggedOut \subseteq DOMAIN begun
    /\ tokens \in Nat
    /\ tokens <= Bounds[kind].tokens + Cardinality(Finished)
    /\ Version(item)
    /\ others \in 0..Bounds[kind].others
    /\ jar.session \in 0..Len(begun)
    /\ FormOK(form)

\* The token that a request has taken for itself, if any.
Taken(r) ==
    IF Open(r) THEN IF calls[r].op = "create" THEN calls[r].token ELSE NoToken
    ELSE made[r].token

\* A token is pending in the store or taken by one request.
TokensOK ==
    kind = "key" =>
        \A r \in Requests : Taken(r) # NoToken =>
            /\ \A s \in DOMAIN sessions : Taken(r) \notin DOMAIN sessions[s].tokens
            /\ \A q \in Requests \ {r} : Taken(q) # Taken(r)

Sound == WorldOK /\ StoreOK /\ RequestsOK /\ TokensOK

-----------------------------------------------------------------------------
(***************************************************************************)
(* What a step leaves alone stays sound.                                   *)
(***************************************************************************)
\* No step takes back the time, a session, a sign-out, a token or a version.
Growth ==
    /\ kind' = kind
    /\ now' \in Nat /\ now <= now'
    /\ begun' \in Seq(Nat) /\ Len(begun) <= Len(begun')
    /\ \A s \in DOMAIN begun : begun'[s] = begun[s]
    /\ loggedOut \subseteq loggedOut'
    /\ tokens' \in Nat /\ tokens <= tokens'
    /\ \/ item' = item
       \/ item' = Gone
       \/ item # Gone /\ item'.change = item.change + 1

LEMMA KnownKept ==
    ASSUME WorldOK, Growth, NEW v, Known(v)
    PROVE  Known(v)'
<1>1. Version(v)'
  BY DEF Known, Version, Growth
<1>2. CASE v = Gone
  BY <1>1, <1>2 DEF Known
<1>3. CASE v # Gone
  <2>1. v.change \in Nat
    BY <1>3 DEF Known, Version
  <2>2. item = Gone \/ item.change \in Nat
    BY DEF WorldOK, Version
  <2>3. Past(v) \/ v = item
    BY <1>3 DEF Known
  <2>4. Past(v)' \/ v = item'
    BY <1>3, <2>1, <2>2, <2>3 DEF Growth, Past
  <2> QED
    BY <1>1, <2>4 DEF Known
<1> QED
  BY <1>2, <1>3

LEMMA FormKept ==
    ASSUME WorldOK, Growth, NEW f, FormOK(f)
    PROVE  FormOK(f)'
<1>1. Known(f.shown)'
  BY KnownKept DEF FormOK
<1> QED
  BY <1>1 DEF FormOK, Growth, WorldOK

LEMMA DeadKept ==
    ASSUME WorldOK, Growth, NEW s, Dead(s)
    PROVE  Dead(s)'
<1>1. s \in DOMAIN begun => s \in DOMAIN begun' /\ begun'[s] = begun[s] /\ begun[s] \in Nat
  BY DEF WorldOK, Growth
<1>2. now \in Nat /\ now' \in Nat /\ now <= now'
  BY UIAssumption DEF WorldOK, Growth
<1> QED
  BY <1>1, <1>2, SessionAssumption DEF Dead, Growth

\* A request that takes no part in a step.
Stays(r) ==
    /\ reqs'[r] = reqs[r] /\ calls'[r] = calls[r]
    /\ told'[r] = told[r] /\ made'[r] = made[r]

LEMMA RequestStays ==
    ASSUME WorldOK, Growth, NEW r \in Requests, Stays(r), RequestOK(r)
    PROVE  RequestOK(r)'
<1>1. CASE Busy(r)
  <2>1. FormOK(reqs[r].form)' 
    <3>1. FormOK(reqs[r].form)
      BY <1>1 DEF RequestOK
    <3> QED
      BY <3>1, FormKept DEF Stays
  <2>2. reqs'[r].live \/ Dead(reqs[r].cookie)'
    BY <1>1, DeadKept DEF RequestOK, Stays
  <2>3. reqs'[r].cookie \in 0..Len(begun')
    BY <1>1 DEF RequestOK, Stays, Growth, WorldOK
  <2> QED
    BY <1>1, <2>1, <2>2, <2>3 DEF RequestOK, Stays, Busy
<1>2. CASE ~Busy(r)
  BY <1>2 DEF RequestOK, Stays, Busy
<1> QED
  BY <1>1, <1>2

LEMMA CallStays ==
    ASSUME WorldOK, Growth, NEW r \in Requests, calls'[r] = calls[r], made'[r] = made[r],
           CallOK(r)
    PROVE  CallOK(r)'
<1>1. Plain' = Plain
  BY DEF Growth, Plain
<1>2. made[r].token \in 0..tokens'
  BY DEF CallOK, Growth, WorldOK
<1>3. CASE Open(r)
  <2>1. OpenCallOK(r)
    BY <1>3 DEF CallOK
  <2>2. Known(calls[r].shown)'
    BY <2>1, KnownKept DEF OpenCallOK
  <2>3. calls[r].token \in 0..tokens'
    BY <2>1 DEF OpenCallOK, Growth, WorldOK
  <2>4. ASSUME calls[r].keep
        PROVE  calls[r].expiry = calls[r].shown.expiry \/ Past(calls[r].shown)'
    <3>1. calls[r].expiry = calls[r].shown.expiry \/ Past(calls[r].shown)
      BY <2>1, <2>4 DEF OpenCallOK
    <3>2. calls[r].shown # Gone /\ Known(calls[r].shown)
      BY <2>1, <2>4 DEF OpenCallOK
    <3>3. calls[r].shown.change \in Nat /\ (item = Gone \/ item.change \in Nat)
      BY <3>2 DEF Known, Version, WorldOK
    <3> QED
      BY <3>1, <3>3 DEF Past, Growth
  <2>5. OpenCallOK(r)'
    BY <2>1, <2>2, <2>3, <2>4 DEF OpenCallOK, Growth
  <2> QED
    BY <1>2, <1>3, <2>5 DEF CallOK, Open
<1>4. CASE ~Open(r)
  BY <1>1, <1>2, <1>4 DEF CallOK, Open
<1> QED
  BY <1>3, <1>4

LEMMA ToldStays ==
    ASSUME kind' = kind, NEW r \in Requests, Stays(r), ToldOK(r)
    PROVE  ToldOK(r)'
BY DEF ToldOK, Stays, Plain

LEMMA TakenStays ==
    ASSUME NEW r \in Requests, Stays(r)
    PROVE  Taken(r)' = Taken(r)
BY DEF Taken, Stays, Open

\* The step is one of the request r.
Only(r) ==
    /\ DOMAIN reqs' = Requests /\ DOMAIN calls' = Requests
    /\ DOMAIN told' = Requests /\ DOMAIN made' = Requests
    /\ \A q \in Requests \ {r} : Stays(q)

LEMMA RequestsStep ==
    ASSUME Sound, Growth, NEW r \in Requests, Only(r), RequestOK(r)', CallOK(r)', ToldOK(r)'
    PROVE  RequestsOK'
<1>1. ASSUME NEW q \in Requests PROVE RequestOK(q)' /\ CallOK(q)' /\ ToldOK(q)'
  <2>1. CASE q = r
    BY <2>1
  <2>2. CASE q # r
    <3>1. Stays(q) /\ RequestOK(q) /\ CallOK(q) /\ ToldOK(q) /\ WorldOK
      BY <2>2 DEF Only, Sound, RequestsOK
    <3> QED
      BY <3>1, RequestStays, CallStays, ToldStays DEF Stays, Growth
  <2> QED
    BY <2>1, <2>2
<1> QED
  BY <1>1 DEF RequestsOK, Only

LEMMA RequestsStay ==
    ASSUME Sound, Growth, UNCHANGED requestVars
    PROVE  RequestsOK'
<1>1. ASSUME NEW q \in Requests PROVE RequestOK(q)' /\ CallOK(q)' /\ ToldOK(q)'
  <2>1. Stays(q) /\ RequestOK(q) /\ CallOK(q) /\ ToldOK(q) /\ WorldOK
    BY DEF Sound, RequestsOK, Stays, requestVars
  <2> QED
    BY <2>1, RequestStays, CallStays, ToldStays DEF Stays, Growth
<1> QED
  BY <1>1 DEF RequestsOK, Sound, requestVars

-----------------------------------------------------------------------------
(***************************************************************************)
(* Steps of the store.                                                     *)
(***************************************************************************)
\* The store shrinks, or gets one new token.
StoreStep ==
    /\ begun' = begun /\ loggedOut' = loggedOut
    /\ \/ tokens' = tokens /\ Shrunk(sessions', sessions)
       \/ tokens' = tokens + 1 /\ \E s : Grown(sessions', sessions, s, tokens + 1)

LEMMA StoreShaped == ASSUME StoreOK PROVE Shaped(sessions)
BY DEF StoreOK, Shaped

LEMMA StoreFinite == ASSUME WorldOK, StoreOK PROVE IsFiniteSet(DOMAIN sessions)
<1>1. DOMAIN sessions \subseteq 1..Len(begun)
  BY DEF StoreOK, WorldOK
<1>2. IsFiniteSet(1..Len(begun))
  BY FS_Interval DEF WorldOK
<1> QED
  BY <1>1, <1>2, FS_Subset

LEMMA StoreStays ==
    ASSUME WorldOK, StoreOK, StoreStep
    PROVE  StoreOK'
<1>1. DOMAIN sessions' \subseteq DOMAIN sessions
  BY DEF StoreStep, Shrunk, Grown
<1>2. Cardinality(DOMAIN sessions') <= MaxSessions
  <2>1. /\ Cardinality(DOMAIN sessions') <= Cardinality(DOMAIN sessions)
        /\ Cardinality(DOMAIN sessions') \in Nat /\ Cardinality(DOMAIN sessions) \in Nat
    BY <1>1, StoreFinite, FS_Subset, FS_CardinalityType
  <2> QED
    BY <2>1, SessionAssumption DEF StoreOK
<1>3. tokens \in Nat
  BY DEF WorldOK
<1>4. CASE tokens' = tokens /\ Shrunk(sessions', sessions)
  BY <1>2, <1>4 DEF StoreStep, StoreOK, Shrunk
<1>5. CASE tokens' = tokens + 1 /\ \E s : Grown(sessions', sessions, s, tokens + 1)
  <2>1. PICK own : Grown(sessions', sessions, own, tokens + 1)
    BY <1>5
  <2>2. ASSUME NEW s \in DOMAIN sessions'
        PROVE  /\ s \in DOMAIN sessions
               /\ sessions'[s] = [expires |-> sessions[s].expires, tokens |-> sessions'[s].tokens]
               /\ DOMAIN sessions[s].tokens \subseteq 1..tokens
               /\ DOMAIN sessions'[s].tokens
                     \subseteq DOMAIN sessions[s].tokens \cup (IF s = own THEN {tokens + 1} ELSE {})
    BY <2>1, <2>2 DEF Grown, StoreOK
  <2>3. ASSUME NEW s \in DOMAIN sessions'
        PROVE  /\ s \in DOMAIN begun' /\ s \notin loggedOut'
               /\ sessions'[s] = [expires |-> begun'[s] + SessionTTL, tokens |-> sessions'[s].tokens]
               /\ DOMAIN sessions'[s].tokens \subseteq 1..tokens'
    BY <1>3, <1>5, <2>2, <2>3 DEF StoreStep, StoreOK
  <2>4. ASSUME NEW i \in DOMAIN sessions', NEW j \in DOMAIN sessions', i # j,
               NEW t \in DOMAIN sessions'[i].tokens, t \in DOMAIN sessions'[j].tokens
        PROVE  FALSE
    <3>1. DOMAIN sessions[i].tokens \cap DOMAIN sessions[j].tokens = {}
      BY <2>2, <2>4 DEF StoreOK
    <3>2. tokens + 1 \notin 1..tokens
      BY <1>3
    <3> QED
      BY <2>2, <2>4, <3>1, <3>2
  <2> QED
    BY <1>2, <2>3, <2>4 DEF StoreOK
<1> QED
  BY <1>4, <1>5 DEF StoreStep

\* No token is taken in the step.
LEMMA TokensStay ==
    ASSUME Sound, StoreStep, kind' = kind,
           kind = "key" => \A r \in Requests : Taken(r)' \in {Taken(r), NoToken},
           \A r \in Requests : Taken(r) \in 0..tokens
    PROVE  TokensOK'
<1> SUFFICES ASSUME kind = "key", NEW r \in Requests, Taken(r)' # NoToken
             PROVE  /\ \A s \in DOMAIN sessions' : Taken(r)' \notin DOMAIN sessions'[s].tokens
                    /\ \A q \in Requests \ {r} : Taken(q)' # Taken(r)'
  BY DEF TokensOK
<1>1. /\ Taken(r)' = Taken(r) /\ Taken(r) # NoToken
      /\ Taken(r) \in 0..tokens /\ tokens \in Nat
  BY DEF Sound, WorldOK
<1>2. /\ \A s \in DOMAIN sessions : Taken(r) \notin DOMAIN sessions[s].tokens
      /\ \A q \in Requests \ {r} : Taken(q) # Taken(r)
  BY <1>1 DEF Sound, TokensOK
<1>3. \A q \in Requests \ {r} : Taken(q)' # Taken(r)'
  BY <1>1, <1>2
<1>4. ASSUME NEW s \in DOMAIN sessions', Taken(r) \in DOMAIN sessions'[s].tokens
      PROVE  FALSE
  <2>1. CASE Shrunk(sessions', sessions)
    BY <1>2, <1>4, <2>1 DEF Shrunk
  <2>2. CASE \E own : Grown(sessions', sessions, own, tokens + 1)
    BY <1>1, <1>2, <1>4, <2>2 DEF Grown
  <2> QED
    BY <2>1, <2>2 DEF StoreStep
<1> QED
  BY <1>1, <1>3, <1>4

LEMMA TakenBounded ==
    ASSUME Sound, NEW r \in Requests
    PROVE  Taken(r) \in 0..tokens
<1>1. CallOK(r) /\ tokens \in Nat
  BY DEF Sound, RequestsOK, WorldOK
<1>2. made[r].token \in 0..tokens /\ (Open(r) => calls[r].token \in 0..tokens)
  BY <1>1 DEF CallOK, OpenCallOK
<1> QED
  BY <1>1, <1>2 DEF Taken, NoToken

-----------------------------------------------------------------------------
(***************************************************************************)
(* Steps by their effect.                                                  *)
(***************************************************************************)
\* What a step needs to keep the invariant, if it takes no token.
LEMMA SoundStep ==
    ASSUME Sound, Growth, StoreStep, RequestsOK', WorldOK',
           kind = "key" => \A r \in Requests : Taken(r)' \in {Taken(r), NoToken}
    PROVE  Sound'
<1>1. StoreOK'
  BY StoreStays DEF Sound
<1>2. TokensOK'
  BY TokensStay, TakenBounded DEF Growth
<1> QED
  BY <1>1, <1>2 DEF Sound

\* A step of the browser or of a page.
LEMMA BrowserStep ==
    ASSUME Sound, StoreStep, UNCHANGED <<kind, now, item, others, requestVars>>,
           jar'.session \in 0..Len(begun), FormOK(form)',
           tokens' = tokens \/ tokens < Bounds[kind].tokens
    PROVE  Sound'
<1>1. tokens \in Nat /\ tokens' \in {tokens, tokens + 1}
  BY DEF Sound, WorldOK, StoreStep
<1>2. Growth
  BY <1>1, UIAssumption DEF Sound, WorldOK, StoreStep, Growth
<1>3. RequestsOK'
  BY <1>2, RequestsStay
<1>4. Finished' = Finished
  BY DEF Finished, requestVars
<1>5. Cardinality(Finished) \in Nat
  BY UIAssumption, FS_Subset, FS_CardinalityType DEF Finished
<1>6. Bounds[kind].tokens \in Nat
  BY UIAssumption DEF Sound, WorldOK
<1>7. tokens' <= Bounds[kind].tokens + Cardinality(Finished)
  BY <1>1, <1>5, <1>6 DEF Sound, WorldOK
<1>8. Version(item)'
  BY DEF Sound, WorldOK, Version
<1>9. WorldOK'
  BY <1>1, <1>4, <1>7, <1>8 DEF Sound, WorldOK, StoreStep
<1>10. \A r \in Requests : Taken(r)' = Taken(r)
  BY TakenStays DEF Stays, requestVars
<1> QED
  BY <1>2, <1>3, <1>9, <1>10, SoundStep

\* A request that is finished stays so.
LEMMA FinishedGrows ==
    ASSUME Sound, NEW r \in Requests, Only(r), reqs[r].pc # "done"
    PROVE  /\ Cardinality(Finished) \in Nat /\ Cardinality(Finished)' \in Nat
           /\ Cardinality(Finished) <= Cardinality(Finished)'
           /\ reqs'[r].pc = "done" => Cardinality(Finished)' = Cardinality(Finished) + 1
<1>1. Finished' = Finished \/ Finished' = Finished \cup {r}
  BY DEF Finished, Only, Stays
<1>2. reqs'[r].pc = "done" => Finished' = Finished \cup {r}
  BY DEF Finished, Only, Stays
<1>3. r \notin Finished /\ IsFiniteSet(Finished)
  BY UIAssumption, FS_Subset DEF Finished
<1>4. /\ Cardinality(Finished) \in Nat
      /\ Cardinality(Finished \cup {r}) = Cardinality(Finished) + 1
  BY <1>3, FS_CardinalityType, FS_AddElement
<1> QED
  BY <1>1, <1>2, <1>4

\* A step of a request that changes neither the resource nor the sign-outs.
LEMMA ActStep ==
    ASSUME Sound, NEW r \in Requests, Only(r), reqs[r].pc # "done",
           UNCHANGED <<kind, now, item, others>>, StoreStep,
           tokens' = tokens \/ reqs'[r].pc = "done",
           jar'.session \in 0..Len(begun), FormOK(form)',
           RequestOK(r)', CallOK(r)', ToldOK(r)'
    PROVE  /\ Growth /\ WorldOK' /\ StoreOK' /\ RequestsOK'
           /\ (kind = "key" => Taken(r)' \in {Taken(r), NoToken}) => Sound'
<1>1. tokens \in Nat /\ tokens' \in {tokens, tokens + 1}
  BY DEF Sound, WorldOK, StoreStep
<1>2. Growth
  BY <1>1, UIAssumption DEF Sound, WorldOK, StoreStep, Growth
<1>3. RequestsOK'
  BY <1>2, RequestsStep
<1>4. Bounds[kind].tokens \in Nat
  BY UIAssumption DEF Sound, WorldOK
<1>5. tokens' <= Bounds[kind].tokens + Cardinality(Finished)'
  BY <1>1, <1>4, FinishedGrows DEF Sound, WorldOK
<1>6. Version(item)'
  BY DEF Sound, WorldOK, Version
<1>7. WorldOK'
  BY <1>1, <1>5, <1>6 DEF Sound, WorldOK, StoreStep
<1>8. StoreOK'
  BY StoreStays DEF Sound
<1>9. \A q \in Requests \ {r} : Taken(q)' = Taken(q)
  BY TakenStays DEF Only
<1>10. (kind = "key" => Taken(r)' \in {Taken(r), NoToken}) => Sound'
  BY <1>2, <1>3, <1>7, <1>9, SoundStep
<1> QED
  BY <1>2, <1>3, <1>7, <1>8, <1>10

-----------------------------------------------------------------------------
(***************************************************************************)
(* The initial states, and the steps of browser, pages and other clients.  *)
(***************************************************************************)
LEMMA SoundInit == Init => Sound
<1> SUFFICES ASSUME Init PROVE Sound
  OBVIOUS
<1>1. Version(item) /\ Known(Gone)
  BY ResourceFields DEF Init, Version, Known, Statuses
<1>2. FormOK(form)
  BY <1>1, FormFields DEF Init, FormOK, NoForm, None, NoToken
<1>3. Finished = {}
  BY DEF Init, Finished, Idle
<1>4. WorldOK
  BY <1>1, <1>2, <1>3, UIAssumption, FS_EmptySet DEF Init, WorldOK, NoCookie, Cookie
<1>5. DOMAIN sessions = {}
  BY DEF Init
<1>6. StoreOK
  BY <1>5, FS_EmptySet, SessionAssumption DEF StoreOK
<1>7. RequestsOK
  <2>1. ASSUME NEW r \in Requests
        PROVE  /\ reqs[r].pc = "idle" /\ calls[r] = NoCall /\ calls[r].state = None
               /\ told[r] = None /\ made[r] = NothingMade
    BY DEF Init, Idle, NoCall, NothingMade
  <2>2. ASSUME NEW r \in Requests PROVE RequestOK(r)
    BY <2>1 DEF RequestOK, Busy
  <2>3. ASSUME NEW r \in Requests PROVE CallOK(r) /\ ToldOK(r)
    <3>1. made[r].token = 0 /\ made[r].times = 0 /\ tokens = 0
      BY <2>1 DEF NothingMade, NoToken, Init
    <3>2. made[r] = [token |-> made[r].token, times |-> made[r].times]
      BY <2>1 DEF NothingMade
    <3>3. calls[r].state \notin {"sent", "loaded", "over"}
      BY <2>1 DEF None
    <3>4. CallOK(r)
      BY <2>1, <3>1, <3>2, <3>3 DEF CallOK, Open
    <3>5. ToldOK(r)
      BY <2>1, <3>1 DEF ToldOK, None
    <3> QED
      BY <3>4, <3>5
  <2> QED
    BY <2>2, <2>3 DEF Init, RequestsOK
<1>8. TokensOK
  BY DEF Init, TokensOK, Taken, Open, NoCall, None
<1> QED
  BY <1>4, <1>6, <1>7, <1>8 DEF Sound

LEMMA SoundTick == ASSUME Sound, Tick PROVE Sound'
<1>1. now \in Nat /\ now' = now + 1 /\ now' \in 0..Bounds[kind].time
  BY UIAssumption DEF Sound, WorldOK, Tick
<1>2. Growth
  BY <1>1 DEF Sound, WorldOK, Tick, Growth, history, worldVars
<1>3. StoreStep
  BY ShrunkItself, StoreShaped DEF Sound, StoreStep, Tick, history
<1>4. RequestsOK'
  BY <1>2, RequestsStay DEF Tick
<1>5. FormOK(form)'
  BY <1>2, FormKept DEF Sound, WorldOK, Tick, browserVars
<1>6. Version(item)' /\ Finished' = Finished
  BY DEF Sound, WorldOK, Version, Tick, worldVars, Finished, requestVars
<1>7. WorldOK'
  BY <1>1, <1>5, <1>6 DEF Sound, WorldOK, Tick, worldVars, browserVars, history
<1>8. \A r \in Requests : Taken(r)' = Taken(r)
  BY TakenStays DEF Stays, Tick, requestVars
<1> QED
  BY <1>2, <1>3, <1>4, <1>7, <1>8, SoundStep

LEMMA SoundOther == ASSUME Sound, OtherClient PROVE Sound'
<1>1. item # Gone /\ Version(item)
  BY Exists DEF Sound, WorldOK, OtherClient
<1>2. item.change \in Nat
  BY <1>1 DEF Version
<1>3. /\ Version(item)'
      /\ item' = Gone \/ item'.change = item.change + 1
  <2>1. CASE item' = Gone
    BY <2>1 DEF Version
  <2>2. CASE item' = Resource("disabled", IF kind = "key" THEN NewExpiry ELSE NoExpiry,
                              item.change + 1)
    BY <1>2, <2>2, ResourceFields DEF Version, OtherClient, Statuses
  <2> QED
    BY <2>1, <2>2 DEF OtherClient
<1>4. /\ kind' = kind /\ now' = now /\ sessions' = sessions /\ tokens' = tokens
      /\ begun' = begun /\ loggedOut' = loggedOut /\ jar' = jar /\ form' = form
  BY DEF OtherClient, browserVars, history
<1>5. Growth
  BY <1>1, <1>3, <1>4, UIAssumption DEF Sound, WorldOK, Growth
<1>6. StoreStep
  BY <1>4, ShrunkItself, StoreShaped DEF Sound, StoreStep
<1>7. RequestsOK'
  BY <1>5, RequestsStay DEF OtherClient
<1>8. FormOK(form)'
  BY <1>4, <1>5, FormKept DEF Sound, WorldOK
<1>9. Finished' = Finished /\ others' \in 0..Bounds[kind].others
  BY UIAssumption DEF Sound, WorldOK, OtherClient, Finished, requestVars
<1>10. WorldOK'
  BY <1>3, <1>4, <1>8, <1>9 DEF Sound, WorldOK
<1>11. \A r \in Requests : Taken(r)' = Taken(r)
  BY TakenStays DEF Stays, OtherClient, requestVars
<1> QED
  BY <1>5, <1>6, <1>7, <1>10, <1>11, SoundStep

\* A request with a cookie looks its session up.
LEMMA CookieLoads ==
    ASSUME Sound
    PROVE  LET existing == cookieSession(jar)
           IN  /\ Shrunk(existing.store, sessions)
               /\ \A s \in DOMAIN existing.store :
                     existing.store[s].expires > now \/ jar = NoCookie
<1> DEFINE existing == cookieSession(jar)
<1>1. Shaped(sessions)
  BY StoreShaped DEF Sound
<1>2. CASE jar = NoCookie
  <2>1. existing.store = sessions
    BY <1>2 DEF cookieSession
  <2> QED
    BY <1>1, <1>2, <2>1, ShrunkItself
<1>3. CASE jar # NoCookie
  <2>1. existing.store = load(sessions, jar.session, now).store
    BY <1>3 DEF cookieSession
  <2>2. /\ Shrunk(existing.store, sessions)
        /\ DOMAIN existing.store = {i \in DOMAIN sessions : sessions[i].expires > now}
    BY <1>1, <2>1, Loads
  <2> HIDE DEF existing
  <2>3. \A s \in DOMAIN existing.store : existing.store[s].expires = sessions[s].expires
    BY <2>2, ShrunkExpires
  <2>4. \A s \in DOMAIN existing.store : existing.store[s].expires > now
    BY <2>2, <2>3
  <2> QED
    BY <2>2, <2>4 DEF existing
<1> QED
  BY <1>2, <1>3

LEMMA SoundForget == ASSUME Sound, ForgetCookie PROVE Sound'
<1>1. StoreStep
  BY ShrunkItself, StoreShaped DEF Sound, StoreStep, ForgetCookie, history
<1>2. jar'.session \in 0..Len(begun)
  BY DEF ForgetCookie, NoCookie, Cookie, Sound, WorldOK
<1>3. FormOK(form)'
  BY DEF ForgetCookie, Sound, WorldOK, FormOK, Known, Version, Past, worldVars
<1> QED
  BY <1>1, <1>2, <1>3, BrowserStep DEF ForgetCookie, worldVars

LEMMA SoundVisit == ASSUME Sound, VisitSignedOut PROVE Sound'
<1>1. StoreStep
  BY CookieLoads DEF StoreStep, VisitSignedOut, Loaded, history
<1>2. jar'.session \in 0..Len(begun)
  BY DEF VisitSignedOut, NoCookie, Cookie, Sound, WorldOK
<1>3. FormOK(form)'
  BY DEF VisitSignedOut, Sound, WorldOK, FormOK, Known, Version, Past, worldVars
<1> QED
  BY <1>1, <1>2, <1>3, BrowserStep DEF VisitSignedOut, worldVars

\* A page with a form for the resource, or with an empty one.
LEMMA SoundShow ==
    ASSUME Sound, NEW k, PageOf(k), sessions' = Loaded, tokens' = tokens, FormOK(form')
    PROVE  Sound'
<1>1. StoreStep
  BY CookieLoads DEF StoreStep, PageOf, Loaded, history
<1>2. jar'.session \in 0..Len(begun)
  BY DEF PageOf, Sound, WorldOK
<1>3. FormOK(form)'
  BY DEF PageOf, FormOK, Known, Version, Past, worldVars
<1> QED
  BY <1>1, <1>2, <1>3, BrowserStep DEF PageOf, worldVars

LEMMA SoundShowForm ==
    ASSUME Sound, NEW k, NEW op, NEW target, op = "status" => target \in Statuses,
           ShowForm(k, op, target)
    PROVE  Sound'
<1>1. item # Gone /\ Known(item) /\ tokens \in Nat
  BY Exists DEF Sound, WorldOK, ShowForm, Known
<1>2. FormOK(form')
  BY <1>1, FormFields DEF ShowForm, FormOK, NoToken
<1> QED
  BY <1>2, SoundShow DEF ShowForm

LEMMA SoundShowBlank ==
    ASSUME Sound, NEW k, ShowBlank(k)
    PROVE  Sound'
<1>1. Known(Gone) /\ tokens \in Nat
  BY DEF Sound, WorldOK, Known, Version
<1>2. FormOK(form')
  BY <1>1, FormFields DEF ShowBlank, FormOK, NoToken
<1> QED
  BY <1>2, SoundShow DEF ShowBlank

\* A page with a key-creation form and a new token, or without.
LEMMA KeyCreationShown ==
    ASSUME Sound, NEW S, Shrunk(S, sessions), NEW id, ShowKeyCreation(S, id),
           begun' = begun, loggedOut' = loggedOut, kind' = kind, item' = item
    PROVE  /\ StoreStep
           /\ FormOK(form)'
<1> DEFINE issued == issueKeyCreationToken(S, id, tokens + 1, now)
<1>1. /\ issued.ok => Grown(issued.store, S, id, tokens + 1)
      /\ ~issued.ok => Shrunk(issued.store, S)
  BY Issues, ShrunkShaped
<1>2. sessions' = issued.store
  BY DEF ShowKeyCreation
<1>3. CASE issued.ok
  <2>1. /\ tokens' = tokens + 1
        /\ form' = Form(id, "create", Gone, None, tokens + 1)
    BY <1>3 DEF ShowKeyCreation
  <2>2. StoreStep
    BY <1>1, <1>2, <1>3, <2>1, GrownAfterShrunk DEF StoreStep
  <2>3. Known(Gone)' /\ tokens \in Nat
    BY DEF Sound, WorldOK, Known, Version
  <2>4. FormOK(form)'
    BY <2>1, <2>3, FormFields DEF FormOK
  <2> QED
    BY <2>2, <2>4
<1>4. CASE ~issued.ok
  <2>1. tokens' = tokens /\ form' = form
    BY <1>4 DEF ShowKeyCreation
  <2>2. StoreStep
    BY <1>1, <1>2, <1>4, <2>1, ShrunkTwice DEF StoreStep
  <2>3. FormOK(form)'
    BY <2>1 DEF Sound, WorldOK, FormOK, Known, Version, Past
  <2> QED
    BY <2>2, <2>3
<1> QED
  BY <1>3, <1>4

LEMMA SoundNewKey == ASSUME Sound, newVirtualKey PROVE Sound'
<1>1. Shrunk(Loaded, sessions)
  BY CookieLoads DEF Loaded
<1>2. /\ ShowKeyCreation(Loaded, jar.session)
      /\ begun' = begun /\ loggedOut' = loggedOut /\ kind' = kind /\ item' = item
  BY DEF newVirtualKey, PageOf, history, worldVars
<1>3. StoreStep /\ FormOK(form)'
  BY <1>1, <1>2, KeyCreationShown
<1>4. jar'.session \in 0..Len(begun)
  BY DEF newVirtualKey, PageOf, Sound, WorldOK
<1> QED
  BY <1>3, <1>4, BrowserStep DEF newVirtualKey, PageOf, worldVars

LEMMA SoundPages == ASSUME Sound, Pages PROVE Sound'
<1>1. ASSUME NEW k, ConfirmStatus(k) PROVE Sound'
  BY <1>1, SoundShowForm DEF ConfirmStatus
<1>2. CASE VisitSignedOut
  BY <1>2, SoundVisit
<1>3. CASE newVirtualKey
  BY <1>3, SoundNewKey
<1>4. CASE newUser \/ newProvider \/ newModel
  BY <1>4, SoundShowBlank DEF newUser, newProvider, newModel
<1>5. CASE \/ confirmUserStatus \/ confirmProviderStatus \/ confirmModelStatus
           \/ confirmVirtualKeyStatus
  BY <1>1, <1>5 DEF confirmUserStatus, confirmProviderStatus, confirmModelStatus,
                    confirmVirtualKeyStatus
<1>6. CASE editUser \/ editProvider \/ editModel \/ editVirtualKey
  BY <1>6, SoundShowForm DEF editUser, editProvider, editModel, editVirtualKey
<1>7. CASE \/ confirmDeleteUser \/ confirmDeleteProvider \/ confirmDeleteModel
           \/ confirmDeleteVirtualKey
  BY <1>7, SoundShowForm DEF confirmDeleteUser, confirmDeleteProvider, confirmDeleteModel,
                             confirmDeleteVirtualKey
<1> QED
  BY <1>2, <1>3, <1>4, <1>5, <1>6, <1>7 DEF Pages

\* A new session: there is room for it, and its number is new.
LEMMA SessionCreated ==
    ASSUME Sound, NEW S, Shrunk(S, sessions), NEW id, id = Len(begun) + 1,
           create(S, id, now).ok, sessions' = create(S, id, now).store,
           begun' = Append(begun, now), UNCHANGED <<tokens, loggedOut, kind, requestVars>>
    PROVE  StoreOK' /\ TokensOK'
<1> DEFINE live == {i \in DOMAIN S : S[i].expires > now}
<1>1. begun \in Seq(Nat) /\ now \in Nat /\ Len(begun) \in Nat /\ DOMAIN begun = 1..Len(begun)
  BY UIAssumption DEF Sound, WorldOK
<1>2. /\ DOMAIN begun' = 1..(Len(begun) + 1)
      /\ \A s \in DOMAIN begun : begun'[s] = begun[s]
      /\ begun'[id] = now
  BY <1>1
<1>3. DOMAIN S \subseteq DOMAIN begun /\ id \notin DOMAIN begun /\ Shaped(S)
  BY <1>1, ShrunkShaped DEF Sound, StoreOK, Shrunk
<1>4. /\ ~(Cardinality(live) >= MaxSessions)
      /\ DOMAIN sessions' = live \cup {id}
      /\ \A i \in live : /\ sessions'[i] = [expires |-> S[i].expires, tokens |-> sessions'[i].tokens]
                         /\ DOMAIN sessions'[i].tokens \subseteq DOMAIN S[i].tokens
      /\ sessions'[id] = [expires |-> now + SessionTTL, tokens |-> << >>]
  <2>1. id \notin DOMAIN S
    BY <1>3
  <2> QED
    BY <1>3, <2>1, Creates
<1>5. DOMAIN sessions'[id].tokens = {}
  BY <1>4
<1>6. ASSUME NEW i \in live
      PROVE  /\ i \in DOMAIN sessions
             /\ sessions'[i].expires = sessions[i].expires
             /\ sessions'[i] = [expires |-> begun[i] + SessionTTL, tokens |-> sessions'[i].tokens]
             /\ DOMAIN sessions'[i].tokens \subseteq DOMAIN sessions[i].tokens
             /\ i \in DOMAIN begun /\ i \notin loggedOut
  <2>1. /\ i \in DOMAIN sessions
        /\ S[i] = [expires |-> sessions[i].expires, tokens |-> S[i].tokens]
        /\ DOMAIN S[i].tokens \subseteq DOMAIN sessions[i].tokens
    BY <1>6 DEF Shrunk
  <2>2. /\ sessions[i] = [expires |-> begun[i] + SessionTTL, tokens |-> sessions[i].tokens]
        /\ i \in DOMAIN begun /\ i \notin loggedOut
    BY <2>1 DEF Sound, StoreOK
  <2>3. S[i].expires = sessions[i].expires /\ sessions[i].expires = begun[i] + SessionTTL
    BY <2>1, <2>2
  <2> QED
    BY <1>4, <2>1, <2>2, <2>3
<1>7. Cardinality(DOMAIN sessions') <= MaxSessions
  <2>1. IsFiniteSet(DOMAIN sessions) /\ live \subseteq DOMAIN sessions
    BY <1>6, StoreFinite DEF Sound
  <2>2. IsFiniteSet(live) /\ Cardinality(live) \in Nat
    BY <2>1, FS_Subset, FS_CardinalityType
  <2>3. id \notin live
    BY <1>3
  <2>4. Cardinality(live \cup {id}) = Cardinality(live) + 1
    BY <2>2, <2>3, FS_AddElement
  <2> QED
    <3> HIDE DEF live
    <3>1. ~(Cardinality(live) >= MaxSessions) /\ DOMAIN sessions' = live \cup {id}
      BY <1>4
    <3>2. Cardinality(DOMAIN sessions') = Cardinality(live) + 1
      BY <2>4, <3>1, Zenon
    <3>3. Cardinality(live) + 1 <= MaxSessions
      BY <2>2, <3>1, SessionAssumption
    <3> QED
      BY <3>2, <3>3, Zenon
<1> HIDE DEF live
<1>8. id \notin loggedOut /\ id \in DOMAIN begun'
  BY <1>1, <1>2, <1>3 DEF Sound, WorldOK
<1>9. StoreOK'
  <2>1. ASSUME NEW s \in DOMAIN sessions'
        PROVE  /\ s \in DOMAIN begun' /\ s \notin loggedOut'
               /\ sessions'[s] = [expires |-> begun'[s] + SessionTTL, tokens |-> sessions'[s].tokens]
               /\ DOMAIN sessions'[s].tokens \subseteq 1..tokens'
    <3>1. CASE s = id
      BY <1>2, <1>4, <1>5, <1>8, <3>1
    <3>2. CASE s \in live
      <4>1. /\ s \in DOMAIN sessions /\ s \in DOMAIN begun /\ s \notin loggedOut
            /\ sessions'[s] = [expires |-> begun[s] + SessionTTL, tokens |-> sessions'[s].tokens]
            /\ DOMAIN sessions'[s].tokens \subseteq DOMAIN sessions[s].tokens
        BY <1>6, <3>2
      <4>2. DOMAIN sessions[s].tokens \subseteq 1..tokens
        BY <4>1 DEF Sound, StoreOK
      <4>3. s \in DOMAIN begun' /\ begun'[s] = begun[s]
        BY <1>1, <1>2, <4>1
      <4> QED
        BY <4>1, <4>2, <4>3
    <3> QED
      BY <1>4, <3>1, <3>2
  <2>2. ASSUME NEW i \in DOMAIN sessions', NEW j \in DOMAIN sessions', i # j
        PROVE  DOMAIN sessions'[i].tokens \cap DOMAIN sessions'[j].tokens = {}
    <3>1. CASE i = id \/ j = id
      BY <1>5, <3>1
    <3>2. CASE i \in live /\ j \in live
      BY <1>6, <2>2, <3>2 DEF Sound, StoreOK
    <3> QED
      BY <1>4, <3>1, <3>2
  <2> QED
    BY <1>7, <2>1, <2>2 DEF StoreOK
<1>10. TokensOK'
  <2>1. \A r \in Requests : Taken(r)' = Taken(r)
    BY TakenStays DEF Stays, requestVars
  <2>2. \A s \in DOMAIN sessions' :
            DOMAIN sessions'[s].tokens = {}
            \/ (/\ s \in DOMAIN sessions
                /\ DOMAIN sessions'[s].tokens \subseteq DOMAIN sessions[s].tokens)
    BY <1>4, <1>5, <1>6
  <2> QED
    BY <2>1, <2>2 DEF Sound, TokensOK
<1> QED
  BY <1>9, <1>10

LEMMA SoundLoginPage == ASSUME Sound, loginPage PROVE Sound'
<1>1. StoreStep
  BY CookieLoads DEF StoreStep, loginPage, history
<1>2. jar'.session \in 0..Len(begun)
  BY DEF loginPage, ShowChallenge, newLoginChallenge, Cookie, Sound, WorldOK
<1>3. FormOK(form)'
  BY DEF loginPage, Sound, WorldOK, FormOK, Known, Version, Past, worldVars
<1> QED
  BY <1>1, <1>2, <1>3, BrowserStep DEF loginPage, worldVars

LEMMA SoundLogin == ASSUME Sound, NEW rightToken, login(rightToken) PROVE Sound'
<1> DEFINE existing == cookieSession(jar)
           id == Len(begun) + 1
           created == create(existing.store, id, now)
<1>1. Shrunk(existing.store, sessions) /\ Shaped(existing.store)
  BY CookieLoads, ShrunkShaped
<1>2. /\ UNCHANGED <<kind, now, tokens, form, item, others, loggedOut>>
      /\ UNCHANGED requestVars
  BY DEF login, worldVars
<1>3. FormOK(form)'
  BY <1>2 DEF Sound, WorldOK, FormOK, Known, Version, Past
<1>4. Len(begun) \in Nat
  BY DEF Sound, WorldOK
<1>5. CASE sessions' = existing.store /\ begun' = begun /\ jar'.session \in 0..Len(begun)
  <2>1. StoreStep
    BY <1>1, <1>2, <1>5 DEF StoreStep
  <2> QED
    BY <1>2, <1>3, <1>5, <2>1, BrowserStep
<1>6. CASE ~created.ok /\ sessions' = created.store /\ begun' = begun /\ jar' = NoCookie
  <2>1. id \notin DOMAIN existing.store
    BY <1>1, <1>4 DEF Sound, StoreOK, WorldOK, Shrunk
  <2>2. Shrunk(created.store, existing.store)
    BY <1>1, <1>6, <2>1, Creates
  <2>3. StoreStep
    BY <1>1, <1>2, <1>6, <2>2, ShrunkTwice DEF StoreStep
  <2>4. jar'.session \in 0..Len(begun)
    BY <1>4, <1>6 DEF NoCookie, Cookie
  <2> QED
    BY <1>2, <1>3, <2>3, <2>4, BrowserStep
<1>7. CASE /\ created.ok /\ sessions' = created.store /\ begun' = Append(begun, now)
           /\ jar' = Cookie(id, 0) /\ Len(begun) < Bounds[kind].logins
  <2>1. StoreOK' /\ TokensOK'
    BY <1>1, <1>2, <1>7, SessionCreated
  <2>2. /\ begun' \in Seq(Nat) /\ Len(begun') = Len(begun) + 1
        /\ \A s \in DOMAIN begun : begun'[s] = begun[s]
        /\ DOMAIN begun \subseteq DOMAIN begun'
    BY <1>7, UIAssumption DEF Sound, WorldOK
  <2>3. Growth
    BY <1>2, <1>4, <2>2, UIAssumption DEF Sound, WorldOK, Growth
  <2>4. RequestsOK'
    BY <1>2, <2>3, RequestsStay
  <2>5. jar'.session \in 0..Len(begun') /\ Len(begun') <= Bounds[kind].logins
    BY <1>4, <1>7, <2>2, UIAssumption DEF Cookie, Sound, WorldOK
  <2>6. Version(item)' /\ Finished' = Finished
    BY <1>2 DEF Sound, WorldOK, Version, Finished, requestVars
  <2>7. WorldOK'
    BY <1>2, <1>3, <2>2, <2>5, <2>6 DEF Sound, WorldOK
  <2> QED
    BY <2>1, <2>4, <2>7 DEF Sound
<1>8. Len(begun) < Bounds[kind].logins
  BY DEF login
<1>9. \/ jar' = newLoginChallenge /\ sessions' = existing.store /\ begun' = begun
      \/ jar' = jar /\ sessions' = existing.store /\ begun' = begun
      \/ ~created.ok /\ sessions' = created.store /\ begun' = begun /\ jar' = NoCookie
      \/ /\ created.ok /\ sessions' = created.store /\ begun' = Append(begun, now)
         /\ jar' = Cookie(id, 0)
  BY DEF login, ShowChallenge
<1>10. newLoginChallenge.session \in 0..Len(begun) /\ jar.session \in 0..Len(begun)
  BY <1>4 DEF newLoginChallenge, Cookie, Sound, WorldOK
<1> QED
  BY <1>5, <1>6, <1>7, <1>8, <1>9, <1>10

-----------------------------------------------------------------------------
(***************************************************************************)
(* The requests.                                                           *)
(***************************************************************************)
LEMMA ActGrowth ==
    ASSUME Sound, StoreStep, UNCHANGED <<kind, now, item>>
    PROVE  Growth
BY UIAssumption DEF Sound, WorldOK, StoreStep, Growth

\* The request goes on, as it was submitted.
LEMMA GoesOn ==
    ASSUME Sound, NEW r \in Requests, Busy(r), NEW p, Goto(r, p)
    PROVE  /\ DOMAIN reqs' = Requests
           /\ \A q \in Requests \ {r} : reqs'[q] = reqs[q]
           /\ reqs'[r] = [pc |-> p, cookie |-> reqs[r].cookie, form |-> reqs[r].form,
                          input |-> reqs[r].input, live |-> reqs[r].live]
           /\ reqs'[r].pc = p
           /\ told' = told
<1>1. /\ reqs[r] = [pc |-> reqs[r].pc, cookie |-> reqs[r].cookie, form |-> reqs[r].form,
                    input |-> reqs[r].input, live |-> reqs[r].live]
      /\ DOMAIN reqs = Requests
  BY DEF Sound, RequestsOK, RequestOK
<1>2. reqs' = [reqs EXCEPT ![r].pc = p] /\ told' = told
  BY DEF Goto
<1>3. reqs'[r] = [reqs[r] EXCEPT !.pc = p]
  BY <1>1, <1>2
<1>4. reqs'[r] = [pc |-> p, cookie |-> reqs[r].cookie, form |-> reqs[r].form,
                  input |-> reqs[r].input, live |-> reqs[r].live]
  BY <1>1, <1>3
<1> QED
  BY <1>1, <1>2, <1>4

LEMMA GoesOnSound ==
    ASSUME Sound, Growth, NEW r \in Requests, Busy(r),
           NEW p \in {"form", "consume", "get", "call"}, Goto(r, p),
           p \in {"consume", "get"} => reqs[r].live /\ reqs[r].form.csrf = reqs[r].cookie,
           p = "consume" => reqs[r].form.op = "create",
           p = "get" => reqs[r].form.op = "status",
           p # "call" => calls'[r] = NoCall,
           p = "call" => calls'[r].state # None
    PROVE  RequestOK(r)'
<1>1. RequestOK(r) /\ WorldOK
  BY DEF Sound, RequestsOK
<1>2. /\ reqs'[r] = [pc |-> p, cookie |-> reqs[r].cookie, form |-> reqs[r].form,
                     input |-> reqs[r].input, live |-> reqs[r].live]
      /\ told' = told
  BY GoesOn
<1>3. /\ reqs'[r].pc = p /\ reqs'[r].cookie = reqs[r].cookie /\ reqs'[r].form = reqs[r].form
      /\ reqs'[r].input = reqs[r].input /\ reqs'[r].live = reqs[r].live
  BY <1>2
<1>4. FormOK(reqs[r].form)'
  BY <1>1, <1>3, FormKept DEF RequestOK
<1>5. reqs'[r].live \/ Dead(reqs[r].cookie)'
  BY <1>1, <1>3, DeadKept DEF RequestOK
<1>6. reqs'[r].cookie \in 0..Len(begun')
  BY <1>1, <1>3 DEF RequestOK, WorldOK, Growth
<1>7. told'[r] = None
  BY <1>1, <1>2 DEF RequestOK, Busy
<1>8. reqs'[r] = [pc |-> reqs'[r].pc, cookie |-> reqs'[r].cookie, form |-> reqs'[r].form,
                  input |-> reqs'[r].input, live |-> reqs'[r].live]
  BY <1>2, <1>3
<1>9. p \in {"consume", "get"} => reqs'[r].live /\ reqs'[r].form.csrf = reqs'[r].cookie
  BY <1>3
<1> QED
  BY <1>3, <1>4, <1>5, <1>6, <1>7, <1>8, <1>9 DEF RequestOK, Busy

\* The request is answered.
LEMMA Answered ==
    ASSUME Sound, NEW r \in Requests, NEW page, Answer(r, page)
    PROVE  /\ DOMAIN reqs' = Requests /\ DOMAIN told' = Requests
           /\ \A q \in Requests \ {r} : reqs'[q] = reqs[q] /\ told'[q] = told[q]
           /\ reqs'[r].pc = "done"
           /\ told'[r] = page
           /\ RequestOK(r)'
<1>1. /\ reqs' = [reqs EXCEPT ![r] = Done] /\ told' = [told EXCEPT ![r] = page]
      /\ DOMAIN reqs = Requests /\ DOMAIN told = Requests
  BY DEF Answer, Sound, RequestsOK
<1>2. reqs'[r].pc = "done"
  BY <1>1 DEF Done
<1>3. RequestOK(r)'
  BY <1>2 DEF RequestOK, Busy
<1> QED
  BY <1>1, <1>2, <1>3

\* The pages that say nothing of a call that was made.
CallFree == {"login", "rejected", "invalid", "used", "unknown", "signedOut"}

\* An answer that tells of no call.
LEMMA AnsweredSound ==
    ASSUME Sound, NEW r \in Requests, reqs[r].pc # "done",
           NEW page, Answer(r, page),
           page \in CallFree \/ (page = "failed" /\ calls[r] = NoCall),
           UNCHANGED <<kind, now, item, others, calls, made>>, StoreStep,
           jar'.session \in 0..Len(begun), FormOK(form)'
    PROVE  Sound'
<1>1. Growth
  BY ActGrowth
<1>2. RequestOK(r)' /\ reqs'[r].pc = "done" /\ told'[r] = page
  BY Answered
<1>3. Only(r)
  BY Answered DEF Only, Stays, Sound, RequestsOK
<1>4. CallOK(r) /\ WorldOK
  BY DEF Sound, RequestsOK
<1>5. CallOK(r)'
  BY <1>1, <1>4, CallStays
<1>6. page = "failed" => calls[r].state = None /\ made[r].times = 0
  BY <1>4 DEF CallFree, NoCall, CallOK, NothingMade
<1>7. ToldOK(r)'
  BY <1>2, <1>6 DEF ToldOK, CallFree
<1>8. Taken(r)' = Taken(r)
  BY DEF Taken, Open
<1> QED
  BY <1>2, <1>3, <1>5, <1>7, <1>8, ActStep

\* The request goes on, without a call.
LEMMA GoesOnWithoutCall ==
    ASSUME Sound, NEW r \in Requests, reqs[r].pc \in {"auth", "form"},
           NEW p \in {"form", "consume", "get"}, Goto(r, p),
           p \in {"consume", "get"} => reqs[r].live /\ reqs[r].form.csrf = reqs[r].cookie,
           p = "consume" => reqs[r].form.op = "create",
           p = "get" => reqs[r].form.op = "status",
           UNCHANGED <<kind, now, item, others, calls, made, tokens, jar, form>>, StoreStep
    PROVE  Sound'
<1>1. Growth
  BY ActGrowth
<1>2. RequestOK(r) /\ CallOK(r) /\ ToldOK(r) /\ WorldOK /\ calls[r] = NoCall
  BY DEF Sound, RequestsOK, RequestOK
<1>3. RequestOK(r)'
  BY <1>1, <1>2, GoesOnSound DEF Busy
<1>4. Only(r)
  BY GoesOn DEF Only, Stays, Sound, RequestsOK, Busy
<1>5. CallOK(r)'
  BY <1>1, <1>2, CallStays
<1>6. told' = told
  BY DEF Goto
<1>7. ToldOK(r)'
  BY <1>2, <1>6 DEF ToldOK, Plain
<1>8. Taken(r)' = Taken(r)
  BY DEF Taken, Open
<1>9. jar'.session \in 0..Len(begun) /\ FormOK(form)'
  BY <1>1, <1>2, FormKept DEF WorldOK
<1> QED
  BY <1>3, <1>4, <1>5, <1>7, <1>8, <1>9, ActStep

LEMMA SoundSubmit == ASSUME Sound, NEW r \in Requests, Submit(r) PROVE Sound'
<1>1. /\ UNCHANGED <<kind, now, item, others, sessions, tokens, jar, form, begun, loggedOut>>
      /\ UNCHANGED <<calls, told, made>>
  BY DEF Submit, browserVars, worldVars, history
<1>2. reqs[r].pc = "idle"
  BY DEF Submit, Idle
<1>3. PICK f \in Forms : \E input \in InputsFor(f.op) :
          reqs' = [reqs EXCEPT ![r] =
              [pc |-> "auth", cookie |-> jar.session, form |-> f, input |-> input,
               live |-> Live(jar.session)]]
  BY DEF Submit
<1>4. PICK input \in InputsFor(f.op) :
          reqs' = [reqs EXCEPT ![r] =
              [pc |-> "auth", cookie |-> jar.session, form |-> f, input |-> input,
               live |-> Live(jar.session)]]
  BY <1>3
<1>5. RequestOK(r) /\ CallOK(r) /\ ToldOK(r) /\ WorldOK /\ calls[r] = NoCall
  BY <1>2 DEF Sound, RequestsOK, RequestOK
<1>6. StoreStep
  BY <1>1, ShrunkItself, StoreShaped DEF Sound, StoreStep
<1>7. Growth
  BY <1>1, <1>6, ActGrowth
<1>8. FormOK(f)
  <2>1. CASE f = form
    BY <1>5, <2>1 DEF WorldOK
  <2>2. CASE \E s : f = Form(s, "logout", Gone, None, NoToken)
    BY <1>5, <2>2, FormFields DEF FormOK, Known, Version, WorldOK, NoToken
  <2> QED
    BY <2>1, <2>2 DEF Forms
<1>9. Live(jar.session) \/ Dead(jar.session)
  BY <1>5, UIAssumption, SessionAssumption DEF Live, Dead, WorldOK
<1>10. DOMAIN reqs' = Requests /\ \A q \in Requests \ {r} : reqs'[q] = reqs[q]
  BY <1>4 DEF Sound, RequestsOK
<1>11. Only(r)
  BY <1>1, <1>10 DEF Only, Stays, Sound, RequestsOK
<1>12. reqs'[r] = [pc |-> "auth", cookie |-> jar.session, form |-> f, input |-> input,
                   live |-> Live(jar.session)]
  BY <1>4 DEF Sound, RequestsOK
<1>13. /\ reqs'[r].pc = "auth" /\ reqs'[r].cookie = jar.session /\ reqs'[r].form = f
       /\ reqs'[r].live = Live(jar.session)
       /\ reqs'[r] = [pc |-> reqs'[r].pc, cookie |-> reqs'[r].cookie, form |-> reqs'[r].form,
                      input |-> reqs'[r].input, live |-> reqs'[r].live]
  BY <1>12
<1>14. FormOK(reqs[r].form)'
  BY <1>5, <1>7, <1>8, <1>13, FormKept
<1>15. reqs'[r].live \/ Dead(reqs[r].cookie)'
  <2>1. Live(jar.session) => reqs'[r].live
    BY <1>13
  <2>2. Dead(jar.session) => Dead(reqs[r].cookie)'
    BY <1>1, <1>13 DEF Dead
  <2> QED
    BY <1>9, <2>1, <2>2
<1>16. RequestOK(r)'
  BY <1>1, <1>2, <1>5, <1>13, <1>14, <1>15 DEF RequestOK, Busy, WorldOK
<1>17. CallOK(r)'
  BY <1>1, <1>5, <1>7, CallStays
<1>18. ToldOK(r)'
  BY <1>1, <1>5 DEF ToldOK, Plain
<1>19. Taken(r)' = Taken(r)
  BY <1>1 DEF Taken, Open
<1>20. jar'.session \in 0..Len(begun) /\ FormOK(form)'
  BY <1>1, <1>5, <1>7, FormKept DEF WorldOK
<1> QED
  BY <1>1, <1>2, <1>6, <1>11, <1>16, <1>17, <1>18, <1>19, <1>20, ActStep

LEMMA SoundAuth == ASSUME Sound, NEW r \in Requests, auth(r) PROVE Sound'
<1>1. /\ reqs[r].pc = "auth" /\ sessions' = load(sessions, reqs[r].cookie, now).store
      /\ UNCHANGED <<kind, now, item, others, tokens, form, begun, loggedOut, calls, made>>
  BY DEF auth, At, worldVars, history
<1>2. StoreStep
  BY <1>1, Loads, StoreShaped DEF Sound, StoreStep
<1>3. FormOK(form)'
  BY <1>1, <1>2, ActGrowth, FormKept DEF Sound, WorldOK
<1>4. CASE Goto(r, "form") /\ jar' = jar
  BY <1>1, <1>2, <1>4, GoesOnWithoutCall
<1>5. CASE Answer(r, "login") /\ jar' = NoCookie
  <2>1. jar'.session \in 0..Len(begun)
    BY <1>5 DEF NoCookie, Cookie, Sound, WorldOK
  <2>2. "login" \in CallFree /\ reqs[r].pc # "done"
    BY <1>1 DEF CallFree
  <2>3. UNCHANGED <<kind, now, item, others, calls, made>>
    BY <1>1
  <2> QED
    BY <1>2, <1>3, <1>5, <2>1, <2>2, <2>3, AnsweredSound
<1> QED
  BY <1>4, <1>5 DEF auth

\* A form is accepted for a session that lives, and so did at the submission.
LEMMA Verified ==
    ASSUME Sound, NEW r \in Requests, At(r, "form"), parseProtectedForm(r).ok
    PROVE  /\ reqs[r].live /\ reqs[r].form.csrf = reqs[r].cookie
           /\ reqs[r].cookie \in DOMAIN sessions
<1>1. /\ reqs[r].form.csrf = reqs[r].cookie
      /\ reqs[r].cookie \in DOMAIN sessions
      /\ sessions[reqs[r].cookie].expires > now
  BY Verifies, StoreShaped DEF Sound, parseProtectedForm
<1> DEFINE c == reqs[r].cookie
<1>2. /\ c \in DOMAIN begun /\ c \notin loggedOut
      /\ sessions[c] = [expires |-> begun[c] + SessionTTL, tokens |-> sessions[c].tokens]
  BY <1>1 DEF Sound, StoreOK
<1>3. sessions[c].expires = begun[c] + SessionTTL
  BY <1>2
<1>4. c # 0 /\ begun[c] \in Nat /\ now \in Nat
  BY <1>2, UIAssumption DEF Sound, WorldOK
<1>5. ~Dead(c)
  BY <1>1, <1>2, <1>3, <1>4, SessionAssumption DEF Dead
<1>6. reqs[r].live \/ Dead(c)
  BY DEF At, Sound, RequestsOK, RequestOK, Busy
<1> QED
  BY <1>1, <1>5, <1>6

\* The session is looked up, whatever comes of it.
LEMMA VerifyStep ==
    ASSUME Sound, NEW r \in Requests, sessions' = parseProtectedForm(r).store,
           UNCHANGED <<tokens, begun, loggedOut>>
    PROVE  StoreStep
BY Verifies, StoreShaped DEF Sound, StoreStep, parseProtectedForm

LEMMA SoundReject == ASSUME Sound, NEW r \in Requests, RejectForm(r) PROVE Sound'
<1>1. /\ reqs[r].pc = "form" /\ sessions' = parseProtectedForm(r).store /\ Answer(r, "rejected")
      /\ UNCHANGED <<kind, now, item, others, tokens, jar, form, begun, loggedOut, calls, made>>
  BY DEF RejectForm, At, worldVars, history, browserVars
<1>2. StoreStep
  BY <1>1, VerifyStep
<1>3. FormOK(form)' /\ jar'.session \in 0..Len(begun)
  BY <1>1, <1>2, ActGrowth, FormKept DEF Sound, WorldOK
<1>4. "rejected" \in CallFree /\ reqs[r].pc # "done"
  BY <1>1 DEF CallFree
<1>5. UNCHANGED <<kind, now, item, others, calls, made>>
  BY <1>1
<1> QED
  BY <1>1, <1>2, <1>3, <1>4, <1>5, AnsweredSound

\* A handler makes its call.
LEMMA CallMade ==
    ASSUME Sound, NEW r \in Requests, reqs[r].pc \in {"form", "consume", "get"},
           NEW status, NEW expiry, NEW keep, Call(r, status, expiry, keep),
           UNCHANGED <<kind, now, item, others, made, tokens, jar, form>>, StoreStep,
           reqs[r].form.op \in {"create", "update", "status", "delete"},
           reqs[r].form.op \in {"update", "status"} =>
               status \in Statuses /\ (kind # "key" => expiry = NoExpiry),
           keep => /\ reqs[r].form.op \in {"update", "status"}
                   /\ expiry = reqs[r].form.shown.expiry \/ Past(reqs[r].form.shown)
    PROVE  /\ Growth /\ WorldOK' /\ StoreOK' /\ RequestsOK' /\ Only(r)
           /\ Taken(r)' = IF reqs[r].form.op = "create" THEN reqs[r].form.token ELSE NoToken
           /\ (kind = "key" => reqs[r].form.op # "create") => Sound'
<1> DEFINE f == reqs[r].form
<1>1. /\ RequestOK(r) /\ CallOK(r) /\ ToldOK(r) /\ WorldOK /\ calls[r] = NoCall
      /\ FormOK(f) /\ DOMAIN calls = Requests /\ told[r] = None
  BY DEF Sound, RequestsOK, RequestOK, Busy
<1>2. /\ calls' = [calls EXCEPT ![r] =
             [state |-> "sent", op |-> f.op, shown |-> f.shown, token |-> f.token,
              status |-> status, expiry |-> expiry, keep |-> keep,
              left |-> 1, loaded |-> Gone]]
      /\ Goto(r, "call")
  BY DEF Call, Deliveries
<1>3. /\ DOMAIN calls' = Requests
      /\ \A q \in Requests \ {r} : calls'[q] = calls[q]
      /\ calls'[r] = [state |-> "sent", op |-> f.op, shown |-> f.shown, token |-> f.token,
                      status |-> status, expiry |-> expiry, keep |-> keep,
                      left |-> 1, loaded |-> Gone]
  BY <1>1, <1>2
<1>4. /\ calls'[r].state = "sent" /\ calls'[r].op = f.op /\ calls'[r].shown = f.shown
      /\ calls'[r].token = f.token /\ calls'[r].status = status /\ calls'[r].expiry = expiry
      /\ calls'[r].keep = keep /\ calls'[r].left = 1 /\ calls'[r].loaded = Gone
  BY <1>3
<1>5. Growth
  BY ActGrowth
<1>6. RequestOK(r)'
  BY <1>2, <1>4, <1>5, GoesOnSound DEF Busy, None
<1>7. Only(r)
  BY <1>2, <1>3, GoesOn DEF Only, Stays, Sound, RequestsOK, Busy
<1>8. made'[r] = NothingMade /\ made[r] = NothingMade /\ calls[r].state = None
  BY <1>1 DEF CallOK, NoCall
<1>9. Known(f.shown) /\ f.token \in 0..tokens
      /\ (f.op \in {"update", "status"} => f.shown # Gone)
  BY <1>1 DEF FormOK
<1>10. OpenCallOK(r)'
  <2>1. calls'[r] = [state |-> calls'[r].state, op |-> calls'[r].op, shown |-> calls'[r].shown,
                     token |-> calls'[r].token, status |-> calls'[r].status,
                     expiry |-> calls'[r].expiry, keep |-> calls'[r].keep,
                     left |-> calls'[r].left, loaded |-> calls'[r].loaded]
    BY <1>3, <1>4
  <2>2. Known(calls[r].shown)'
    BY <1>1, <1>4, <1>5, <1>9, KnownKept
  <2>3. calls'[r].keep =>
            /\ calls'[r].op \in {"update", "status"}
            /\ calls'[r].expiry = calls'[r].shown.expiry \/ Past(calls[r].shown)'
    <3>1. Past(f.shown) => Past(calls[r].shown)'
      BY <1>4 DEF Past
    <3>2. calls'[r].keep => keep
      BY <1>4
    <3> QED
      BY <1>4, <3>1, <3>2
  <2>4. calls'[r].op \in {"update", "status"} =>
            /\ calls'[r].status \in Statuses
            /\ calls'[r].shown # Gone
            /\ kind' # "key" => calls'[r].expiry = NoExpiry
    BY <1>4, <1>9
  <2> QED
    BY <1>4, <1>9, <2>1, <2>2, <2>3, <2>4 DEF OpenCallOK
<1>11. CallOK(r)'
  <2>1. made'[r].token = NoToken /\ made'[r].times = 0
        /\ made'[r] = [token |-> made'[r].token, times |-> made'[r].times]
    BY <1>8 DEF NothingMade
  <2>2. NoToken \in 0..tokens'
    BY DEF NoToken, Sound, WorldOK
  <2> QED
    BY <1>4, <1>8, <1>10, <2>1, <2>2 DEF CallOK, None
<1>12. told' = told
  BY <1>2 DEF Goto
<1>13. ToldOK(r)'
  BY <1>1, <1>12 DEF ToldOK, None
<1>14. FormOK(form)' /\ jar'.session \in 0..Len(begun)
  BY <1>1, <1>5, FormKept DEF WorldOK
<1>15. Taken(r)' = IF f.op = "create" THEN f.token ELSE NoToken
  BY <1>4 DEF Taken, Open
<1>16. /\ WorldOK' /\ StoreOK' /\ RequestsOK'
       /\ (kind = "key" => Taken(r)' \in {Taken(r), NoToken}) => Sound'
  BY <1>6, <1>7, <1>11, <1>13, <1>14, ActStep
<1> QED
  BY <1>5, <1>7, <1>15, <1>16

\* The expiry in the call is the original's if the field was left alone.
LEMMA ExpiryOfForm ==
    ASSUME Sound, NEW f, FormOK(f), NEW input
    PROVE  /\ kind # "key" => FormExpiry(f, input) = NoExpiry
           /\ (f.op = "update" /\ input.expiry = "keep") =>
                 FormExpiry(f, input) = f.shown.expiry
<1>1. kind # "key" => FormExpiry(f, input) = NoExpiry
  BY DEF FormExpiry
<1>2. ASSUME f.op = "update", input.expiry = "keep"
      PROVE  FormExpiry(f, input) = f.shown.expiry
  <2>1. CASE kind # "key"
    BY <1>1, <1>2, <2>1 DEF FormOK, Known, Version
  <2>2. CASE kind = "key"
    <3>1. FormExpiry(f, input) = inputExpiry(f, input)
      BY <1>2, <2>2 DEF FormExpiry
    <3>2. Typed(f, input) = Display(f.shown.expiry)
      BY <1>2 DEF Typed
    <3> QED
      BY <3>1, <3>2 DEF inputExpiry
  <2> QED
    BY <2>1, <2>2
<1> QED
  BY <1>1, <1>2

-----------------------------------------------------------------------------
(***************************************************************************)
(* The handlers.                                                           *)
(***************************************************************************)
LEMMA FormShown ==
    ASSUME WorldOK, Growth, NEW f, FormOK(f), form' = f
    PROVE  FormOK(form)'
<1>1. FormOK(f)'
  BY FormKept
<1> QED
  BY <1>1 DEF FormOK

\* A form that was accepted: its session was live when it was submitted.
LEMMA Handled ==
    ASSUME Sound, NEW r \in Requests, NEW k, NEW op, Handling(r, k, op)
    PROVE  /\ reqs[r].pc = "form" /\ kind = k /\ reqs[r].form.op = op
           /\ reqs[r].live /\ reqs[r].form.csrf = reqs[r].cookie
           /\ UNCHANGED <<kind, now, item, others, tokens, jar, begun, loggedOut, made>>
           /\ StoreStep /\ Growth
           /\ FormOK(reqs[r].form) /\ FormOK(form) /\ WorldOK
           /\ calls[r] = NoCall
           /\ jar'.session \in 0..Len(begun)
<1>1. /\ At(r, "form") /\ parseProtectedForm(r).ok /\ kind = k /\ reqs[r].form.op = op
      /\ sessions' = parseProtectedForm(r).store
      /\ UNCHANGED <<kind, now, item, others, tokens, jar, begun, loggedOut, made>>
  BY DEF Handling, worldVars, history
<1>2. StoreStep
  BY <1>1, VerifyStep
<1>3. Growth
  BY <1>1, <1>2, ActGrowth
<1>4. reqs[r].live /\ reqs[r].form.csrf = reqs[r].cookie
  BY <1>1, Verified
<1>5. /\ WorldOK /\ FormOK(form) /\ RequestOK(r) /\ reqs[r].pc = "form"
      /\ jar.session \in 0..Len(begun)
  BY <1>1 DEF At, Sound, WorldOK, RequestsOK
<1>6. FormOK(reqs[r].form) /\ calls[r] = NoCall
  BY <1>5 DEF RequestOK, Busy
<1> QED
  BY <1>1, <1>2, <1>3, <1>4, <1>5, <1>6

\* An error page, for a request that made no call.
LEMMA Failed ==
    ASSUME Sound, NEW r \in Requests, Busy(r), NEW page, Fail(r, page),
           page \in CallFree \/ (page = "failed" /\ calls[r] = NoCall),
           UNCHANGED <<kind, now, item, others, calls, made, jar>>, StoreStep
    PROVE  Sound'
<1>1. WorldOK /\ FormOK(form) /\ RequestOK(r) /\ jar'.session \in 0..Len(begun)
  BY DEF Sound, WorldOK, RequestsOK
<1>2. FormOK(reqs[r].form) /\ reqs[r].pc # "done"
  BY <1>1 DEF RequestOK, Busy
<1>3. Growth
  BY ActGrowth
<1>4. form' = form \/ form' = reqs[r].form
  BY DEF Fail
<1>5. FormOK(form)'
  BY <1>1, <1>2, <1>3, <1>4, FormShown
<1>6. Answer(r, page)
  BY DEF Fail
<1> QED
  BY <1>1, <1>2, <1>5, <1>6, AnsweredSound

LEMMA SoundSave ==
    ASSUME Sound, NEW r \in Requests, NEW k, NEW op, op = "update" \/ (op = "create" /\ k # "key"),
           Save(r, k, op)
    PROVE  Sound'
<1>1. Handling(r, k, op)
  BY DEF Save
<1>2. /\ reqs[r].pc = "form" /\ kind = k /\ reqs[r].form.op = op
      /\ UNCHANGED <<kind, now, item, others, tokens, jar, made>>
      /\ StoreStep /\ FormOK(reqs[r].form)
  BY <1>1, Handled
<1>3. CASE ValidInput(reqs[r].input) /\ CallFromForm(r) /\ form' = form
  <2> DEFINE f == reqs[r].form
             input == reqs[r].input
  <2>1. PICK expiry : expiry = FormExpiry(f, input)
    OBVIOUS
  <2>2. PICK keep : keep = (f.op = "update" /\ input.expiry = "keep")
    OBVIOUS
  <2>3. Call(r, input.status, expiry, keep)
    BY <1>3, <2>1, <2>2 DEF CallFromForm
  <2>4. input.status \in Statuses
    BY <1>3 DEF ValidInput, validLifecycleStatus
  <2>5. kind # "key" => expiry = NoExpiry
    BY <1>2, <2>1, ExpiryOfForm
  <2>6. keep => f.op = "update" /\ expiry = f.shown.expiry
    BY <1>2, <2>1, <2>2, ExpiryOfForm
  <2>7. f.op \in {"create", "update"} /\ (kind = "key" => f.op # "create")
    BY <1>2
  <2> HIDE DEF f, input
  <2> QED
    BY <1>2, <1>3, <2>3, <2>4, <2>5, <2>6, <2>7, CallMade DEF f
<1>4. CASE Fail(r, "invalid") /\ calls' = calls
  <2>1. "invalid" \in CallFree /\ Busy(r)
    BY <1>2 DEF CallFree, Busy
  <2> QED
    BY <1>2, <1>4, <2>1, Failed
<1> QED
  BY <1>3, <1>4 DEF Save

LEMMA SoundChangeStatus ==
    ASSUME Sound, NEW r \in Requests, NEW k, ChangeStatus(r, k)
    PROVE  Sound'
<1>1. Handling(r, k, "status") /\ Goto(r, "get") /\ form' = form /\ calls' = calls
  BY DEF ChangeStatus
<1>2. /\ reqs[r].pc = "form" /\ reqs[r].form.op = "status"
      /\ reqs[r].live /\ reqs[r].form.csrf = reqs[r].cookie
      /\ UNCHANGED <<kind, now, item, others, tokens, jar, made>>
      /\ StoreStep
  BY <1>1, Handled
<1> QED
  BY <1>1, <1>2, GoesOnWithoutCall

LEMMA SoundRemove ==
    ASSUME Sound, NEW r \in Requests, NEW k, Remove(r, k)
    PROVE  Sound'
<1>1. Handling(r, k, "delete") /\ Call(r, None, NoExpiry, FALSE) /\ form' = form
  BY DEF Remove
<1>2. /\ reqs[r].pc = "form" /\ reqs[r].form.op = "delete"
      /\ UNCHANGED <<kind, now, item, others, tokens, jar, made>>
      /\ StoreStep
  BY <1>1, Handled
<1>3. PICK keep : keep = FALSE
  OBVIOUS
<1>4. ~keep /\ Call(r, None, NoExpiry, keep)
  BY <1>1, <1>3
<1> QED
  BY <1>1, <1>2, <1>4, CallMade

LEMMA SoundCreateKey == ASSUME Sound, NEW r \in Requests, createVirtualKey(r) PROVE Sound'
<1>1. /\ Handling(r, "key", "create") /\ Goto(r, "consume")
      /\ form' = form /\ calls' = calls
  BY DEF createVirtualKey
<1>2. /\ reqs[r].pc = "form" /\ reqs[r].form.op = "create"
      /\ reqs[r].live /\ reqs[r].form.csrf = reqs[r].cookie
      /\ UNCHANGED <<kind, now, item, others, tokens, jar, made>>
      /\ StoreStep
  BY <1>1, Handled
<1> QED
  BY <1>1, <1>2, GoesOnWithoutCall

\* The token that is consumed was pending, hence taken by nobody, and now it is
\* pending nowhere.
LEMMA TokenTaken ==
    ASSUME Sound, kind' = kind, NEW r \in Requests, NEW t,
           LET used == consumeKeyCreationToken(sessions, reqs[r].cookie, t, now)
           IN  used.ok /\ sessions' = used.store,
           \A q \in Requests \ {r} : Taken(q)' = Taken(q),
           Taken(r)' = t
    PROVE  TokensOK'
<1> DEFINE c == reqs[r].cookie
<1>1. /\ Shrunk(sessions', sessions)
      /\ c \in DOMAIN sessions /\ t \in DOMAIN sessions[c].tokens
      /\ DOMAIN sessions' = DOMAIN sessions
      /\ t \notin DOMAIN sessions'[c].tokens
  BY Consumes, StoreShaped DEF Sound
<1>2. \A s \in DOMAIN sessions' : DOMAIN sessions'[s].tokens \subseteq DOMAIN sessions[s].tokens
  BY <1>1 DEF Shrunk
<1>3. \A s \in DOMAIN sessions : s # c => t \notin DOMAIN sessions[s].tokens
  BY <1>1 DEF Sound, StoreOK
<1>4. \A s \in DOMAIN sessions' : t \notin DOMAIN sessions'[s].tokens
  BY <1>1, <1>2, <1>3
<1>5. t \in 1..tokens /\ tokens \in Nat
  BY <1>1 DEF Sound, StoreOK, WorldOK
<1>6. t # NoToken
  BY <1>5 DEF NoToken
<1>7. ASSUME kind = "key", NEW q \in Requests \ {r} PROVE Taken(q) # t
  BY <1>1, <1>6, <1>7 DEF Sound, TokensOK
<1> HIDE DEF c
<1> SUFFICES ASSUME kind = "key", NEW q \in Requests, Taken(q)' # NoToken
             PROVE  /\ \A s \in DOMAIN sessions' : Taken(q)' \notin DOMAIN sessions'[s].tokens
                    /\ \A p \in Requests \ {q} : Taken(p)' # Taken(q)'
  BY DEF TokensOK
<1>8. CASE q = r
  BY <1>4, <1>7, <1>8
<1>9. CASE q # r
  <2>1. Taken(q)' = Taken(q) /\ Taken(q) # t
    BY <1>7, <1>9
  <2>2. /\ \A s \in DOMAIN sessions : Taken(q) \notin DOMAIN sessions[s].tokens
        /\ \A p \in Requests \ {q} : Taken(p) # Taken(q)
    BY <2>1 DEF Sound, TokensOK
  <2>3. \A p \in Requests \ {q} : Taken(p)' # Taken(q)'
    BY <2>1, <2>2
  <2> QED
    BY <1>1, <1>2, <2>1, <2>2, <2>3
<1> QED
  BY <1>8, <1>9

LEMMA SoundConsume == ASSUME Sound, NEW r \in Requests, ConsumeToken(r) PROVE Sound'
<1> DEFINE used == consumeKeyCreationToken(sessions, reqs[r].cookie, reqs[r].form.token, now)
           f == reqs[r].form
           input == reqs[r].input
<1>1. /\ reqs[r].pc = "consume"
      /\ UNCHANGED <<kind, now, item, others, jar, made, begun, loggedOut>>
  BY DEF ConsumeToken, At, worldVars, history
<1>2. Shrunk(used.store, sessions)
  BY Consumes, StoreShaped DEF Sound
<1>3. /\ RequestOK(r) /\ WorldOK /\ jar'.session \in 0..Len(begun) /\ f.op = "create"
      /\ Busy(r) /\ FormOK(f) /\ reqs[r].pc # "done"
  BY <1>1 DEF Sound, WorldOK, RequestsOK, RequestOK, Busy
<1>4. ASSUME NEW page \in CallFree, refreshKeyCreationForm(used.store, r), Answer(r, page),
             calls' = calls
      PROVE  Sound'
  <2>1. ShowKeyCreation(used.store, reqs[r].cookie)
    BY <1>4 DEF refreshKeyCreationForm
  <2>2. StoreStep /\ FormOK(form)'
    BY <1>1, <1>2, <2>1, KeyCreationShown
  <2> QED
    BY <1>1, <1>3, <1>4, <2>2, AnsweredSound
<1>5. ASSUME used.ok, ValidInput(input), CallFromForm(r), sessions' = used.store,
             tokens' = tokens, form' = form
      PROVE  Sound'
  <2>1. PICK expiry : expiry = FormExpiry(f, input)
    OBVIOUS
  <2>2. PICK keep : keep = (f.op = "update" /\ input.expiry = "keep")
    OBVIOUS
  <2>3. Call(r, input.status, expiry, keep)
    BY <1>5, <2>1, <2>2 DEF CallFromForm
  <2>4. ~keep
    BY <1>3, <2>2
  <2>5. StoreStep
    BY <1>1, <1>2, <1>5 DEF StoreStep
  <2> HIDE DEF input
  <2>6. /\ Only(r) /\ WorldOK' /\ StoreOK' /\ RequestsOK'
        /\ Taken(r)' = f.token
    BY <1>1, <1>3, <1>5, <2>3, <2>4, <2>5, CallMade
  <2>7. \A q \in Requests \ {r} : Taken(q)' = Taken(q)
    BY <2>6, TakenStays DEF Only
  <2>8. TokensOK'
    BY <1>1, <1>5, <2>6, <2>7, TokenTaken
  <2> QED
    BY <2>6, <2>8 DEF Sound
<1>6. "used" \in CallFree /\ "invalid" \in CallFree
  BY DEF CallFree
<1>7. \/ refreshKeyCreationForm(used.store, r) /\ Answer(r, "used") /\ calls' = calls
      \/ refreshKeyCreationForm(used.store, r) /\ Answer(r, "invalid") /\ calls' = calls
      \/ /\ used.ok /\ ValidInput(input) /\ CallFromForm(r) /\ sessions' = used.store
         /\ tokens' = tokens /\ form' = form
  BY DEF ConsumeToken
<1> HIDE DEF used, input, f
<1> QED
  BY <1>4, <1>5, <1>6, <1>7

\* Sign-out: the session leaves the store as it is counted as signed out.
LEMMA SoundLogout == ASSUME Sound, NEW r \in Requests, logout(r) PROVE Sound'
<1> DEFINE S == parseProtectedForm(r).store
           c == reqs[r].cookie
<1>1. /\ At(r, "form") /\ parseProtectedForm(r).ok /\ sessions' = destroy(S, c)
      /\ loggedOut' = loggedOut \cup {c} /\ Answer(r, "signedOut")
      /\ UNCHANGED <<kind, now, item, others, tokens, form, begun, calls, made>>
      /\ jar' \in {NoCookie, jar}
  BY DEF logout, worldVars
<1>2. Shrunk(S, sessions)
  BY Verifies, StoreShaped DEF Sound, parseProtectedForm
<1>3. Shrunk(sessions', S) /\ DOMAIN sessions' = DOMAIN S \ {c}
  BY <1>1, <1>2, ShrunkShaped, Destroys
<1>4. Shrunk(sessions', sessions) /\ c \notin DOMAIN sessions'
  BY <1>2, <1>3, ShrunkTwice
<1>5. c \in DOMAIN sessions
  BY <1>1, Verified
<1> HIDE DEF S, c
<1>0. /\ kind' = kind /\ now' = now /\ item' = item /\ others' = others /\ tokens' = tokens
      /\ form' = form /\ begun' = begun /\ loggedOut' = loggedOut \cup {c}
      /\ jar' = NoCookie \/ jar' = jar
  BY <1>1
<1>6. c \in DOMAIN begun /\ WorldOK
  BY <1>5 DEF Sound, StoreOK
<1>7. StoreOK'
  <2>1. /\ Cardinality(DOMAIN sessions') <= Cardinality(DOMAIN sessions)
        /\ Cardinality(DOMAIN sessions') \in Nat /\ Cardinality(DOMAIN sessions) \in Nat
    BY <1>4, StoreFinite, FS_Subset, FS_CardinalityType DEF Shrunk, Sound
  <2>2. Cardinality(DOMAIN sessions') <= MaxSessions
    BY <2>1, SessionAssumption DEF Sound, StoreOK
  <2> QED
    BY <1>0, <1>4, <2>2 DEF Sound, StoreOK, Shrunk
<1>8. Growth
  BY <1>0, UIAssumption DEF Sound, WorldOK, Growth
<1>9. /\ RequestOK(r)' /\ reqs'[r].pc = "done" /\ told'[r] = "signedOut"
  BY <1>1, Answered
<1>10. Only(r)
  BY <1>1, Answered DEF Only, Stays, Sound, RequestsOK
<1>11. CallOK(r)'
  BY <1>1, <1>8, CallStays DEF Sound, RequestsOK
<1>12. ToldOK(r)'
  BY <1>9 DEF ToldOK
<1>13. RequestsOK'
  BY <1>8, <1>9, <1>10, <1>11, <1>12, RequestsStep
<1>14. Taken(r)' = Taken(r)
  BY <1>1 DEF Taken, Open
<1>15. \A q \in Requests : Taken(q)' = Taken(q)
  BY <1>10, <1>14, TakenStays DEF Only
<1>16. TokensOK'
  BY <1>0, <1>4, <1>15 DEF Sound, TokensOK, Shrunk
<1>17. jar'.session \in 0..Len(begun)
  BY <1>0, <1>6 DEF NoCookie, Cookie, WorldOK
<1>18. FormOK(form)'
  BY <1>0, <1>6, <1>8, FormKept DEF WorldOK
<1>19. /\ Cardinality(Finished) \in Nat /\ Cardinality(Finished)' \in Nat
       /\ Cardinality(Finished) <= Cardinality(Finished)'
  BY <1>1, <1>10, FinishedGrows DEF At
<1>20. Version(item)' /\ Bounds[kind].tokens \in Nat
  BY <1>0, <1>6, UIAssumption DEF Version, WorldOK
<1>21. tokens' <= Bounds[kind'].tokens + Cardinality(Finished)'
  BY <1>0, <1>6, <1>19, <1>20 DEF WorldOK
<1>22. WorldOK'
  BY <1>0, <1>6, <1>17, <1>18, <1>20, <1>21 DEF WorldOK
<1> QED
  BY <1>7, <1>13, <1>16, <1>22 DEF Sound

LEMMA SoundHandle == ASSUME Sound, NEW r \in Requests, Handle(r) PROVE Sound'
<1>1. CASE ConsumeToken(r) \/ logout(r) \/ RejectForm(r) \/ createVirtualKey(r)
  BY <1>1, SoundConsume, SoundLogout, SoundReject, SoundCreateKey
<1>2. CASE createUser(r) \/ createProvider(r) \/ createModel(r)
  BY <1>2, SoundSave DEF createUser, createProvider, createModel
<1>3. CASE updateUser(r) \/ updateProvider(r) \/ updateModel(r) \/ updateVirtualKey(r)
  BY <1>3, SoundSave DEF updateUser, updateProvider, updateModel, updateVirtualKey
<1>4. CASE \/ changeUserStatus(r) \/ changeProviderStatus(r) \/ changeModelStatus(r)
           \/ changeVirtualKeyStatus(r)
  BY <1>4, SoundChangeStatus DEF changeUserStatus, changeProviderStatus, changeModelStatus,
                                 changeVirtualKeyStatus
<1>5. CASE deleteUser(r) \/ deleteProvider(r) \/ deleteModel(r) \/ deleteVirtualKey(r)
  BY <1>5, SoundRemove DEF deleteUser, deleteProvider, deleteModel, deleteVirtualKey
<1> QED
  BY <1>1, <1>2, <1>3, <1>4, <1>5 DEF Handle

\* The write of a status change carries the expiry just read, which is the one
\* of the version shown unless the resource is past that.
LEMMA SoundGetCurrent == ASSUME Sound, NEW r \in Requests, GetCurrent(r) PROVE Sound'
<1>1. /\ reqs[r].pc = "get"
      /\ UNCHANGED <<kind, now, item, others, sessions, tokens, jar, begun, loggedOut, made>>
  BY DEF GetCurrent, At, worldVars, history
<1>2. RequestOK(r) /\ WorldOK /\ Busy(r)
  BY <1>1 DEF Sound, RequestsOK, Busy
<1>3. /\ reqs[r].form.op = "status" /\ calls[r] = NoCall /\ FormOK(reqs[r].form)
  BY <1>1, <1>2 DEF RequestOK
<1>4. StoreStep
  BY <1>1, ShrunkItself, StoreShaped DEF Sound, StoreStep
<1>5. ASSUME item.exists, Call(r, reqs[r].form.target, item.expiry, TRUE), form' = form
      PROVE  Sound'
  <2>1. PICK keep : keep = TRUE
    OBVIOUS
  <2>2. keep /\ Call(r, reqs[r].form.target, item.expiry, keep)
    BY <1>5, <2>1
  <2>3. item # Gone /\ Version(item)
    BY <1>2, <1>5, Exists DEF WorldOK
  <2>4. kind # "key" => item.expiry = NoExpiry
    BY <2>3 DEF Version
  <2>5. /\ reqs[r].form.target \in Statuses
        /\ item.expiry = reqs[r].form.shown.expiry \/ Past(reqs[r].form.shown)
    BY <1>3 DEF FormOK, Known
  <2> QED
    BY <1>1, <1>3, <1>4, <1>5, <2>2, <2>4, <2>5, CallMade
<1>6. CASE Fail(r, "failed") /\ calls' = calls
  BY <1>1, <1>2, <1>3, <1>4, <1>6, Failed
<1> QED
  BY <1>5, <1>6 DEF GetCurrent

-----------------------------------------------------------------------------
(***************************************************************************)
(* The control planes.                                                     *)
(***************************************************************************)
\* If-Match holds for the very version whose tag it carries.
LEMMA IfMatchIs ==
    ASSUME NEW v, NEW w, enforceIfMatch(IfMatch(entityETag(v), FALSE), w)
    PROVE  v = w
<1> DEFINE precondition == IfMatch(entityETag(v), FALSE)
<1>1. precondition.present /\ ~precondition.wildcard
  BY DEF IfMatch
<1>2. \A tag \in precondition.tags : tag.value = entityETag(v)
  BY DEF IfMatch
<1>3. \E tag \in precondition.tags : tag.value = entityETag(w)
  BY <1>1 DEF enforceIfMatch
<1>4. entityETag(v) = entityETag(w)
  BY <1>2, <1>3
<1> QED
  BY <1>4 DEF entityETag

\* A step of a control plane: the call of r goes on or is over.
LEMMA CallStep ==
    ASSUME Sound, NEW r \in Requests, Open(r), ControlPlane,
           DOMAIN calls' = Requests, DOMAIN made' = Requests,
           \A q \in Requests \ {r} : calls'[q] = calls[q] /\ made'[q] = made[q],
           calls'[r].state # None,
           Version(item'), item' = item \/ item' = Gone
                           \/ (item # Gone /\ item'.change = item.change + 1),
           Growth => CallOK(r)', Taken(r)' \in {Taken(r), NoToken}
    PROVE  Sound'
<1>1. /\ kind' = kind /\ now' = now /\ sessions' = sessions /\ tokens' = tokens
      /\ jar' = jar /\ form' = form /\ reqs' = reqs /\ told' = told /\ others' = others
      /\ begun' = begun /\ loggedOut' = loggedOut
  BY DEF ControlPlane, browserVars, history
<1>2. WorldOK /\ RequestOK(r) /\ CallOK(r) /\ ToldOK(r)
  BY DEF Sound, RequestsOK
<1>3. Growth
  BY <1>1, <1>2, UIAssumption DEF WorldOK, Growth
<1>4. reqs[r].pc \in {"call", "done"}
  BY <1>2 DEF RequestOK, Open, NoCall, None
<1>5. RequestOK(r)'
  <2>1. CASE reqs[r].pc = "done"
    BY <1>1, <2>1 DEF RequestOK, Busy
  <2>2. CASE reqs[r].pc = "call"
    <3>1. FormOK(reqs[r].form)
      BY <1>2, <2>2 DEF RequestOK, Busy
    <3>2. FormOK(reqs[r].form)'
      BY <1>1, <1>2, <1>3, <3>1, FormKept
    <3>3. reqs[r].live \/ Dead(reqs[r].cookie)'
      BY <1>1, <1>2, <2>2 DEF RequestOK, Busy, Dead
    <3> QED
      BY <1>1, <1>2, <2>2, <3>2, <3>3 DEF RequestOK, Busy
  <2> QED
    BY <1>4, <2>1, <2>2
<1>6. CallOK(r)'
  BY <1>3
<1>7. ToldOK(r)'
  <2>1. made[r].times = 0 /\ calls[r].state \notin {None, "over"}
    BY <1>2 DEF CallOK, Open, NothingMade, None
  <2>2. told[r] # "success"
    <3>1. made[r].times # 1
      BY <2>1
    <3> QED
      BY <1>2, <3>1, Zenon DEF ToldOK
  <2>3. told[r] = "failed" => ~Plain
    BY <1>2, <2>1 DEF ToldOK
  <2> QED
    BY <1>1, <1>2, <2>2, <2>3 DEF ToldOK, Plain
<1>8. Only(r)
  BY <1>1 DEF Only, Stays, Sound, RequestsOK
<1>9. RequestsOK'
  BY <1>3, <1>5, <1>6, <1>7, <1>8, RequestsStep
<1>10. StoreStep
  BY <1>1, ShrunkItself, StoreShaped DEF Sound, StoreStep
<1>11. FormOK(form)'
  BY <1>1, <1>2, <1>3, FormKept DEF WorldOK
<1>12. Version(item)' /\ Finished' = Finished
  BY <1>1 DEF Version, Finished
<1>13. WorldOK'
  BY <1>1, <1>2, <1>11, <1>12 DEF WorldOK
<1>14. \A q \in Requests : Taken(q)' \in {Taken(q), NoToken}
  BY <1>8, TakenStays DEF Only
<1> QED
  BY <1>3, <1>9, <1>10, <1>13, <1>14, SoundStep

\* The statuses of the errors of a service.
LEMMA ErrorStatus ==
    /\ writeError("validation") = 400 /\ writeError("notFound") = 404
    /\ writeError("conflict") = 409 /\ writeError("unavailable") = 503
BY DEF writeError

LEMMA ErrorIsNoSuccess ==
    ASSUME NEW e \in {"notFound", "conflict", "validation", "unavailable"}
    PROVE  writeError(e) \in Nat /\ ~Success(writeError(e))
<1>1. CASE e = "validation"
  BY <1>1, ErrorStatus DEF Success
<1>2. CASE e = "notFound"
  BY <1>2, ErrorStatus DEF Success
<1>3. CASE e = "conflict"
  BY <1>3, ErrorStatus DEF Success
<1>4. CASE e = "unavailable"
  BY <1>4, ErrorStatus DEF Success
<1> QED
  BY <1>1, <1>2, <1>3, <1>4

\* A mutation is delivered once, so when the service is done the call is over.
LEMMA CallOver ==
    ASSUME Sound, NEW r \in Requests, Open(r), NEW status \in Nat, Over(r, status)
    PROVE  /\ DOMAIN calls' = Requests
           /\ \A q \in Requests \ {r} : calls'[q] = calls[q]
           /\ calls'[r] = [state |-> "over", answer |-> calls'[r].answer]
           /\ calls'[r].state = "over" /\ ~Open(r)'
           /\ calls'[r].answer \in {status, NoResponse}
<1>1. calls[r].left = 1 /\ DOMAIN calls = Requests
  BY DEF Sound, RequestsOK, CallOK, OpenCallOK
<1>2. calls' = [calls EXCEPT ![r] =
          [state |-> "over", answer |-> IF At(r, "call") THEN status ELSE NoResponse]]
  BY <1>1 DEF Over
<1>3. calls'[r] = [state |-> "over", answer |-> IF At(r, "call") THEN status ELSE NoResponse]
  BY <1>1, <1>2
<1>4. calls'[r].state = "over" /\ calls'[r].answer \in {status, NoResponse}
  BY <1>3
<1> QED
  BY <1>1, <1>2, <1>3, <1>4 DEF Open

\* The service refuses the call, or its transaction finds another version.
LEMMA CallRefused ==
    ASSUME Sound, NEW r \in Requests, Open(r), ControlPlane,
           NEW status \in Nat, ~Success(status), Over(r, status), UNCHANGED <<item, made>>
    PROVE  Sound'
<1>1. /\ DOMAIN calls' = Requests
      /\ \A q \in Requests \ {r} : calls'[q] = calls[q]
      /\ calls'[r] = [state |-> "over", answer |-> calls'[r].answer]
      /\ calls'[r].state = "over" /\ ~Open(r)'
      /\ calls'[r].answer \in {status, NoResponse}
  BY CallOver
<1>2. CallOK(r) /\ WorldOK /\ DOMAIN made = Requests
  BY DEF Sound, RequestsOK
<1>3. made[r] = NothingMade
  BY <1>2 DEF CallOK, Open
<1>4. made'[r].token = NoToken /\ made'[r].times = 0
      /\ made'[r] = [token |-> made'[r].token, times |-> made'[r].times]
  BY <1>3 DEF NothingMade
<1>5. calls'[r].answer \in Nat /\ ~Success(calls'[r].answer)
  BY <1>1 DEF Success, NoResponse
<1>6. tokens' = tokens
  BY DEF ControlPlane
<1>7. CallOK(r)'
  <2>1. Success(calls[r].answer)' <=> Success(calls'[r].answer)
    BY DEF Success
  <2>2. NoToken \in 0..tokens'
    BY <1>2, <1>6 DEF NoToken, WorldOK
  <2> QED
    BY <1>1, <1>4, <1>5, <2>1, <2>2 DEF CallOK, None
<1>8. Taken(r)' = NoToken
  BY <1>1, <1>4 DEF Taken
<1>9. Version(item') /\ calls'[r].state # None
  BY <1>1, <1>2 DEF WorldOK, None
<1> QED
  BY <1>1, <1>2, <1>7, <1>8, <1>9, CallStep

LEMMA SoundServe == ASSUME Sound, NEW r \in Requests, Serve(r) PROVE Sound'
<1> DEFINE call == calls[r]
           found == call.op = "create" \/ item.exists
           current == call.op = "create" \/ enforceIfMatch(Precondition(call), item)
<1>1. /\ call.state = "sent" /\ item' = item /\ made' = made /\ ControlPlane
  BY DEF Serve
<1>2. Open(r) /\ CallOK(r) /\ WorldOK /\ DOMAIN calls = Requests /\ DOMAIN made = Requests
  BY <1>1 DEF Open, Sound, RequestsOK
<1>3. OpenCallOK(r) /\ made[r] = NothingMade
  BY <1>2 DEF CallOK, Open
<1>4. ASSUME NEW e \in {"notFound", "conflict", "validation", "unavailable"},
             Over(r, writeError(e))
      PROVE  Sound'
  <2>1. PICK status : status = writeError(e)
    OBVIOUS
  <2>3. status \in Nat /\ ~Success(status)
    BY <1>4, <2>1, ErrorIsNoSuccess, Zenon
  <2>4. Over(r, status)
    BY <1>4, <2>1
  <2> QED
    BY <1>1, <1>2, <2>3, <2>4, CallRefused
<1>5. ASSUME found, current,
             calls' = [calls EXCEPT ![r] = [call EXCEPT !.state = "loaded", !.loaded = item]]
      PROVE  Sound'
  <2>1. call.op # "create" => item = call.shown
    BY <1>5, IfMatchIs DEF Precondition
  <2>2. call = [state |-> call.state, op |-> call.op, shown |-> call.shown,
                token |-> call.token, status |-> call.status, expiry |-> call.expiry,
                keep |-> call.keep, left |-> call.left, loaded |-> call.loaded]
    BY <1>3 DEF OpenCallOK
  <2>3. /\ DOMAIN calls' = Requests
        /\ \A q \in Requests \ {r} : calls'[q] = calls[q]
        /\ calls'[r] = [call EXCEPT !.state = "loaded", !.loaded = item]
    BY <1>2, <1>5
  <2>4. calls'[r] = [state |-> "loaded", op |-> call.op, shown |-> call.shown,
                     token |-> call.token, status |-> call.status, expiry |-> call.expiry,
                     keep |-> call.keep, left |-> call.left, loaded |-> item]
    BY <2>2, <2>3
  <2>5. /\ calls'[r].state = "loaded" /\ calls'[r].op = call.op /\ calls'[r].shown = call.shown
        /\ calls'[r].token = call.token /\ calls'[r].status = call.status
        /\ calls'[r].expiry = call.expiry /\ calls'[r].keep = call.keep
        /\ calls'[r].left = call.left /\ calls'[r].loaded = item
    BY <2>4
  <2> HIDE DEF call, found, current
  <2>6. tokens' = tokens /\ kind' = kind
    BY <1>1 DEF ControlPlane
  <2>7. ASSUME Growth PROVE OpenCallOK(r)'
    <3>1. calls'[r] = [state |-> calls'[r].state, op |-> calls'[r].op, shown |-> calls'[r].shown,
                       token |-> calls'[r].token, status |-> calls'[r].status,
                       expiry |-> calls'[r].expiry, keep |-> calls'[r].keep,
                       left |-> calls'[r].left, loaded |-> calls'[r].loaded]
      BY <2>4, <2>5
    <3>2. Known(call.shown)'
      BY <1>2, <1>3, <2>5, <2>7, KnownKept DEF OpenCallOK, call
    <3>3. Past(calls[r].shown)' <=> Past(call.shown)
      BY <1>1, <2>5 DEF Past
    <3>4. calls'[r].keep => /\ calls'[r].op \in {"update", "status"}
                            /\ calls'[r].expiry = calls'[r].shown.expiry \/ Past(calls[r].shown)'
      BY <1>3, <2>5, <3>3 DEF OpenCallOK, call
    <3>5. Known(calls[r].shown)'
      BY <1>1, <1>3, <2>5, <2>6 DEF OpenCallOK, call, Known, Version, Past
    <3> QED
      BY <1>3, <2>1, <2>5, <2>6, <3>1, <3>4, <3>5 DEF OpenCallOK, call
  <2>8. ASSUME Growth PROVE CallOK(r)'
    <3>1. made'[r] = NothingMade
      BY <1>1, <1>3
    <3>2. /\ made'[r].token \in 0..tokens' /\ made'[r].times \in {0, 1}
          /\ made'[r] = [token |-> made'[r].token, times |-> made'[r].times]
      BY <1>1, <1>2, <2>6 DEF CallOK
    <3> QED
      BY <2>5, <2>7, <2>8, <3>1, <3>2 DEF CallOK
  <2>9. Taken(r)' = Taken(r)
    BY <1>2, <2>5 DEF Taken, Open, call
  <2>10. Version(item') /\ calls'[r].state # None
    BY <1>1, <1>2, <2>5 DEF WorldOK, None
  <2> QED
    BY <1>1, <1>2, <2>3, <2>8, <2>9, <2>10, CallStep
<1>6. \/ \E e \in {"notFound", "conflict", "validation", "unavailable"} :
            Over(r, writeError(e))
      \/ /\ found /\ current
         /\ calls' = [calls EXCEPT ![r] = [call EXCEPT !.state = "loaded", !.loaded = item]]
  BY DEF Serve
<1> HIDE DEF call, found, current
<1> QED
  BY <1>4, <1>5, <1>6

\* What is written is a version, and the next one if it replaces another.
LEMMA WrittenVersion ==
    ASSUME Sound, NEW r \in Requests, calls[r].state = "loaded", CompareAndSwap(calls[r]),
           item' = Written(calls[r])
    PROVE  /\ Version(item')
           /\ item' = item \/ item' = Gone \/ (item # Gone /\ item'.change = item.change + 1)
           /\ calls[r].op # "create" => item = calls[r].shown
           /\ calls[r].op \in {"update", "status"} =>
                 item'.expiry = calls[r].expiry /\ calls[r].shown # Gone
<1> DEFINE call == calls[r]
<1>1. Version(item) /\ OpenCallOK(r)
  BY DEF Sound, WorldOK, RequestsOK, CallOK, Open
<1>2. call.op \in {"create", "update", "status", "delete"}
  BY <1>1 DEF OpenCallOK
<1>3. CASE call.op = "create"
  <2>1. item' = item
    BY <1>3 DEF Written
  <2> QED
    BY <1>1, <1>3, <2>1
<1>4. CASE call.op = "delete"
  <2>1. item' = Gone
    BY <1>4 DEF Written
  <2>2. item = call.shown
    BY <1>1, <1>4 DEF OpenCallOK, CompareAndSwap
  <2> QED
    BY <1>4, <2>1, <2>2 DEF Version
<1>5. CASE call.op \in {"update", "status"}
  <2>1. item' = Resource(call.status, call.expiry, item.change + 1)
    BY <1>5 DEF Written
  <2>2. /\ item = call.shown /\ item # Gone /\ call.status \in Statuses
        /\ kind # "key" => call.expiry = NoExpiry
    BY <1>1, <1>5 DEF OpenCallOK, CompareAndSwap
  <2>3. item.change \in Nat
    BY <1>1, <2>2 DEF Version
  <2> HIDE DEF call
  <2>4. /\ item'.status = call.status /\ item'.expiry = call.expiry
        /\ item'.change = item.change + 1
    BY <2>1, ResourceFields
  <2>5. Version(item')
    BY <2>1, <2>2, <2>3, <2>4 DEF Version
  <2> QED
    BY <1>5, <2>2, <2>4, <2>5 DEF call
<1> QED
  BY <1>2, <1>3, <1>4, <1>5

\* The answers to a call that was carried out: to providers and keys only a
\* success or one that leaves the outcome open.
LEMMA AnswersAre ==
    ASSUME NEW call, NEW status \in Answers(call)
    PROVE  /\ status \in Nat
           /\ Plain => Success(status) \/ Ambiguous(TRUE, status)
<1>1. \/ status \in {200, 204, 503}
      \/ status = 409 /\ ProjectedAfter(call)
  BY ErrorStatus DEF Answers
<1>2. Plain => ~ProjectedAfter(call)
  BY DEF Plain, ProjectedAfter
<1>3. CASE status \in {200, 204}
  BY <1>3 DEF Success, Ambiguous
<1>4. CASE status = 503
  BY <1>4 DEF Ambiguous
<1>5. CASE status = 409 /\ ProjectedAfter(call)
  BY <1>2, <1>5 DEF Ambiguous
<1> QED
  BY <1>1, <1>3, <1>4, <1>5

LEMMA SoundCommit == ASSUME Sound, NEW r \in Requests, CommitCall(r) PROVE Sound'
<1> DEFINE call == calls[r]
           token == IF call.op = "create" THEN call.token ELSE NoToken
<1>1. call.state = "loaded" /\ ControlPlane
  BY DEF CommitCall
<1>2. Open(r) /\ CallOK(r) /\ WorldOK /\ DOMAIN calls = Requests /\ DOMAIN made = Requests
  BY <1>1 DEF Open, Sound, RequestsOK
<1>3. OpenCallOK(r) /\ made[r] = NothingMade
  BY <1>2 DEF CallOK, Open
<1>4. ASSUME CompareAndSwap(call), item' = Written(call),
             made' = [made EXCEPT ![r] = [token |-> token, times |-> @.times + 1]],
             NEW status \in Answers(call), Over(r, status)
      PROVE  Sound'
  <2>1. /\ Version(item')
        /\ item' = item \/ item' = Gone \/ (item # Gone /\ item'.change = item.change + 1)
    BY <1>1, <1>4, WrittenVersion
  <2>2. status \in Nat /\ (Plain => Success(status) \/ Ambiguous(TRUE, status))
    BY <1>4, AnswersAre
  <2>3. /\ DOMAIN calls' = Requests
        /\ \A q \in Requests \ {r} : calls'[q] = calls[q]
        /\ calls'[r] = [state |-> "over", answer |-> calls'[r].answer]
        /\ calls'[r].state = "over" /\ ~Open(r)'
        /\ calls'[r].answer \in {status, NoResponse}
    BY <1>2, <1>4, <2>2, CallOver
  <2>4. token \in 0..tokens /\ Taken(r) = token
    BY <1>2, <1>3 DEF OpenCallOK, Taken, NoToken, WorldOK
  <2> HIDE DEF token, call
  <2>5. made[r].times = 0
    BY <1>3 DEF NothingMade
  <2>6. /\ DOMAIN made' = Requests
        /\ \A q \in Requests \ {r} : made'[q] = made[q]
        /\ made'[r] = [token |-> token, times |-> 1]
    BY <1>2, <1>4, <2>5
  <2>7. made'[r].token = token /\ made'[r].times = 1
        /\ made'[r] = [token |-> made'[r].token, times |-> made'[r].times]
    BY <2>6
  <2>8. tokens' = tokens /\ kind' = kind
    BY <1>1 DEF ControlPlane
  <2>9. calls'[r].answer \in Nat
    BY <2>2, <2>3 DEF NoResponse
  <2>10. Plain => Success(calls'[r].answer) \/ Ambiguous(TRUE, calls'[r].answer)
    <3>1. CASE calls'[r].answer = status
      BY <2>2, <3>1
    <3>2. CASE calls'[r].answer = NoResponse
      BY <3>2 DEF Ambiguous
    <3> QED
      BY <2>3, <3>1, <3>2
  <2>11. (/\ Plain /\ ~Success(calls[r].answer) /\ ~Ambiguous(TRUE, calls[r].answer))'
             => made'[r].times = 0
    BY <2>8, <2>10 DEF Plain, Success, Ambiguous
  <2>12. CallOK(r)'
    BY <2>3, <2>4, <2>7, <2>8, <2>9, <2>11 DEF CallOK, None
  <2>13. Taken(r)' = Taken(r)
    BY <2>3, <2>4, <2>7 DEF Taken
  <2> QED
    BY <1>1, <1>2, <2>1, <2>3, <2>6, <2>12, <2>13, CallStep DEF None
<1>5. CASE item' = item /\ made' = made /\ Over(r, writeError("conflict"))
  <2>1. writeError("conflict") \in Nat /\ ~Success(writeError("conflict"))
    BY ErrorIsNoSuccess
  <2> QED
    BY <1>1, <1>2, <1>5, <2>1, CallRefused
<1> HIDE DEF call, token
<1> QED
  BY <1>4, <1>5 DEF CommitCall, call, token

-----------------------------------------------------------------------------
(***************************************************************************)
(* The outcome.                                                            *)
(***************************************************************************)
\* The page that answers a request after its call.
LEMMA OutcomeTold ==
    ASSUME Sound, NEW r \in Requests, reqs[r].pc = "call", NEW page, Answer(r, page),
           page \in {"success", "failed", "unknown"},
           page = "success" => made[r].times = 1,
           page = "failed" => /\ calls'[r].state = "over"
                              /\ Plain => made[r].times = 0,
           UNCHANGED <<kind, now, item, others, made, jar>>, StoreStep,
           DOMAIN calls' = Requests,
           \A q \in Requests \ {r} : calls'[q] = calls[q],
           calls'[r] = calls[r] \/ /\ calls[r].state = "over"
                                   /\ calls'[r] = [state |-> "over", answer |-> NoResponse],
           FormOK(form)'
    PROVE  Sound'
<1>1. Growth
  BY ActGrowth
<1>2. RequestOK(r)' /\ reqs'[r].pc = "done" /\ told'[r] = page
  BY Answered
<1>3. Only(r)
  BY Answered DEF Only, Stays, Sound, RequestsOK
<1>4. CallOK(r) /\ WorldOK
  BY DEF Sound, RequestsOK
<1>5. /\ CallOK(r)' /\ Taken(r)' = Taken(r)
  <2>1. CASE calls'[r] = calls[r]
    BY <1>1, <1>4, <2>1, CallStays DEF Taken, Open
  <2>2. CASE /\ calls[r].state = "over"
             /\ calls'[r] = [state |-> "over", answer |-> NoResponse]
    <3>1. calls'[r].state = "over" /\ calls'[r].answer = NoResponse
      BY <2>2
    <3>2. calls'[r] = [state |-> "over", answer |-> calls'[r].answer]
      BY <2>2, <3>1
    <3>3. ~Success(calls'[r].answer) /\ Ambiguous(TRUE, calls'[r].answer)
          /\ calls'[r].answer \in Nat
      BY <3>1 DEF Success, Ambiguous, NoResponse
    <3>4. ~Success(calls[r].answer)' /\ Ambiguous(TRUE, calls[r].answer)'
      BY <3>3 DEF Success, Ambiguous
    <3>5. /\ made'[r].token \in 0..tokens' /\ made'[r].times \in {0, 1}
          /\ made'[r] = [token |-> made'[r].token, times |-> made'[r].times]
      BY <1>1, <1>4 DEF CallOK, Growth, WorldOK
    <3>6. CallOK(r)'
      BY <3>1, <3>2, <3>3, <3>4, <3>5 DEF CallOK, None, Open
    <3> QED
      BY <2>2, <3>1, <3>6 DEF Taken, Open
  <2> QED
    BY <2>1, <2>2
<1>6. ToldOK(r)'
  BY <1>2 DEF ToldOK, Plain
<1>7. jar'.session \in 0..Len(begun)
  BY <1>4 DEF WorldOK
<1> QED
  BY <1>2, <1>3, <1>5, <1>6, <1>7, ActStep

\* The error page after a call, with the form that comes with it.
LEMMA ErrorShown ==
    ASSUME Sound, NEW r \in Requests, reqs[r].pc = "call", NEW status \in Nat,
           renderOperationError(r, status),
           UNCHANGED <<kind, now, item, others, begun, loggedOut>>
    PROVE  /\ StoreStep /\ FormOK(form)'
           /\ \/ Answer(r, "unknown") /\ (status = NoResponse \/ status >= 500)
              \/ Answer(r, "failed") /\ status # NoResponse /\ ~(status >= 500)
<1>1. WorldOK /\ FormOK(form) /\ FormOK(reqs[r].form)
  BY DEF Sound, WorldOK, RequestsOK, RequestOK, Busy
<1>2. ASSUME NEW page, Fail(r, page), sessions' = sessions, tokens' = tokens
      PROVE  StoreStep /\ FormOK(form)' /\ Answer(r, page)
  <2>1. StoreStep
    BY <1>2, ShrunkItself, StoreShaped DEF Sound, StoreStep
  <2>2. Growth
    BY <2>1, ActGrowth
  <2>3. form' = form \/ form' = reqs[r].form
    BY <1>2 DEF Fail
  <2>4. FormOK(form)'
    BY <1>1, <2>2, <2>3, FormShown
  <2> QED
    BY <1>2, <2>1, <2>4 DEF Fail
<1>3. CASE status = NoResponse \/ status >= 500
  <2>1. Fail(r, "unknown") /\ sessions' = sessions /\ tokens' = tokens
    BY <1>3 DEF renderOperationError, Ambiguous
  <2> QED
    BY <1>2, <1>3, <2>1
<1>4. CASE ~(status = NoResponse \/ status >= 500) /\ kind = "key" /\ reqs[r].form.op = "create"
  <2>1. Answer(r, "failed") /\ ShowKeyCreation(sessions, reqs[r].cookie)
    BY <1>4 DEF renderOperationError, Ambiguous, refreshKeyCreationForm
  <2>2. Shrunk(sessions, sessions)
    BY ShrunkItself, StoreShaped DEF Sound
  <2>3. StoreStep /\ FormOK(form)'
    BY <2>1, <2>2, KeyCreationShown
  <2> QED
    BY <1>4, <2>1, <2>3
<1>5. CASE /\ ~(status = NoResponse \/ status >= 500)
           /\ ~(kind = "key" /\ reqs[r].form.op = "create")
  <2>1. Fail(r, "failed") /\ sessions' = sessions /\ tokens' = tokens
    BY <1>5 DEF renderOperationError, Ambiguous
  <2> QED
    BY <1>2, <1>5, <2>1
<1> QED
  BY <1>3, <1>4, <1>5

LEMMA SoundReceive == ASSUME Sound, NEW r \in Requests, Receive(r) PROVE Sound'
<1> DEFINE status == calls[r].answer
<1>1. /\ reqs[r].pc = "call" /\ calls[r].state = "over"
      /\ calls' = [calls EXCEPT ![r].answer = NoResponse]
      /\ UNCHANGED <<kind, now, item, others, jar, made, begun, loggedOut>>
  BY DEF Receive, At, worldVars, history
<1>2. CallOK(r) /\ WorldOK /\ DOMAIN calls = Requests
  BY DEF Sound, RequestsOK
<1>3. /\ calls[r] = [state |-> "over", answer |-> calls[r].answer]
      /\ status \in Nat
      /\ Success(status) => made[r].times = 1
      /\ (Plain /\ ~Success(status) /\ status # NoResponse /\ ~(status >= 500))
             => made[r].times = 0
  BY <1>1, <1>2 DEF CallOK, Ambiguous
<1>4. /\ DOMAIN calls' = Requests
      /\ \A q \in Requests \ {r} : calls'[q] = calls[q]
      /\ calls'[r] = [calls[r] EXCEPT !.answer = NoResponse]
  BY <1>1, <1>2
<1>5. calls'[r] = [state |-> "over", answer |-> NoResponse] /\ calls'[r].state = "over"
  BY <1>3, <1>4
<1>6. CASE Success(status) /\ Answer(r, "success")
           /\ sessions' = sessions /\ tokens' = tokens /\ form' = form
  <2>1. StoreStep
    BY <1>1, <1>6, ShrunkItself, StoreShaped DEF Sound, StoreStep
  <2>2. FormOK(form)'
    BY <1>1, <1>2, <1>6, <2>1, ActGrowth, FormShown DEF WorldOK
  <2> QED
    BY <1>1, <1>3, <1>4, <1>5, <1>6, <2>1, <2>2, OutcomeTold
<1>7. CASE ~Success(status) /\ renderOperationError(r, status)
  <2>1. /\ StoreStep /\ FormOK(form)'
        /\ \/ Answer(r, "unknown")
           \/ Answer(r, "failed") /\ status # NoResponse /\ ~(status >= 500)
    BY <1>1, <1>3, <1>7, ErrorShown
  <2>2. CASE Answer(r, "unknown")
    BY <1>1, <1>4, <1>5, <2>1, <2>2, OutcomeTold
  <2>3. CASE Answer(r, "failed") /\ status # NoResponse /\ ~(status >= 500)
    <3>1. Plain => made[r].times = 0
      BY <1>3, <1>7, <2>3
    <3> QED
      BY <1>1, <1>4, <1>5, <2>1, <2>3, <3>1, OutcomeTold
  <2> QED
    BY <2>1, <2>2, <2>3
<1> QED
  BY <1>6, <1>7 DEF Receive

LEMMA SoundLose == ASSUME Sound, NEW r \in Requests, Lose(r) PROVE Sound'
<1>1. /\ reqs[r].pc = "call" /\ renderOperationError(r, NoResponse)
      /\ calls' = [calls EXCEPT ![r] =
            IF calls[r].state = "over" THEN [calls[r] EXCEPT !.answer = NoResponse] ELSE calls[r]]
      /\ UNCHANGED <<kind, now, item, others, jar, made, begun, loggedOut>>
  BY DEF Lose, At, worldVars, history
<1>2. CallOK(r) /\ DOMAIN calls = Requests
  BY DEF Sound, RequestsOK
<1>3. /\ DOMAIN calls' = Requests
      /\ \A q \in Requests \ {r} : calls'[q] = calls[q]
      /\ calls'[r] = IF calls[r].state = "over" THEN [calls[r] EXCEPT !.answer = NoResponse]
                                                ELSE calls[r]
  BY <1>1, <1>2
<1>4. calls[r].state = "over" => calls[r] = [state |-> "over", answer |-> calls[r].answer]
  BY <1>2 DEF CallOK
<1>5. calls'[r] = calls[r] \/ (/\ calls[r].state = "over"
                               /\ calls'[r] = [state |-> "over", answer |-> NoResponse])
  BY <1>3, <1>4
<1>6. /\ StoreStep /\ FormOK(form)' /\ Answer(r, "unknown")
  <2>1. NoResponse \in Nat
    BY DEF NoResponse
  <2> QED
    BY <1>1, <2>1, ErrorShown
<1> QED
  BY <1>1, <1>3, <1>5, <1>6, OutcomeTold

-----------------------------------------------------------------------------
(***************************************************************************)
(* The theorems.                                                           *)
(***************************************************************************)
LEMMA SoundNext == ASSUME Sound, [Next]_vars PROVE Sound'
<1>1. CASE Tick \/ ForgetCookie \/ loginPage \/ Pages \/ OtherClient
  BY <1>1, SoundTick, SoundForget, SoundLoginPage, SoundPages, SoundOther
<1>2. CASE \E rightToken \in BOOLEAN : login(rightToken)
  BY <1>2, SoundLogin
<1>3. ASSUME NEW r \in Requests,
             \/ Submit(r) \/ auth(r) \/ Handle(r) \/ GetCurrent(r) \/ Receive(r) \/ Lose(r)
             \/ Serve(r) \/ CommitCall(r)
      PROVE  Sound'
  BY <1>3, SoundSubmit, SoundAuth, SoundHandle, SoundGetCurrent, SoundReceive, SoundLose,
     SoundServe, SoundCommit
<1>4. CASE UNCHANGED vars
  <2>1. StoreStep
    BY <1>4, ShrunkItself, StoreShaped DEF Sound, StoreStep, vars
  <2>2. FormOK(form)' /\ jar'.session \in 0..Len(begun)
    BY <1>4, <2>1, ActGrowth, FormShown DEF Sound, WorldOK, vars
  <2> QED
    BY <1>4, <2>1, <2>2, BrowserStep DEF vars, requestVars
<1> QED
  BY <1>1, <1>2, <1>3, <1>4 DEF Next

\* The invariant: forms and calls carry versions that the resource has or had,
\* sessions are in the store from sign-in to sign-out or expiry, a request gets
\* to its handler only with a session, and a token is pending or taken by one.
THEOREM SoundInvariant == Spec => []Sound
<1>1. Init => Sound
  BY SoundInit
<1>2. Sound /\ [Next]_vars => Sound'
  BY SoundNext
<1> QED
  BY <1>1, <1>2, PTL DEF Spec

LEMMA SoundTypes == Sound => TypeOK
<1> SUFFICES ASSUME Sound PROVE TypeOK
  OBVIOUS
<1>1. WorldOK /\ StoreOK /\ RequestsOK
  BY DEF Sound
<1>2. DOMAIN sessions \subseteq 1..Bounds[kind].logins
  <2>1. DOMAIN sessions \subseteq 1..Len(begun)
    BY <1>1 DEF StoreOK, WorldOK
  <2>2. Len(begun) \in Nat /\ Bounds[kind].logins \in Nat /\ Len(begun) <= Bounds[kind].logins
    BY <1>1, UIAssumption DEF WorldOK
  <2> QED
    BY <2>1, <2>2
<1>3. tokens \in 0..(Bounds[kind].tokens + Cardinality(Requests))
  <2>1. /\ Cardinality(Finished) <= Cardinality(Requests)
        /\ Cardinality(Finished) \in Nat /\ Cardinality(Requests) \in Nat
    BY UIAssumption, FS_Subset, FS_CardinalityType DEF Finished
  <2>2. Bounds[kind].tokens \in Nat /\ tokens \in Nat
        /\ tokens <= Bounds[kind].tokens + Cardinality(Finished)
    BY <1>1, UIAssumption DEF WorldOK
  <2> QED
    BY <2>1, <2>2
<1>4. item = Gone \/ item.status \in Statuses
  BY <1>1 DEF WorldOK, Version
<1>5. ASSUME NEW r \in Requests
      PROVE  /\ reqs[r].pc \in {"idle", "auth", "form", "consume", "get", "call", "done"}
             /\ calls[r].state \in {None, "sent", "loaded", "over"}
             /\ told[r] \in {None, "login", "rejected", "invalid", "used", "failed",
                             "unknown", "success", "signedOut"}
             /\ made[r] \in [token : 0..tokens, times : Nat]
  <2>1. RequestOK(r) /\ CallOK(r) /\ ToldOK(r)
    BY <1>1 DEF RequestsOK
  <2>2. made[r] \in [token : 0..tokens, times : Nat]
    BY <2>1 DEF CallOK
  <2> QED
    BY <2>1, <2>2 DEF RequestOK, CallOK, ToldOK
<1> QED
  BY <1>1, <1>2, <1>3, <1>4, <1>5 DEF TypeOK, WorldOK

\* Type correctness of the administration UI.
THEOREM TypeCorrect == Spec => []TypeOK
BY SoundInvariant, SoundTypes, PTL

\* However often, by however many requests and at whatever times a key-creation
\* form is posted, at most one key is made from it.
THEOREM KeyPerForm == Spec => []OneKeyPerForm
<1>1. Sound => OneKeyPerForm
  <2> SUFFICES ASSUME Sound, kind = "key", NEW q \in Requests, NEW r \in Requests
               PROVE  /\ made[r].times <= 1
                      /\ (q # r /\ made[r].token # NoToken) => made[q].token # made[r].token
    BY DEF OneKeyPerForm
  <2>1. ASSUME NEW p \in Requests
        PROVE  made[p].times \in {0, 1} /\ (made[p].token # NoToken => Taken(p) = made[p].token)
    <3>1. CallOK(p)
      BY DEF Sound, RequestsOK
    <3>2. Open(p) => made[p].token = NoToken
      BY <3>1 DEF CallOK, Open, NothingMade
    <3> QED
      BY <3>1, <3>2 DEF CallOK, Taken
  <2>2. ASSUME q # r, made[r].token # NoToken PROVE made[q].token # made[r].token
    BY <2>1, <2>2 DEF Sound, TokensOK
  <2> QED
    BY <2>1, <2>2
<1> QED
  BY <1>1, SoundInvariant, PTL

\* What is reported as done was done; what is reported as failed, of a provider
\* or a key, was not done, and no call is left that could still do it.
THEOREM OutcomeReported == Spec => []OutcomeIsTold
<1>1. Sound => OutcomeIsTold
  BY DEF Sound, RequestsOK, ToldOK, Plain, OutcomeIsTold
<1> QED
  BY <1>1, SoundInvariant, PTL

-----------------------------------------------------------------------------
(***************************************************************************)
(* What a step may never do.                                               *)
(***************************************************************************)
\* The steps of browser, pages and other clients.
Outside ==
    \/ Tick \/ ForgetCookie \/ loginPage \/ Pages \/ OtherClient
    \/ \E rightToken \in BOOLEAN : login(rightToken)

LEMMA PagesFrame == ASSUME Pages PROVE UNCHANGED <<requestVars, challenge>>
<1>1. ASSUME NEW k, PageOf(k) PROVE UNCHANGED <<requestVars, challenge>>
  BY <1>1 DEF PageOf
<1>2. CASE VisitSignedOut
  BY <1>2 DEF VisitSignedOut
<1>3. CASE newUser \/ newProvider \/ newModel \/ newVirtualKey
  BY <1>1, <1>3 DEF newUser, newProvider, newModel, newVirtualKey, ShowBlank
<1>4. CASE \/ confirmUserStatus \/ confirmProviderStatus \/ confirmModelStatus
           \/ confirmVirtualKeyStatus
  BY <1>1, <1>4 DEF confirmUserStatus, confirmProviderStatus, confirmModelStatus,
                    confirmVirtualKeyStatus, ConfirmStatus, ShowForm
<1>5. CASE editUser \/ editProvider \/ editModel \/ editVirtualKey
  BY <1>1, <1>5 DEF editUser, editProvider, editModel, editVirtualKey, ShowForm
<1>6. CASE \/ confirmDeleteUser \/ confirmDeleteProvider \/ confirmDeleteModel
           \/ confirmDeleteVirtualKey
  BY <1>1, <1>6 DEF confirmDeleteUser, confirmDeleteProvider, confirmDeleteModel,
                    confirmDeleteVirtualKey, ShowForm
<1> QED
  BY <1>2, <1>3, <1>4, <1>5, <1>6 DEF Pages

LEMMA OutsideFrame ==
    ASSUME Outside
    PROVE  /\ UNCHANGED requestVars
           /\ challenge' = challenge \/ loginPage \/ \E rightToken \in BOOLEAN : login(rightToken)
<1>1. CASE Tick \/ ForgetCookie \/ OtherClient
  BY <1>1 DEF Tick, ForgetCookie, OtherClient, browserVars
<1>2. CASE loginPage \/ \E rightToken \in BOOLEAN : login(rightToken)
  BY <1>2 DEF loginPage, login
<1>3. CASE Pages
  BY <1>3, PagesFrame
<1> QED
  BY <1>1, <1>2, <1>3 DEF Outside

\* r may call a control plane.
Entitled(r) == reqs[r].live /\ reqs[r].form.csrf = reqs[r].cookie

\* No call but that of r changes.
CallOf(r) == \A q \in Requests \ {r} : calls'[q] = calls[q]

LEMMA CallFrame ==
    ASSUME Sound, NEW r \in Requests, NEW status, NEW expiry, NEW keep,
           Call(r, status, expiry, keep)
    PROVE  CallOf(r)
BY DEF Call, CallOf, Sound, RequestsOK

\* The handlers make nothing themselves, and call for a session only.
HandlerFrame(r) ==
    /\ made' = made /\ challenge' = challenge
    /\ calls' = calls \/ (Entitled(r) /\ CallOf(r))

LEMMA HandleFrame == ASSUME Sound, NEW r \in Requests, Handle(r) PROVE HandlerFrame(r)
<1>1. ASSUME NEW k, NEW op, Save(r, k, op) PROVE HandlerFrame(r)
  <2>1. Handling(r, k, op) /\ made' = made /\ challenge' = challenge
    BY <1>1 DEF Save, Handling
  <2>2. Entitled(r)
    BY <2>1, Handled DEF Entitled
  <2>3. calls' = calls \/ CallFromForm(r)
    BY <1>1 DEF Save
  <2>4. CallFromForm(r) => CallOf(r)
    BY CallFrame DEF CallFromForm
  <2> QED
    BY <2>1, <2>2, <2>3, <2>4 DEF HandlerFrame
<1>2. ASSUME NEW k, ChangeStatus(r, k) PROVE HandlerFrame(r)
  BY <1>2 DEF ChangeStatus, Handling, HandlerFrame
<1>3. ASSUME NEW k, Remove(r, k) PROVE HandlerFrame(r)
  <2>1. Handling(r, k, "delete") /\ made' = made /\ challenge' = challenge
    BY <1>3 DEF Remove, Handling
  <2>2. Entitled(r)
    BY <2>1, Handled DEF Entitled
  <2>3. CallOf(r)
    BY <1>3, CallFrame DEF Remove
  <2> QED
    BY <2>1, <2>2, <2>3 DEF HandlerFrame
<1>4. CASE createVirtualKey(r)
  BY <1>4 DEF createVirtualKey, Handling, HandlerFrame
<1>5. CASE logout(r) \/ RejectForm(r)
  BY <1>5 DEF logout, RejectForm, browserVars, HandlerFrame
<1>6. CASE ConsumeToken(r)
  <2>1. At(r, "consume") /\ made' = made /\ challenge' = challenge
    BY <1>6 DEF ConsumeToken
  <2>2. Entitled(r)
    BY <2>1 DEF At, Entitled, Sound, RequestsOK, RequestOK
  <2>3. calls' = calls \/ CallFromForm(r)
    BY <1>6 DEF ConsumeToken
  <2>4. CallFromForm(r) => CallOf(r)
    BY CallFrame DEF CallFromForm
  <2> QED
    BY <2>1, <2>2, <2>3, <2>4 DEF HandlerFrame
<1>7. CASE createUser(r) \/ createProvider(r) \/ createModel(r)
  BY <1>1, <1>7 DEF createUser, createProvider, createModel
<1>8. CASE updateUser(r) \/ updateProvider(r) \/ updateModel(r) \/ updateVirtualKey(r)
  BY <1>1, <1>8 DEF updateUser, updateProvider, updateModel, updateVirtualKey
<1>9. CASE \/ changeUserStatus(r) \/ changeProviderStatus(r) \/ changeModelStatus(r)
           \/ changeVirtualKeyStatus(r)
  BY <1>2, <1>9 DEF changeUserStatus, changeProviderStatus, changeModelStatus,
                    changeVirtualKeyStatus
<1>10. CASE deleteUser(r) \/ deleteProvider(r) \/ deleteModel(r) \/ deleteVirtualKey(r)
  BY <1>3, <1>10 DEF deleteUser, deleteProvider, deleteModel, deleteVirtualKey
<1> QED
  BY <1>4, <1>5, <1>6, <1>7, <1>8, <1>9, <1>10 DEF Handle

\* The other steps of a request and of its call: the call was made before.
LaterFrame(r) ==
    /\ challenge' = challenge
    /\ CallOf(r) /\ calls[r] # NoCall

LEMMA LaterSteps ==
    ASSUME Sound, NEW r \in Requests,
           Receive(r) \/ Lose(r) \/ Serve(r) \/ CommitCall(r)
    PROVE  /\ LaterFrame(r)
           /\ made' = made \/ CommitCall(r)
<1>1. RequestOK(r) /\ DOMAIN calls = Requests
  BY DEF Sound, RequestsOK
<1>2. CASE Receive(r)
  BY <1>1, <1>2 DEF Receive, At, LaterFrame, CallOf, RequestOK, NoCall
<1>3. CASE Lose(r)
  BY <1>1, <1>3 DEF Lose, At, LaterFrame, CallOf, RequestOK, NoCall
<1>4. ASSUME NEW status, Over(r, status) PROVE CallOf(r)
  BY <1>1, <1>4 DEF Over, CallOf
<1>5. CASE Serve(r)
  <2>1. calls[r] # NoCall
    BY <1>5 DEF Serve, NoCall, None
  <2>2. challenge' = challenge /\ made' = made
    BY <1>5 DEF Serve, ControlPlane, browserVars
  <2>3. CallOf(r)
    <3>1. \/ \E status : Over(r, status)
          \/ calls' = [calls EXCEPT ![r] = [calls[r] EXCEPT !.state = "loaded", !.loaded = item]]
      BY <1>5 DEF Serve
    <3> QED
      BY <1>1, <1>4, <3>1 DEF CallOf
  <2> QED
    BY <2>1, <2>2, <2>3 DEF LaterFrame
<1>6. CASE CommitCall(r)
  <2>1. calls[r] # NoCall
    BY <1>6 DEF CommitCall, NoCall, None
  <2>2. challenge' = challenge
    BY <1>6 DEF CommitCall, ControlPlane, browserVars
  <2>3. CallOf(r)
    BY <1>4, <1>6 DEF CommitCall
  <2> QED
    BY <1>6, <2>1, <2>2, <2>3 DEF LaterFrame
<1> QED
  BY <1>2, <1>3, <1>5, <1>6

LEMMA EarlierSteps ==
    ASSUME Sound, NEW r \in Requests,
           Submit(r) \/ auth(r) \/ Handle(r) \/ GetCurrent(r)
    PROVE  HandlerFrame(r)
<1>1. CASE Submit(r) \/ auth(r)
  BY <1>1 DEF Submit, auth, browserVars, HandlerFrame
<1>2. CASE Handle(r)
  BY <1>2, HandleFrame
<1>3. CASE GetCurrent(r)
  <2>1. At(r, "get") /\ made' = made /\ challenge' = challenge
    BY <1>3 DEF GetCurrent
  <2>2. Entitled(r)
    BY <2>1 DEF At, Entitled, Sound, RequestsOK, RequestOK
  <2>3. calls' = calls \/ CallOf(r)
    BY <1>3, CallFrame DEF GetCurrent
  <2> QED
    BY <2>1, <2>2, <2>3 DEF HandlerFrame
<1> QED
  BY <1>1, <1>2, <1>3

\* The kinds of steps.
LEMMA Steps ==
    ASSUME Next
    PROVE  \/ Outside
           \/ \E r \in Requests : Submit(r) \/ auth(r) \/ Handle(r) \/ GetCurrent(r)
           \/ \E r \in Requests : Receive(r) \/ Lose(r) \/ Serve(r) \/ CommitCall(r)
BY DEF Next, Outside

\* Only a transaction of the call of r makes a change for r.
LEMMA ChangeMade ==
    ASSUME Sound, Next, NEW r \in Requests, Changes(r)
    PROVE  calls[r].state = "loaded" /\ CompareAndSwap(calls[r]) /\ item' = Written(calls[r])
<1>1. ASSUME NEW q \in Requests PROVE made[q].times \in {0, 1}
  BY DEF Sound, RequestsOK, CallOK
<1>2. made' # made
  BY <1>1 DEF Changes
<1>3. PICK q \in Requests : CommitCall(q)
  BY <1>2, Steps, OutsideFrame, EarlierSteps, LaterSteps DEF requestVars, HandlerFrame
<1>4. /\ calls[q].state = "loaded" /\ CompareAndSwap(calls[q]) /\ item' = Written(calls[q])
      /\ \E token : made' = [made EXCEPT ![q] = [token |-> token, times |-> @.times + 1]]
  BY <1>2, <1>3 DEF CommitCall
<1>5. r = q
  <2> SUFFICES ASSUME r # q PROVE FALSE
    OBVIOUS
  <2>1. made'[r] = made[r]
    BY <1>4 DEF Sound, RequestsOK
  <2> QED
    BY <1>1, <2>1 DEF Changes
<1> QED
  BY <1>4, <1>5

\* An edit, a status change or a deletion replaces exactly the version that its
\* form showed, however many other changes are under way.
THEOREM NoLostUpdate == Spec => NoBlindOverwrite
<1>1. ASSUME Sound, [Next]_vars
      PROVE  [\A r \in Requests :
                (Changes(r) /\ calls[r].op # "create") => item = calls[r].shown]_vars
  <2> SUFFICES ASSUME Next, NEW r \in Requests, Changes(r), calls[r].op # "create"
               PROVE  item = calls[r].shown
    BY <1>1
  <2>1. calls[r].state = "loaded" /\ CompareAndSwap(calls[r]) /\ item' = Written(calls[r])
    BY <1>1, ChangeMade
  <2> QED
    BY <1>1, <2>1, WrittenVersion
<1> QED
  BY <1>1, SoundInvariant, PTL DEF Spec, NoBlindOverwrite

\* A status change, and an edit that leaves the expiry field alone, writes back
\* the expiry that the resource has at that moment.
THEOREM ExpiryPreserved == Spec => ExpiryKept
<1>1. ASSUME Sound, [Next]_vars
      PROVE  [\A r \in Requests :
                (Changes(r) /\ calls[r].keep) => item'.expiry = item.expiry]_vars
  <2> SUFFICES ASSUME Next, NEW r \in Requests, Changes(r), calls[r].keep
               PROVE  item'.expiry = item.expiry
    BY <1>1
  <2>1. calls[r].state = "loaded" /\ CompareAndSwap(calls[r]) /\ item' = Written(calls[r])
    BY <1>1, ChangeMade
  <2>2. OpenCallOK(r)
    BY <1>1, <2>1 DEF Sound, RequestsOK, CallOK, Open
  <2>3. /\ calls[r].op \in {"update", "status"}
        /\ calls[r].expiry = calls[r].shown.expiry \/ Past(calls[r].shown)
    BY <2>2 DEF OpenCallOK
  <2>4. item = calls[r].shown /\ item'.expiry = calls[r].expiry /\ item # Gone
    BY <1>1, <2>1, <2>3, WrittenVersion
  <2>5. item.change \in Nat
    BY <1>1, <2>4 DEF Sound, WorldOK, Version
  <2>6. ~Past(calls[r].shown)
    BY <2>4, <2>5 DEF Past
  <2> QED
    BY <2>3, <2>4, <2>6
<1> QED
  BY <1>1, SoundInvariant, PTL DEF Spec, ExpiryKept

\* No call reaches a control plane for a request whose session had ended when it
\* was submitted, or whose form was made for another session.
THEOREM SessionRequired == Spec => SessionBound
<1>1. ASSUME Sound, [Next]_vars
      PROVE  [\A r \in Requests :
                (calls[r] = NoCall /\ calls'[r] # NoCall)
                    => reqs[r].live /\ reqs[r].form.csrf = reqs[r].cookie]_vars
  <2> SUFFICES ASSUME Next, NEW r \in Requests, calls[r] = NoCall, calls'[r] # NoCall
               PROVE  Entitled(r)
    BY <1>1 DEF Entitled
  <2>1. CASE Outside
    BY <2>1, OutsideFrame DEF requestVars
  <2>2. CASE \E q \in Requests : Submit(q) \/ auth(q) \/ Handle(q) \/ GetCurrent(q)
    <3>1. PICK q \in Requests : HandlerFrame(q)
      BY <1>1, <2>2, EarlierSteps
    <3>2. Entitled(q) /\ CallOf(q)
      BY <3>1 DEF HandlerFrame
    <3> QED
      BY <3>2 DEF CallOf
  <2>3. CASE \E q \in Requests : Receive(q) \/ Lose(q) \/ Serve(q) \/ CommitCall(q)
    <3>1. PICK q \in Requests : LaterFrame(q)
      BY <1>1, <2>3, LaterSteps
    <3> QED
      BY <3>1 DEF LaterFrame, CallOf
  <2> QED
    BY <2>1, <2>2, <2>3, Steps
<1> QED
  BY <1>1, SoundInvariant, PTL DEF Spec, SessionBound

\* A session in the store that has not expired is live.
LEMMA StoredIsLive ==
    ASSUME Sound, NEW s \in DOMAIN sessions, sessions[s].expires > now
    PROVE  s \in DOMAIN begun /\ Live(s)
<1>1. /\ s \in DOMAIN begun /\ s \notin loggedOut
      /\ sessions[s] = [expires |-> begun[s] + SessionTTL, tokens |-> sessions[s].tokens]
  BY DEF Sound, StoreOK
<1>2. sessions[s].expires = begun[s] + SessionTTL
  BY <1>1
<1>3. begun[s] \in Nat /\ now \in Nat
  BY <1>1, UIAssumption DEF Sound, WorldOK
<1> QED
  BY <1>1, <1>2, <1>3, SessionAssumption DEF Live

LEMMA RefusedWhenFull ==
    ASSUME Sound, Next, SignInRefused
    PROVE  Cardinality({s \in DOMAIN begun : Live(s)}) >= MaxSessions
<1> DEFINE existing == cookieSession(jar)
           id == Len(begun) + 1
           created == create(existing.store, id, now)
           stored == {i \in DOMAIN existing.store : existing.store[i].expires > now}
           live == {s \in DOMAIN begun : Live(s)}
<1>1. challenge # NoCookie /\ challenge' = NoCookie
  BY DEF SignInRefused
<1>2. newLoginChallenge # NoCookie
  <2>1. newLoginChallenge.until = now + ChallengeTTL /\ NoCookie.until = 0
    BY DEF newLoginChallenge, NoCookie, Cookie
  <2>2. now + ChallengeTTL # 0
    BY UIAssumption DEF Sound, WorldOK
  <2> QED
    BY <2>1, <2>2
<1>3. ~loginPage
  BY <1>1, <1>2 DEF loginPage, ShowChallenge
<1>4. PICK rightToken \in BOOLEAN : login(rightToken)
  BY <1>1, <1>3, Steps, OutsideFrame, EarlierSteps, LaterSteps DEF HandlerFrame, LaterFrame
<1>5. ~created.ok
  <2>1. begun' = begun /\ begun \in Seq(Nat)
    BY DEF SignInRefused, Sound, WorldOK
  <2>2. Append(begun, now) # begun
    BY <2>1, UIAssumption DEF Sound, WorldOK
  <2> HIDE DEF created
  <2> QED
    BY <1>1, <1>2, <1>4, <2>1, <2>2 DEF login, ShowChallenge, created
<1>6. Shrunk(existing.store, sessions) /\ Shaped(existing.store)
  BY CookieLoads, ShrunkShaped
<1> HIDE DEF existing
<1>7. id \notin DOMAIN existing.store
  BY <1>6 DEF Sound, StoreOK, WorldOK, Shrunk
<1>8. Cardinality(stored) >= MaxSessions
  BY <1>5, <1>6, <1>7, Creates
<1>9. stored \subseteq live
  <2> SUFFICES ASSUME NEW s \in stored PROVE s \in live
    OBVIOUS
  <2>1. s \in DOMAIN sessions /\ existing.store[s].expires = sessions[s].expires
    BY <1>6, ShrunkExpires DEF Shrunk
  <2> QED
    BY <2>1, StoredIsLive
<1>10. IsFiniteSet(live)
  <2>1. DOMAIN begun = 1..Len(begun) /\ Len(begun) \in Nat
    BY DEF Sound, WorldOK
  <2>2. IsFiniteSet(DOMAIN begun)
    BY <2>1, FS_Interval
  <2>3. live \subseteq DOMAIN begun
    OBVIOUS
  <2> HIDE DEF live
  <2> QED
    BY <2>2, <2>3, FS_Subset
<1> HIDE DEF stored, live
<1>11. /\ Cardinality(stored) <= Cardinality(live)
       /\ Cardinality(stored) \in Nat /\ Cardinality(live) \in Nat
  BY <1>9, <1>10, FS_Subset, FS_CardinalityType
<1>12. Cardinality(live) >= MaxSessions
  BY <1>8, <1>11, SessionAssumption
<1> QED
  BY <1>12 DEF live

\* A sign-in is turned away only when the store is full of live sessions, and
\* the store never holds more than it may.
THEOREM RoomForSessions == Spec => RefusedOnlyWhenFull
<1>1. ASSUME Sound, Sound', [Next]_vars
      PROVE  [/\ SignInRefused => Cardinality({s \in DOMAIN begun : Live(s)}) >= MaxSessions
              /\ Cardinality(DOMAIN sessions') <= MaxSessions]_vars
  <2>1. Cardinality(DOMAIN sessions') <= MaxSessions
    BY <1>1 DEF Sound, StoreOK
  <2> QED
    BY <1>1, <2>1, RefusedWhenFull
<1> QED
  BY <1>1, SoundInvariant, PTL DEF Spec, RefusedOnlyWhenFull
====
