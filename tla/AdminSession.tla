---------------------------- MODULE AdminSession ----------------------------
(***************************************************************************)
(* The session store of the administration UI (sessionStore), as operators *)
(* on its map from session IDs to sessions.  Each stands for one method,   *)
(* which runs under the store's mutex; those that change the map return    *)
(* the new map in the field store.                                         *)
(*                                                                         *)
(* A session holds its expiry and the pending key-creation tokens with     *)
(* theirs.  Its CSRF token is random, so it is identified with the         *)
(* session.  Every session the program creates is authenticated.  The      *)
(* flash messages are left out: they are text for the next page.           *)
(***************************************************************************)
EXTENDS Naturals, FiniteSets, Functions

CONSTANTS
    SessionTTL,     \* Config.SessionTTL
    TokenTTL,       \* keyCreationTokenLifetime
    MaxSessions,    \* maxSessions
    MaxPending      \* maxPendingKeyCreations

ASSUME SessionAssumption ==
    /\ SessionTTL \in Nat \ {0}
    /\ TokenTTL \in Nat \ {0}
    /\ MaxSessions \in Nat \ {0}
    /\ MaxPending \in Nat \ {0}

After(time, now) == time > now

Unexpired(tokens, now) ==
    Restrict(tokens, {t \in DOMAIN tokens : After(tokens[t], now)})

\* Mutant of cleanupLocked: a session lives up to and including its expiry.
cleanupLate(S, now) ==
    [id \in {i \in DOMAIN S : S[i].expires >= now} |->
        [S[id] EXCEPT !.tokens = Unexpired(@, now)]]

cleanupLocked(S, now) ==
    [id \in {i \in DOMAIN S : After(S[i].expires, now)} |->
        [S[id] EXCEPT !.tokens = Unexpired(@, now)]]

\* The map m with the entry of key set to value.
With(m, key, value) ==
    [k \in DOMAIN m \cup {key} |-> IF k = key THEN value ELSE m[k]]

NewSession(now) ==
    [expires |-> now + SessionTTL, tokens |-> << >>]

create(S, id, now) ==
    LET cleaned == cleanupLocked(S, now) IN
    IF Cardinality(DOMAIN cleaned) >= MaxSessions
    THEN [ok |-> FALSE, store |-> cleaned]
    ELSE [ok |-> TRUE, store |-> With(cleaned, id, NewSession(now))]

load(S, id, now) ==
    LET cleaned == cleanupLocked(S, now)
    IN  [ok |-> id \in DOMAIN cleaned, store |-> cleaned]

verifyCSRF(S, id, csrf, now) ==
    LET loaded == load(S, id, now)
    IN  [loaded EXCEPT !.ok = @ /\ csrf = id]

\* Mutant of destroy: the cookie is cleared, the session stays.
destroyNothing(S, id) == S

destroy(S, id) == Restrict(S, DOMAIN S \ {id})

\* The remaining methods do not clean up: they look at one session only.
Alive(S, id, now) == id \in DOMAIN S /\ After(S[id].expires, now)

issueKeyCreationToken(S, id, token, now) ==
    IF ~Alive(S, id, now) THEN [ok |-> FALSE, store |-> S]
    ELSE LET pending == Unexpired(S[id].tokens, now)
             lasts == now + TokenTTL
             expires == IF lasts > S[id].expires THEN S[id].expires ELSE lasts
             full == Cardinality(DOMAIN pending) >= MaxPending
             kept == IF full THEN pending ELSE With(pending, token, expires)
         IN  [ok |-> ~full, store |-> [S EXCEPT ![id].tokens = kept]]

\* Mutant of consumeKeyCreationToken: a token that is used stays in the map.
consumeKept(S, id, token, now) ==
    [ok |-> Alive(S, id, now) /\ token \in DOMAIN Unexpired(S[id].tokens, now),
     store |-> S]

consumeKeyCreationToken(S, id, token, now) ==
    IF ~Alive(S, id, now) THEN [ok |-> FALSE, store |-> S]
    ELSE [ok |-> token \in DOMAIN Unexpired(S[id].tokens, now),
          store |-> [S EXCEPT ![id].tokens =
                        Restrict(@, DOMAIN @ \ {token})]]
=============================================================================
