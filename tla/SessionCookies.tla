--------------------------- MODULE SessionCookies ---------------------------
(***************************************************************************)
(* Session cookies under keys that rotate: auth/keyring.ts,                *)
(* auth/session_cookie.ts, auth/session_middleware.ts.                     *)
(*                                                                         *)
(* A server reads a list of keys when it boots, signs with the first and   *)
(* verifies with any.  An operator rotates the keys in the environment and *)
(* restarts the server, and browsers bring the cookies they were given.  A *)
(* cookie ends by itself, and so does the row of its session.              *)
(***************************************************************************)
EXTENDS Naturals, Sequences, SequencesExt

CONSTANTS
    Browsers,
    SessionAge,     \* SESSION_AGE_MAX, and AUTH_SESSION_LIFETIME_MS
    MaxTime, MaxKey

VARIABLES
    now,
    env_keys,       \* the keys of the environment; key 0 is a weak one
    ring,           \* those of the running server, none if it does not run
    signed_last,    \* of each key, until when the server signed with it
    hasty,          \* the operator dropped a key before its cookies ended
    cookie,         \* of each browser: key, expiry; or NoCookie
    row_expires     \* of each browser's session, 0 if there is none

cookie_vars == <<now, env_keys, ring, signed_last, hasty, cookie, row_expires>>

NoCookie == [key |-> 0, expires |-> 0]
KeyIds == 1..MaxKey

------------------------------------------------------------------------------
(***************************************************************************)
(* The server.                                                             *)
(***************************************************************************)

\* Every key is long enough, and there is one.
ValidateKeyring(keys) == keys # <<>> /\ \A i \in DOMAIN keys : keys[i] # 0

Sign(expires) == [key |-> ring[1], expires |-> expires]

\* A mutation: what the first key did not sign is not looked at again.
VerifyWithTheFirst(c) == c.key = ring[1]

Verify(c) == \E i \in DOMAIN ring : ring[i] = c.key

ParseSession(c) == Verify(c) /\ c.expires > now

CreateSessionCookieValue == Sign(now + SessionAge)

Boot ==
    /\ ring = <<>> /\ ValidateKeyring(env_keys)
    /\ ring' = env_keys
    /\ UNCHANGED <<now, env_keys, signed_last, hasty, cookie, row_expires>>

Stop ==
    /\ ring # <<>>
    /\ ring' = <<>>
    /\ signed_last' = [signed_last EXCEPT ![ring[1]] = now]
    /\ UNCHANGED <<now, env_keys, hasty, cookie, row_expires>>

\* A new session, and a cookie for it: both for as long from now.
Login(b) ==
    /\ ring # <<>>
    /\ cookie' = [cookie EXCEPT ![b] = CreateSessionCookieValue]
    /\ row_expires' = [row_expires EXCEPT ![b] = now + SessionAge]
    /\ UNCHANGED <<now, env_keys, ring, signed_last, hasty>>

\* A mutation: a request that is let in renews the cookie.
RequestRenewing(b) ==
    /\ ring # <<>> /\ cookie[b] # NoCookie
    /\ cookie' = [cookie EXCEPT ![b] = IF ParseSession(cookie[b]) THEN CreateSessionCookieValue ELSE NoCookie]
    /\ UNCHANGED <<now, env_keys, ring, signed_last, hasty, row_expires>>

\* The middleware: a cookie that does not hold is cleared, one that does is never renewed.
Request(b) ==
    /\ ring # <<>> /\ cookie[b] # NoCookie
    /\ cookie' = IF ParseSession(cookie[b]) THEN cookie ELSE [cookie EXCEPT ![b] = NoCookie]
    /\ UNCHANGED <<now, env_keys, ring, signed_last, hasty, row_expires>>

\* A logout, or the end of the session from elsewhere.
Revoke(b) ==
    /\ ring # <<>> /\ row_expires[b] # 0
    /\ row_expires' = [row_expires EXCEPT ![b] = 0]
    /\ cookie' \in {cookie, [cookie EXCEPT ![b] = NoCookie]}
    /\ UNCHANGED <<now, env_keys, ring, signed_last, hasty>>

------------------------------------------------------------------------------
(***************************************************************************)
(* The operator and the clock.                                             *)
(***************************************************************************)

\* The new key goes first.
PrependKey ==
    /\ \E key \in KeyIds \ ToSet(env_keys) :
        signed_last[key] = 0 /\ env_keys' = <<key>> \o env_keys
    /\ UNCHANGED <<now, ring, signed_last, hasty, cookie, row_expires>>

\* An old key goes once the server runs without signing by it, for as long as a cookie
\* lives.
RemoveOldKey ==
    /\ ring = env_keys /\ Len(env_keys) > 1
    /\ now >= signed_last[Last(env_keys)] + SessionAge
    /\ env_keys' = Front(env_keys)
    /\ UNCHANGED <<now, ring, signed_last, hasty, cookie, row_expires>>

\* A key that leaked goes at once.
ReplaceKeys ==
    /\ \E key \in KeyIds \ ToSet(env_keys) : signed_last[key] = 0 /\ env_keys' = <<key>>
    /\ hasty' = TRUE
    /\ UNCHANGED <<now, ring, signed_last, cookie, row_expires>>

\* A mistake in the environment, and its repair.
WeakKey ==
    /\ env_keys' = IF Last(env_keys) = 0 THEN Front(env_keys) ELSE Append(env_keys, 0)
    /\ UNCHANGED <<now, ring, signed_last, hasty, cookie, row_expires>>

Tick ==
    /\ now < MaxTime
    /\ now' = now + 1
    /\ UNCHANGED <<env_keys, ring, signed_last, hasty, cookie, row_expires>>

CookiesInit ==
    /\ now = 1 /\ env_keys = <<1>> /\ ring = <<1>>
    /\ signed_last = [k \in KeyIds |-> 0] /\ hasty = FALSE
    /\ cookie = [b \in Browsers |-> NoCookie]
    /\ row_expires = [b \in Browsers |-> 0]

CookiesNext ==
    \/ Boot \/ Stop \/ Tick
    \/ PrependKey \/ RemoveOldKey \/ ReplaceKeys \/ WeakKey
    \/ \E b \in Browsers : Login(b) \/ Request(b) \/ Revoke(b)

CookiesSpec == CookiesInit /\ [][CookiesNext]_cookie_vars

------------------------------------------------------------------------------

\* A rotation by the book signs no one out: as long as the row of a session lives, the
\* server takes the cookie that came with it, under whatever keys it has been restarted.
RotationSignsNoOneOut ==
    \A b \in Browsers :
        cookie[b] # NoCookie /\ row_expires[b] > now /\ ring # <<>> /\ ~hasty => ParseSession(cookie[b])

\* No cookie holds longer than the row of its session was to: the absolute end of a
\* session is set once.
NoCookieOutlivesItsRow ==
    \A b \in Browsers : row_expires[b] # 0 => cookie[b].expires <= row_expires[b]

SessionsLastAsLongAsTheyShould == RotationSignsNoOneOut /\ NoCookieOutlivesItsRow

=============================================================================
