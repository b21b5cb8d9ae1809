---------------------------- MODULE AuthorityLog ----------------------------
(***************************************************************************)
(* Everything a request can do to authority: the specs of the methods that *)
(* change it and the gate they declare, what each handler does, the audit  *)
(* rows it writes and the connections it closes.                           *)
(*                                                                         *)
(* A step is a whole request: the statements of concurrent requests are    *)
(* the matter of RoleGrants, Logins and Onboarding, and how a row comes to *)
(* be announced that of AuditDelivery.  Here every method meets every      *)
(* other, from the bootstrap on, and beside the database there is what a   *)
(* reader of the audit log believes (told), who has nothing but the rows.  *)
(*                                                                         *)
(* An account has one actor, and a role that is bound to a scope is a role *)
(* of its own.  Passwords are right, and the grants have no expiry, which  *)
(* no handler gives them.  The methods that read are left out.             *)
(***************************************************************************)
EXTENDS Naturals, FiniteSets, SequencesExt

CONSTANTS
    People,             \* accounts, by username
    Keeper,             \* the one that bootstraps
    SessionIds, TokenIds, NarrowTokens, OfferIds, InviteIds,
    MaxSessions, MaxTokens,
    Unset

VARIABLES
    app_role,           \* the role that the app declares, for good
    status,             \* of an account: "none", "active" or "deleted"
    sessions, tokens,   \* the live credentials of an account, oldest first
    grants,             \* <<account, role>>, those that are not revoked
    offers,             \* the pending offers, by id: those that ended are read by nothing
    invites,            \* the unclaimed invites: an id and a username
    open_signup,
    told,               \* what the audit log says of all this but the sessions
    connected,          \* the connections, closed by what the handlers queue
    streamed,           \* the same, closed by the rows that are announced
    overstepped         \* whether a request did what its credential must not

authority_vars ==
    <<app_role, status, sessions, tokens, grants, offers, invites, open_signup, told,
      connected, streamed, overstepped>>

CredentialTypes == {"session", "api_token", "daemon_token"}

BuiltinRoles == {"keeper", "admin"}

\* "member" is a role that one may take alone, "team" one that is bound to a scope.
AppRoles == {"member", "team"}

AllRoles == BuiltinRoles \cup {app_role}

GlobalRoles == AllRoles \ {"team"}

\* grant_paths of the roles.
HasAdminPath(role) == role # "keeper"

SelfServiceEligible(role) == role = "member"

Active(a) == status[a] = "active"

Holds(a, role) == Active(a) /\ <<a, role>> \in grants

PendingOffers == DOMAIN offers

------------------------------------------------------------------------------
(***************************************************************************)
(* The gates.                                                              *)
(***************************************************************************)

\* What asks for a session: methods on one's own credentials, two routes, an offer that
\* is made or taken up, and a role that one takes.
AccountActionSpecs ==
    {"account_session_revoke", "account_session_revoke_all", "account_token_create",
     "account_token_revoke"}

AccountRouteShapes == {"POST /logout", "POST /password"}

OfferActionSpecs == {"role_grant_offer_create", "role_grant_offer_accept"}

SelfServiceRoleActionSpecs == {"self_service_role_set"}

SessionSpecs ==
    AccountActionSpecs \cup AccountRouteShapes \cup OfferActionSpecs \cup SelfServiceRoleActionSpecs

\* What asks for the admin role, by whatever credential.
RoleGrantActionSpecs == {"role_grant_revoke", "role_grant_assign"}

AdminActionSpecs ==
    {"admin_session_revoke_all", "admin_token_revoke_all", "invite_create", "invite_delete",
     "app_settings_update"}

AdminSpecs == RoleGrantActionSpecs \cup AdminActionSpecs \cup {"account_undelete"}

\* What a narrow token was minted for.
AdmitsMethod(id, m) == id \in NarrowTokens => m = "role_grant_assign"

\* The credentials that are in force.
Credentials ==
    {[type |-> "session", account |-> p[1], id |-> p[2]] :
        p \in {q \in People \X SessionIds : Active(q[1]) /\ q[2] \in ToSet(sessions[q[1]])}}
    \cup {[type |-> "api_token", account |-> p[1], id |-> p[2]] :
        p \in {q \in People \X TokenIds : Active(q[1]) /\ q[2] \in ToSet(tokens[q[1]])}}
    \cup {[type |-> "daemon_token", account |-> a, id |-> Unset] :
        a \in {b \in People : Holds(b, "keeper")}}

\* The credential's type, its scope, then the roles of its account.  To decline, to
\* retract and to delete an account asks for an account alone.
Admits(c, m) ==
    /\ m \in SessionSpecs => c.type = "session"
    /\ m = "account_purge" => c.type = "daemon_token" /\ Holds(c.account, "keeper")
    /\ c.type = "api_token" => AdmitsMethod(c.id, m)
    /\ m \in AdminSpecs => Holds(c.account, "admin")

------------------------------------------------------------------------------
(***************************************************************************)
(* The audit log.                                                          *)
(***************************************************************************)

\* A row: its event, whether it succeeded, the account it is about, and its metadata.
Row(event, target, metadata) ==
    [event |-> event, success |-> TRUE, target |-> target, metadata |-> metadata]

Failed(event, target) == [Row(event, target, Unset) EXCEPT !.success = FALSE]

\* A mutation: the events by which an account goes are missing from the table.
RevocationScopeOfCredentials(event) ==
    CASE event \in {"logout", "password_change", "session_revoke_all", "token_revoke_all"} -> "account"
      [] event = "session_revoke"    -> "session"
      [] event = "token_revoke"      -> "token"
      [] event = "role_grant_revoke" -> "role"
      [] OTHER                       -> "none"

\* What the success of an event invalidates.
RevocationScope(event) ==
    CASE event \in {"logout", "password_change", "session_revoke_all", "token_revoke_all",
                    "account_delete", "account_purge"} -> "account"
      [] event = "session_revoke"                      -> "session"
      [] event = "token_revoke"                        -> "token"
      [] event = "role_grant_revoke"                   -> "role"
      [] OTHER                                         -> "none"

\* The connections that one who hears the row closes.  A role that is bound to a
\* scope opens no connection.
Heard(row) ==
    LET scope == RevocationScope(row.event)
    IN  IF ~row.success \/ scope = "none" THEN {}
        ELSE IF scope = "account" THEN {<<"account", row.target>>}
        ELSE IF scope = "role"
             THEN {<<"role", row.target, r>> : r \in {row.metadata} \cap GlobalRoles}
        ELSE {<<scope, row.metadata>>}

Without(ids, gone) ==
    LET kept[n \in 0..Len(ids)] ==
            IF n = 0 THEN <<>>
            ELSE IF ids[n] \in gone THEN kept[n - 1] ELSE Append(kept[n - 1], ids[n])
    IN  kept[Len(ids)]

KeepNewest(ids, cap) == SubSeq(ids, Len(ids) - cap + 1, Len(ids))

Capped(ids, cap) == IF Len(ids) > cap THEN KeepNewest(ids, cap) ELSE ids

OfferRow(from, to, role) == [from |-> from, to |-> to, role |-> role]

Nothing == [accounts |-> [a \in People |-> "none"], tokens |-> [a \in People |-> <<>>],
            grants |-> {}, offers |-> <<>>, invites |-> {}, open_signup |-> FALSE]

OffersOf(pending, a) == {o \in DOMAIN pending : a \in {pending[o].from, pending[o].to}}

WithOffer(pending, id, offer) ==
    [o \in DOMAIN pending \cup {id} |-> IF o = id THEN offer ELSE pending[o]]

WithoutOffers(pending, gone) == [o \in DOMAIN pending \ gone |-> pending[o]]

\* What a reader makes of the next row.
Replay(said, row) ==
    LET who == row.target
        it == row.metadata
        Grant(gs) == [said EXCEPT !.grants = @ \cup gs]
        EndOffer == [said EXCEPT !.offers = WithoutOffers(@, {it})]
    IN  IF ~row.success THEN said
        ELSE CASE row.event = "bootstrap" ->
                    [Grant({<<who, r>> : r \in BuiltinRoles}) EXCEPT !.accounts[who] = "active"]
               [] row.event = "signup" ->
                    [said EXCEPT !.accounts[who] = "active", !.invites = @ \ {it}]
               [] row.event = "invite_create" -> [said EXCEPT !.invites = @ \cup {it}]
               [] row.event = "invite_delete" -> [said EXCEPT !.invites = {i \in @ : i.id # it}]
               [] row.event = "app_settings_update" -> [said EXCEPT !.open_signup = it]
               [] row.event = "token_create" ->
                    [said EXCEPT !.tokens[who] = Capped(Append(@, it), MaxTokens)]
               [] row.event = "token_revoke" -> [said EXCEPT !.tokens[who] = Without(@, {it})]
               [] row.event \in {"token_revoke_all", "password_change"} ->
                    [said EXCEPT !.tokens[who] = <<>>]
               [] row.event = "role_grant_create" -> Grant({<<who, it>>})
               [] row.event = "role_grant_revoke" -> [said EXCEPT !.grants = @ \ {<<who, it>>}]
               [] row.event = "role_grant_offer_create" ->
                    [said EXCEPT !.offers = WithOffer(@, it.id, it.offer)]
               [] row.event \in {"role_grant_offer_accept", "role_grant_offer_decline",
                                 "role_grant_offer_retract", "role_grant_offer_supersede",
                                 "role_grant_offer_expire"} -> EndOffer
               [] row.event = "account_delete" ->
                    [said EXCEPT !.accounts[who] = "deleted", !.tokens[who] = <<>>]
               [] row.event = "account_undelete" -> [said EXCEPT !.accounts[who] = "active"]
               [] row.event = "account_purge" ->
                    [said EXCEPT !.accounts[who] = "none", !.tokens[who] = <<>>,
                                 !.grants = {g \in @ : g[1] # who},
                                 !.offers = WithoutOffers(@, OffersOf(@, who))]
               [] OTHER -> said

\* And of one row after the other.
Retold(said, rows) ==
    LET after[n \in 0..Len(rows)] ==
            IF n = 0 THEN said ELSE Replay(after[n - 1], rows[n])
    IN  after[Len(rows)]

\* What a connection may be opened on.
Entitled ==
    {x \in People \X {"session"} \X SessionIds : Active(x[1]) /\ x[3] \in ToSet(sessions[x[1]])}
    \cup {x \in People \X {"token"} \X TokenIds : Active(x[1]) /\ x[3] \in ToSet(tokens[x[1]])}
    \cup {x \in People \X {"role"} \X GlobalRoles : Holds(x[1], x[3])}

Remaining(connections, targets) ==
    {x \in connections :
        /\ <<"account", x[1]>> \notin targets
        /\ x[2] = "role" => <<"role", x[1], x[3]>> \notin targets
        /\ x[2] # "role" => <<x[2], x[3]>> \notin targets}

\* The end of a request, once it has changed what it changes: its rows are written and
\* announced, and what it queued is closed.  What a cap evicts has no row.  All who are
\* in force connect again at once, so that whatever a request ends is connected.
Answer(rows, closes) ==
    /\ told' = Retold(told, rows)
    /\ connected' = Remaining(connected, closes) \cup Entitled'
    /\ LET capped == \E r \in ToSet(rows) : r.event \in {"login", "token_create"}
           evicted == IF capped THEN closes ELSE {}
           heard == UNION {Heard(r) : r \in ToSet(rows)}
       IN  streamed' = Remaining(streamed, heard \cup evicted) \cup Entitled'

\* A refusal that is written down changes nothing else.
Refuse(event, target) ==
    /\ UNCHANGED <<app_role, status, sessions, tokens, grants, offers, invites, open_signup>>
    /\ Answer(<<Failed(event, target)>>, {})

------------------------------------------------------------------------------
(***************************************************************************)
(* Coming in.                                                              *)
(***************************************************************************)

\* A new session: the ids, which are random, are used again, the least first.
FreshSession(s) ==
    LET free == {i \in SessionIds : \A a \in People : i \notin ToSet(sessions[a])}
    IN  s \in free /\ \A i \in free : s <= i

Bootstrap(s) ==
    /\ \A a \in People : status[a] = "none"
    /\ grants = {}
    /\ status' = [status EXCEPT ![Keeper] = "active"]
    /\ grants' = {<<Keeper, r>> : r \in BuiltinRoles}
    /\ sessions' = [sessions EXCEPT ![Keeper] = <<s>>]
    /\ UNCHANGED <<app_role, tokens, offers, invites, open_signup>>
    /\ Answer(<<Row("bootstrap", Keeper, Unset)>>, {})

\* An invite for the name is claimed if signup is not open; a name that is taken,
\* if only by a deleted account, is refused.
Signup(a, s) ==
    /\ grants # {}
    /\ status[a] = "none"
    /\ FreshSession(s)
    /\ status' = [status EXCEPT ![a] = "active"]
    /\ sessions' = [sessions EXCEPT ![a] = <<s>>]
    /\ UNCHANGED <<app_role, tokens, grants, offers, open_signup>>
    /\ \/ /\ open_signup
          /\ invites' = invites
          /\ Answer(<<Row("signup", a, Unset)>>, {})
       \/ /\ ~open_signup
          /\ \E i \in invites :
                /\ i.for = a
                /\ invites' = invites \ {i}
                /\ Answer(<<Row("signup", a, i)>>, {})

\* Past the cap the oldest sessions go, and their connections.
Login(a, s) ==
    LET kept == Capped(Append(sessions[a], s), MaxSessions)
        evicted == ToSet(sessions[a]) \ ToSet(kept)
    IN  /\ Active(a)
        /\ FreshSession(s)
        /\ sessions' = [sessions EXCEPT ![a] = kept]
        /\ UNCHANGED <<app_role, status, tokens, grants, offers, invites, open_signup>>
        /\ Answer(<<Row("login", a, Unset)>>, {<<"session", e>> : e \in evicted})

InviteCreate(c, i) ==
    /\ Admits(c, "invite_create")
    /\ status[i.for] = "none"
    /\ \A j \in invites : j.id # i.id /\ j.for # i.for
    /\ invites' = invites \cup {i}
    /\ UNCHANGED <<app_role, status, sessions, tokens, grants, offers, open_signup>>
    /\ Answer(<<Row("invite_create", Unset, i)>>, {})

InviteDelete(c, id) ==
    /\ Admits(c, "invite_delete")
    /\ \E i \in invites : i.id = id
    /\ invites' = {i \in invites : i.id # id}
    /\ UNCHANGED <<app_role, status, sessions, tokens, grants, offers, open_signup>>
    /\ Answer(<<Row("invite_delete", Unset, id)>>, {})

AppSettingsUpdate(c, new_value) ==
    /\ Admits(c, "app_settings_update")
    /\ open_signup' = new_value
    /\ UNCHANGED <<app_role, status, sessions, tokens, grants, offers, invites>>
    /\ Answer(<<Row("app_settings_update", Unset, new_value)>>, {})

------------------------------------------------------------------------------
(***************************************************************************)
(* Credentials.                                                            *)
(***************************************************************************)

\* Everything the account is signed in with goes.
EndCredentials(a) ==
    /\ sessions' = [sessions EXCEPT ![a] = <<>>]
    /\ tokens' = [tokens EXCEPT ![a] = <<>>]

Logout(c) ==
    /\ Admits(c, "POST /logout")
    /\ sessions' = [sessions EXCEPT ![c.account] = Without(@, {c.id})]
    /\ UNCHANGED <<app_role, status, tokens, grants, offers, invites, open_signup>>
    /\ Answer(<<Row("logout", c.account, Unset)>>, {<<"account", c.account>>})

PasswordChange(c) ==
    /\ Admits(c, "POST /password")
    /\ EndCredentials(c.account)
    /\ UNCHANGED <<app_role, status, grants, offers, invites, open_signup>>
    /\ Answer(<<Row("password_change", c.account, Unset)>>, {<<"account", c.account>>})

\* Someone else's session is not found, and the row says so.
SessionRevoke(c, s) ==
    LET revoked == s \in ToSet(sessions[c.account])
    IN  /\ Admits(c, "account_session_revoke")
        /\ sessions' = [sessions EXCEPT ![c.account] = Without(@, {s})]
        /\ UNCHANGED <<app_role, status, tokens, grants, offers, invites, open_signup>>
        /\ Answer(<<[Row("session_revoke", c.account, s) EXCEPT !.success = revoked]>>,
                  IF revoked THEN {<<"session", s>>} ELSE {})

SessionRevokeAll(c) ==
    /\ Admits(c, "account_session_revoke_all")
    /\ sessions' = [sessions EXCEPT ![c.account] = <<>>]
    /\ UNCHANGED <<app_role, status, tokens, grants, offers, invites, open_signup>>
    /\ Answer(<<Row("session_revoke_all", c.account, Unset)>>, {<<"account", c.account>>})

\* Past the cap the oldest tokens go.  No row says that, but the log tells the cap.
TokenCreate(c, t) ==
    LET kept == Capped(Append(tokens[c.account], t), MaxTokens)
    IN  /\ Admits(c, "account_token_create")
        /\ \A a \in People : t \notin ToSet(tokens[a])
        /\ tokens' = [tokens EXCEPT ![c.account] = kept]
        /\ UNCHANGED <<app_role, status, sessions, grants, offers, invites, open_signup>>
        /\ Answer(<<Row("token_create", c.account, t)>>,
                  {<<"token", e>> : e \in ToSet(tokens[c.account]) \ ToSet(kept)})

\* A mutation: the row of a token that was not found reads as if it were.
TokenRevokeUnread(c, t) ==
    /\ Admits(c, "account_token_revoke")
    /\ tokens' = [tokens EXCEPT ![c.account] = Without(@, {t})]
    /\ UNCHANGED <<app_role, status, sessions, grants, offers, invites, open_signup>>
    /\ Answer(<<Row("token_revoke", CHOOSE a \in People : t \in ToSet(tokens[a]), t)>>,
              {<<"token", t>>})

TokenRevoke(c, t) ==
    LET revoked == t \in ToSet(tokens[c.account])
    IN  /\ Admits(c, "account_token_revoke")
        /\ tokens' = [tokens EXCEPT ![c.account] = Without(@, {t})]
        /\ UNCHANGED <<app_role, status, sessions, grants, offers, invites, open_signup>>
        /\ Answer(<<[Row("token_revoke", c.account, t) EXCEPT !.success = revoked]>>,
                  IF revoked THEN {<<"token", t>>} ELSE {})

\* The admin's two: whatever they take, every connection of the account is closed.
AdminSessionRevokeAll(c, a) ==
    /\ Admits(c, "admin_session_revoke_all")
    /\ IF Active(a)
       THEN /\ sessions' = [sessions EXCEPT ![a] = <<>>]
            /\ UNCHANGED <<app_role, status, tokens, grants, offers, invites, open_signup>>
            /\ Answer(<<Row("session_revoke_all", a, Unset)>>, {<<"account", a>>})
       ELSE Refuse("session_revoke_all", Unset)

AdminTokenRevokeAll(c, a) ==
    /\ Admits(c, "admin_token_revoke_all")
    /\ IF Active(a)
       THEN /\ tokens' = [tokens EXCEPT ![a] = <<>>]
            /\ UNCHANGED <<app_role, status, sessions, grants, offers, invites, open_signup>>
            /\ Answer(<<Row("token_revoke_all", a, Unset)>>, {<<"account", a>>})
       ELSE Refuse("token_revoke_all", Unset)

------------------------------------------------------------------------------
(***************************************************************************)
(* Roles and offers.                                                       *)
(***************************************************************************)

\* UPDATE ... SET superseded_at, and a row for each.
Superseded(ids) == WithoutOffers(offers, ids)

RowsOf(event, ids) ==
    LET order == SetToSeq(ids)
    IN  [k \in DOMAIN order |-> Row(event, offers[order[k]].to, order[k])]

Incoming(a, role) == {o \in PendingOffers : offers[o].to = a /\ offers[o].role = role}

Outgoing(a) == {o \in PendingOffers : offers[o].from = a}

End(o) == offers' = Superseded({o})

\* The default authorize: a global admin.  A pending offer of the same grantor is
\* refreshed, with a new expiry that may lapse again.
OfferCreate(c, to, role) ==
    LET mine == Incoming(to, role) \cap Outgoing(c.account)
        Write(o) ==
            /\ offers' = WithOffer(offers, o,
                                  [from |-> c.account, to |-> to, role |-> role,
                                   valid |-> TRUE, expire_audited |-> FALSE])
            /\ UNCHANGED <<app_role, status, sessions, tokens, grants, invites, open_signup>>
            /\ Answer(<<Row("role_grant_offer_create", to,
                               [id |-> o, offer |-> OfferRow(c.account, to, role)])>>, {})
    IN  /\ Admits(c, "role_grant_offer_create")
        /\ status[to] # "none"
        /\ IF HasAdminPath(role) /\ Holds(c.account, "admin") /\ c.account # to
           THEN \/ \E o \in mine : Write(o)
                \/ mine = {} /\ \E o \in OfferIds \ PendingOffers : Write(o)
           ELSE Refuse("role_grant_offer_create", to)

\* One that has lapsed, or ended, is refused and leaves no row; one of a grantor who
\* is no admin any more is refused if it is of a builtin role, and leaves one.
OfferAccept(c, o) ==
    LET offer == offers[o]
        siblings == Incoming(offer.to, offer.role) \ {o}
    IN  /\ Admits(c, "role_grant_offer_accept")
        /\ o \in PendingOffers
        /\ offer.to = c.account
        /\ offer.valid
        /\ IF offer.role \in BuiltinRoles /\ ~Holds(offer.from, "admin")
           THEN Refuse("role_grant_offer_accept", c.account)
           ELSE /\ grants' = grants \cup {<<c.account, offer.role>>}
                /\ offers' = Superseded(siblings \cup {o})
                /\ UNCHANGED <<app_role, status, sessions, tokens, invites, open_signup>>
                /\ Answer(<<Row("role_grant_offer_accept", c.account, o),
                               Row("role_grant_create", c.account, offer.role)>>
                             \o RowsOf("role_grant_offer_supersede", siblings), {})

OfferDecline(c, o) ==
    /\ Admits(c, "role_grant_offer_decline")
    /\ o \in PendingOffers
    /\ offers[o].to = c.account
    /\ End(o)
    /\ UNCHANGED <<app_role, status, sessions, tokens, grants, invites, open_signup>>
    /\ Answer(<<Row("role_grant_offer_decline", offers[o].from, o)>>, {})

OfferRetract(c, o) ==
    /\ Admits(c, "role_grant_offer_retract")
    /\ o \in PendingOffers
    /\ offers[o].from = c.account
    /\ End(o)
    /\ UNCHANGED <<app_role, status, sessions, tokens, grants, invites, open_signup>>
    /\ Answer(<<Row("role_grant_offer_retract", offers[o].to, o)>>, {})

\* What a revocation closes: a role that a gate may have admitted on.
RoleConnections(a, role) == {<<"role", a, r>> : r \in {role} \cap GlobalRoles}

\* The grants of keeper, and of admin on the keeper's account, stay.  With the grant
\* go the offers of its role to the account, and all that the account has made.
RoleGrantRevoke(c, a, role) ==
    LET superseded == Incoming(a, role) \cup Outgoing(a)
    IN  /\ Admits(c, "role_grant_revoke")
        /\ <<a, role>> \in grants
        /\ IF ~HasAdminPath(role) \/ (role = "admin" /\ <<a, "keeper">> \in grants)
           THEN Refuse("role_grant_revoke", a)
           ELSE /\ grants' = grants \ {<<a, role>>}
                /\ offers' = Superseded(superseded)
                /\ UNCHANGED <<app_role, status, sessions, tokens, invites, open_signup>>
                /\ Answer(<<Row("role_grant_revoke", a, role)>>
                             \o RowsOf("role_grant_offer_supersede", superseded),
                          RoleConnections(a, role))

\* A grant there already is is written down again.
RoleGrantAssign(c, a, role) ==
    /\ Admits(c, "role_grant_assign")
    /\ IF ~HasAdminPath(role)
       THEN Refuse("role_grant_create", a)
       ELSE /\ Active(a)
            /\ grants' = grants \cup {<<a, role>>}
            /\ UNCHANGED <<app_role, status, sessions, tokens, offers, invites, open_signup>>
            /\ Answer(<<Row("role_grant_create", a, role)>>, {})

SelfServiceRoleSet(c, role, enabled) ==
    LET a == c.account
        superseded == Incoming(a, role)
    IN  /\ Admits(c, "self_service_role_set")
        /\ SelfServiceEligible(role)
        /\ enabled # Holds(a, role)
        /\ UNCHANGED <<app_role, status, sessions, tokens, invites, open_signup>>
        /\ IF enabled
           THEN /\ grants' = grants \cup {<<a, role>>}
                /\ UNCHANGED offers
                /\ Answer(<<Row("role_grant_create", a, role)>>, {})
           ELSE /\ grants' = grants \ {<<a, role>>}
                /\ offers' = Superseded(superseded)
                /\ Answer(<<Row("role_grant_revoke", a, role)>>
                             \o RowsOf("role_grant_offer_supersede", superseded),
                          RoleConnections(a, role))

\* Time passes, and the sweep writes each lapsed offer down once: it stays pending,
\* may be refreshed, and is written down again when it lapses again.
Lapse(o) ==
    /\ o \in PendingOffers
    /\ offers[o].valid
    /\ offers' = [offers EXCEPT ![o].valid = FALSE]
    /\ UNCHANGED <<app_role, status, sessions, tokens, grants, invites, open_signup>>
    /\ Answer(<<>>, {})

SweepOffers ==
    LET lapsed == {o \in PendingOffers : ~offers[o].valid /\ ~offers[o].expire_audited}
    IN  /\ lapsed # {}
        /\ offers' = [o \in DOMAIN offers |->
                        [offers[o] EXCEPT !.expire_audited = @ \/ o \in lapsed]]
        /\ UNCHANGED <<app_role, status, sessions, tokens, grants, invites, open_signup>>
        /\ Answer(RowsOf("role_grant_offer_expire", lapsed), {})

------------------------------------------------------------------------------
(***************************************************************************)
(* Accounts that go, and come back.                                        *)
(***************************************************************************)

\* The keeper's account stays, and so does the last admin's: the keeper's is one.
Removable(a) == ~Holds(a, "keeper")

\* A mutation: the handler does not tell one's own account from another's.
MayDeleteByRole(c, a) == a = c.account \/ Holds(c.account, "admin")

\* One's own account by a session alone; another's with the admin role.
MayDelete(c, a) == IF a = c.account THEN c.type = "session" ELSE Holds(c.account, "admin")

\* The account and its actor get their tombstones; the grants, and the offers to it, stay.
AccountDelete(c, a) ==
    /\ Admits(c, "account_delete")
    /\ MayDelete(c, a)
    /\ IF Active(a) /\ Removable(a)
       THEN /\ status' = [status EXCEPT ![a] = "deleted"]
            /\ EndCredentials(a)
            /\ offers' = Superseded(Outgoing(a))
            /\ UNCHANGED <<app_role, grants, invites, open_signup>>
            /\ Answer(RowsOf("role_grant_offer_supersede", Outgoing(a))
                         \o <<Row("account_delete", a, Unset), Row("actor_delete", a, Unset)>>,
                      {<<"account", a>>})
       ELSE Refuse("account_delete", a)

\* DELETE FROM account, and all that references it.
AccountPurge(c, a) ==
    /\ Admits(c, "account_purge")
    /\ IF status[a] # "none" /\ Removable(a)
       THEN /\ status' = [status EXCEPT ![a] = "none"]
            /\ EndCredentials(a)
            /\ grants' = {g \in grants : g[1] # a}
            /\ offers' = WithoutOffers(offers, OffersOf(offers, a))
            /\ UNCHANGED <<app_role, invites, open_signup>>
            /\ Answer(RowsOf("role_grant_offer_supersede", Outgoing(a))
                         \o <<Row("account_purge", a, Unset), Row("actor_purge", a, Unset)>>,
                      {<<"account", a>>})
       ELSE Refuse("account_purge", a)

AccountUndelete(c, a) ==
    /\ Admits(c, "account_undelete")
    /\ IF status[a] = "deleted"
       THEN /\ status' = [status EXCEPT ![a] = "active"]
            /\ UNCHANGED <<app_role, sessions, tokens, grants, offers, invites, open_signup>>
            /\ Answer(<<Row("account_undelete", a, Unset), Row("actor_undelete", a, Unset)>>, {})
       ELSE Refuse("account_undelete", a)

------------------------------------------------------------------------------

AuthorityInit ==
    /\ app_role \in AppRoles
    /\ status = [a \in People |-> "none"]
    /\ sessions = [a \in People |-> <<>>]
    /\ tokens = [a \in People |-> <<>>]
    /\ grants = {}
    /\ offers = <<>>
    /\ invites = {}
    /\ open_signup = FALSE
    /\ told = Nothing
    /\ connected = {}
    /\ streamed = {}
    /\ overstepped = FALSE

ByCredential(c) ==
    \/ \E i \in [id : InviteIds, for : People] : InviteCreate(c, i)
    \/ \E id \in InviteIds : InviteDelete(c, id)
    \/ \E new_value \in BOOLEAN : AppSettingsUpdate(c, new_value)
    \/ Logout(c) \/ PasswordChange(c) \/ SessionRevokeAll(c)
    \/ \E s \in UNION {ToSet(sessions[a]) : a \in People} : SessionRevoke(c, s)
    \/ \E t \in TokenIds : TokenCreate(c, t)
    \/ \E t \in UNION {ToSet(tokens[a]) : a \in People} : TokenRevoke(c, t)
    \/ \E o \in PendingOffers : OfferAccept(c, o) \/ OfferDecline(c, o) \/ OfferRetract(c, o)
    \/ \E role \in AllRoles, enabled \in BOOLEAN : SelfServiceRoleSet(c, role, enabled)
    \/ \E a \in People :
        \/ AdminSessionRevokeAll(c, a) \/ AdminTokenRevokeAll(c, a)
        \/ AccountDelete(c, a) \/ AccountPurge(c, a) \/ AccountUndelete(c, a)
        \/ \E role \in AllRoles :
            OfferCreate(c, a, role) \/ RoleGrantRevoke(c, a, role) \/ RoleGrantAssign(c, a, role)

NewElements(lists) ==
    UNION {ToSet(lists'[a]) \ ToSet(lists[a]) : a \in People}

\* What a credential lets its request do, as TokensConferNothing has it.
MayDo(c) ==
    /\ c.type = "api_token" =>
        /\ NewElements(sessions) = {} /\ NewElements(tokens) = {}
        /\ \A o \in PendingOffers' : o \in PendingOffers /\ offers'[o] = offers[o]
        /\ status'[c.account] = "active"
        /\ c.id \in NarrowTokens \/ ~Holds(c.account, "admin") =>
            UNCHANGED <<status, sessions, tokens, invites, open_signup>>
        /\ ~Holds(c.account, "admin") => UNCHANGED grants
        /\ c.id \in NarrowTokens => UNCHANGED offers
        /\ \A o \in PendingOffers \ PendingOffers' :
            <<offers[o].to, offers[o].role>> \notin grants' \ grants
    /\ \A g \in grants' \ grants : g[2] # "keeper"
    /\ \A a \in People : status[a] # "none" /\ status'[a] = "none" => c.type = "daemon_token"

AuthorityNext ==
    \/ \E c \in Credentials : ByCredential(c) /\ overstepped' = (overstepped \/ ~MayDo(c))
    \/ /\ \/ \E s \in SessionIds : Bootstrap(s) \/ \E a \in People : Signup(a, s) \/ Login(a, s)
          \/ \E o \in DOMAIN offers : Lapse(o)
          \/ SweepOffers
       /\ UNCHANGED overstepped

AuthoritySpec == AuthorityInit /\ [][AuthorityNext]_authority_vars

------------------------------------------------------------------------------

\* Whoever reads the log knows who has an account, which tokens there are, who holds
\* which role, which offers are open and not written down as expired, who is invited,
\* and whether signup is open: no request changes any of it without a row, or writes
\* a row of what it did not do.
TheLogTellsAuthority ==
    told = [accounts |-> status, tokens |-> tokens, grants |-> grants,
            offers |-> [o \in {p \in PendingOffers : ~offers[p].expire_audited} |->
                            OfferRow(offers[o].from, offers[o].to, offers[o].role)],
            invites |-> invites, open_signup |-> open_signup]

\* Whatever a request takes away, a session, a token or a role that opens
\* connections, it closes the connections of, and the rows it writes close them too,
\* on every process that hears them: but for a session or a token that goes because
\* there are too many, of which there is no row.
WhatEndsIsClosed ==
    /\ connected \subseteq Entitled
    /\ streamed \subseteq Entitled

\* A request with an API token makes no credential and no offer, takes no offer up,
\* and ends no account of its own; without the admin role it gives nobody a role and
\* takes none, ends no session and no token, invites nobody and lets nobody in.  A
\* narrow one only assigns roles.  No request makes a keeper, and none but the
\* daemon's removes an account for good.
TokensConferNothing == ~overstepped

=============================================================================
