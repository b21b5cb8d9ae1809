-------------------------- MODULE MCAuthorityProofs --------------------------
(***************************************************************************)
(* Theorems about the methods that move authority (AuthorityLog), for any  *)
(* people, credentials, offers and invites, and any sequence of requests.  *)
(***************************************************************************)
EXTENDS MCAuthority, FiniteSetTheorems, SequenceTheorems, WellFoundedInduction, TLAPS

(***************************************************************************)
(* What a credential confers.  A request is judged by what its one step    *)
(* changes, so the invariant is little: what is kept of each account, and  *)
(* that no pending offer is of the keeper's role, for who accepts an offer *)
(* gets its role whatever it is.                                           *)
(***************************************************************************)
OfOnePerson(f) == f = [a \in People |-> f[a]]

OfferRecords ==
  [from : People, to : People, role : Authority!AllRoles \ {"keeper"},
   valid : BOOLEAN, expire_audited : BOOLEAN]

AuthorityInv ==
  /\ overstepped = FALSE
  /\ app_role \in Authority!AppRoles
  /\ OfOnePerson(account_status) /\ OfOnePerson(sessions) /\ OfOnePerson(tokens)
  /\ offers \in [DOMAIN offers -> OfferRecords]

\* What a credential in force is.
LEMMA InForce ==
  ASSUME NEW c \in Authority!Credentials
  PROVE  /\ c.account \in People
         /\ c.type \in Authority!CredentialTypes
         /\ account_status[c.account] = "active"
<1>1. \/ \E q \in People \X SessionIds :
           /\ Authority!Active(q[1])
           /\ c = [type |-> "session", account |-> q[1], id |-> q[2]]
      \/ \E q \in People \X TokenIds :
           /\ Authority!Active(q[1])
           /\ c = [type |-> "api_token", account |-> q[1], id |-> q[2]]
      \/ \E a \in People :
           /\ Authority!Active(a)
           /\ c = [type |-> "daemon_token", account |-> a, id |-> Unset]
  BY DEF Authority!Credentials, Authority!Holds
<1>2. QED
  BY <1>1 DEF Authority!Active, Authority!CredentialTypes

\* A credential that leaves everything as it was has done nothing it must not.
LEMMA NothingDone ==
  ASSUME NEW c \in Authority!Credentials,
         UNCHANGED <<app_role, account_status, sessions, tokens, held, offers, invites,
                     open_signup>>
  PROVE  Authority!MayDo(c)
<1>1. Authority!NewElements(sessions) = {} /\ Authority!NewElements(tokens) = {}
  BY DEF Authority!NewElements
<1>2. QED
  BY <1>1, InForce DEF Authority!MayDo, Authority!PendingOffers

\* One that is no API token has to mind the last two points only.
LEMMA NoToken ==
  ASSUME NEW c \in Authority!Credentials, c.type # "api_token",
         \A g \in held' \ held : g[2] # "keeper",
         \A a \in People :
           account_status[a] # "none" /\ account_status'[a] = "none" => c.type = "daemon_token"
  PROVE  Authority!MayDo(c)
  BY DEF Authority!MayDo

\* Neither has the method of a session.
LEMMA SessionMethodsMay ==
  ASSUME AuthorityInv, NEW c \in Authority!Credentials,
         NEW m \in Authority!SessionSpecs, Authority!Admits(c, m),
         UNCHANGED account_status,
         \A g \in held' \ held : g[2] # "keeper"
  PROVE  Authority!MayDo(c)
<1>1. c.type = "session"
  BY DEF Authority!Admits
<1>2. QED
  BY <1>1, NoToken

\* What takes the admin role does not come from a narrow token, unless it assigns roles.
LEMMA AdminsCredential ==
  ASSUME NEW c \in Authority!Credentials, NEW m \in Authority!AdminSpecs,
         Authority!Admits(c, m)
  PROVE  /\ Authority!Holds(c.account, "admin")
         /\ c.type = "api_token" /\ m # "role_grant_assign" => c.id \notin NarrowTokens
  BY DEF Authority!Admits, Authority!AdmitsMethod

\* Requests of an admin that change neither roles nor offers, and end credentials at most.
LEMMA AdminMethodsMay ==
  ASSUME AuthorityInv, NEW c \in Authority!Credentials,
         NEW m \in Authority!AdminSpecs \ {"role_grant_assign"}, Authority!Admits(c, m),
         account_status'[c.account] = "active",
         \A a \in People : account_status'[a] = "none" => account_status[a] = "none",
         \A a \in People : Authority!ToSet(sessions'[a]) \subseteq Authority!ToSet(sessions[a]),
         \A a \in People : Authority!ToSet(tokens'[a]) \subseteq Authority!ToSet(tokens[a]),
         held' \subseteq held,
         DOMAIN offers' \subseteq DOMAIN offers,
         \A o \in DOMAIN offers' : offers'[o] = offers[o]
  PROVE  Authority!MayDo(c)
<1>1. Authority!NewElements(sessions) = {} /\ Authority!NewElements(tokens) = {}
  BY DEF Authority!NewElements
<1>2. /\ Authority!Holds(c.account, "admin")
      /\ c.type = "api_token" => c.id \notin NarrowTokens
  BY AdminsCredential
<1>3. QED
  BY <1>1, <1>2 DEF Authority!MayDo, Authority!PendingOffers

\* A list that was emptied has nothing new.
LEMMA Emptied ==
  ASSUME NEW f, NEW a \in People, OfOnePerson(f), NEW g, g = [f EXCEPT ![a] = <<>>]
  PROVE  /\ OfOnePerson(g)
         /\ \A b \in People : Authority!ToSet(g[b]) \subseteq Authority!ToSet(f[b])
<1>1. \A b \in People : g[b] = IF b = a THEN <<>> ELSE f[b]
  BY DEF OfOnePerson
<1>2. Authority!ToSet(<<>>) = {}
  BY DEF Authority!ToSet
<1>3. OfOnePerson(g)
  BY DEF OfOnePerson
<1>4. QED
  BY <1>1, <1>2, <1>3

\* What is left of the offers when some go.
LEMMA OffersGo ==
  ASSUME AuthorityInv, NEW gone, offers' = Authority!WithoutOffers(offers, gone)
  PROVE  /\ DOMAIN offers' = DOMAIN offers \ gone
         /\ \A o \in DOMAIN offers' : offers'[o] = offers[o]
         /\ offers' \in [DOMAIN offers' -> OfferRecords]
  BY DEF AuthorityInv, Authority!WithoutOffers

-----------------------------------------------------------------------------
LEMMA InvitesAndSettingsMay ==
  ASSUME AuthorityInv, NEW c \in Authority!Credentials,
         \/ \E i \in [id : InviteIds, for : People] : Authority!InviteCreate(c, i)
         \/ \E id \in InviteIds : Authority!InviteDelete(c, id)
         \/ \E new_value \in BOOLEAN : Authority!AppSettingsUpdate(c, new_value)
  PROVE  Authority!MayDo(c)
<1>1. /\ UNCHANGED <<account_status, sessions, tokens, held, offers>>
      /\ \/ Authority!Admits(c, "invite_create")
         \/ Authority!Admits(c, "invite_delete")
         \/ Authority!Admits(c, "app_settings_update")
  BY DEF Authority!InviteCreate, Authority!InviteDelete, Authority!AppSettingsUpdate
<1>2. {"invite_create", "invite_delete", "app_settings_update"}
        \subseteq Authority!AdminSpecs \ {"role_grant_assign"}
  BY DEF Authority!AdminSpecs, Authority!AdminActionSpecs
<1>3. QED
  BY <1>1, <1>2, AdminMethodsMay, InForce

LEMMA OwnCredentialsMay ==
  ASSUME AuthorityInv, NEW c \in Authority!Credentials,
         \/ Authority!Logout(c) \/ Authority!PasswordChange(c) \/ Authority!SessionRevokeAll(c)
         \/ \E s : Authority!SessionRevoke(c, s)
         \/ \E t : Authority!TokenCreate(c, t) \/ Authority!TokenRevoke(c, t)
  PROVE  Authority!MayDo(c)
<1>1. /\ UNCHANGED <<account_status, held>>
      /\ \E m \in {"POST /logout", "POST /password", "account_session_revoke_all",
                   "account_session_revoke", "account_token_create", "account_token_revoke"} :
           Authority!Admits(c, m)
  BY DEF Authority!Logout, Authority!PasswordChange, Authority!SessionRevokeAll,
         Authority!SessionRevoke, Authority!TokenCreate, Authority!TokenRevoke
<1>2. {"POST /logout", "POST /password", "account_session_revoke_all",
       "account_session_revoke", "account_token_create", "account_token_revoke"}
        \subseteq Authority!SessionSpecs
  BY DEF Authority!SessionSpecs, Authority!AccountActionSpecs, Authority!AccountRouteShapes
<1>3. QED
  BY <1>1, <1>2, SessionMethodsMay

LEMMA RevokingAllMay ==
  ASSUME AuthorityInv, NEW c \in Authority!Credentials, NEW a \in People,
         Authority!AdminSessionRevokeAll(c, a) \/ Authority!AdminTokenRevokeAll(c, a)
  PROVE  Authority!MayDo(c)
<1>1. CASE UNCHANGED <<app_role, account_status, sessions, tokens, held, offers, invites,
                       open_signup>>
  BY <1>1, NothingDone
<1>2. CASE /\ UNCHANGED <<account_status, held, offers>>
           /\ \/ sessions' = [sessions EXCEPT ![a] = <<>>] /\ UNCHANGED tokens
              \/ tokens' = [tokens EXCEPT ![a] = <<>>] /\ UNCHANGED sessions
           /\ \/ Authority!Admits(c, "admin_session_revoke_all")
              \/ Authority!Admits(c, "admin_token_revoke_all")
  <2>1. /\ \A b \in People : Authority!ToSet(sessions'[b]) \subseteq Authority!ToSet(sessions[b])
        /\ \A b \in People : Authority!ToSet(tokens'[b]) \subseteq Authority!ToSet(tokens[b])
    BY <1>2, Emptied DEF AuthorityInv
  <2>2. {"admin_session_revoke_all", "admin_token_revoke_all"}
          \subseteq Authority!AdminSpecs \ {"role_grant_assign"}
    BY DEF Authority!AdminSpecs, Authority!AdminActionSpecs
  <2>3. QED
    BY <1>2, <2>1, <2>2, AdminMethodsMay, InForce
<1>3. QED
  BY <1>1, <1>2 DEF Authority!AdminSessionRevokeAll, Authority!AdminTokenRevokeAll,
                    Authority!Refuse

LEMMA OffersMay ==
  ASSUME AuthorityInv, NEW c \in Authority!Credentials,
         \/ \E o \in DOMAIN offers : \/ Authority!OfferAccept(c, o)
                                     \/ Authority!OfferDecline(c, o)
                                     \/ Authority!OfferRetract(c, o)
         \/ \E a \in People, role \in Authority!AllRoles : Authority!OfferCreate(c, a, role)
  PROVE  Authority!MayDo(c)
<1>1. {"role_grant_offer_create", "role_grant_offer_accept"} \subseteq Authority!SessionSpecs
  BY DEF Authority!SessionSpecs, Authority!OfferActionSpecs
<1>2. ASSUME NEW o \in DOMAIN offers, Authority!OfferAccept(c, o)
      PROVE  Authority!MayDo(c)
  <2>1. Authority!Admits(c, "role_grant_offer_accept") /\ UNCHANGED account_status
    BY <1>2 DEF Authority!OfferAccept, Authority!Refuse
  <2>2. held' \subseteq held \cup {<<c.account, offers[o].role>>}
    BY <1>2 DEF Authority!OfferAccept, Authority!Refuse
  <2>3. offers[o].role # "keeper"
    BY DEF AuthorityInv, OfferRecords
  <2>4. QED
    BY <1>1, <2>1, <2>2, <2>3, SessionMethodsMay
<1>3. ASSUME NEW a \in People, NEW role \in Authority!AllRoles,
             Authority!OfferCreate(c, a, role)
      PROVE  Authority!MayDo(c)
  <2>1. Authority!Admits(c, "role_grant_offer_create") /\ UNCHANGED <<account_status, held>>
    BY <1>3 DEF Authority!OfferCreate, Authority!Refuse
  <2>2. QED
    BY <1>1, <2>1, SessionMethodsMay
<1>4. ASSUME NEW o \in DOMAIN offers, Authority!OfferDecline(c, o) \/ Authority!OfferRetract(c, o)
      PROVE  Authority!MayDo(c)
  <2>1. /\ UNCHANGED <<account_status, sessions, tokens, held, invites, open_signup>>
        /\ offers' = Authority!WithoutOffers(offers, {o})
        /\ c.type = "api_token" => c.id \notin NarrowTokens
    BY <1>4 DEF Authority!OfferDecline, Authority!OfferRetract, Authority!End,
                Authority!Superseded, Authority!Admits, Authority!AdmitsMethod
  <2>2. Authority!NewElements(sessions) = {} /\ Authority!NewElements(tokens) = {}
    BY <2>1 DEF Authority!NewElements
  <2>3. DOMAIN offers' \subseteq DOMAIN offers /\ \A p \in DOMAIN offers' : offers'[p] = offers[p]
    BY <2>1, OffersGo
  <2>4. QED
    BY <2>1, <2>2, <2>3, InForce DEF Authority!MayDo, Authority!PendingOffers
<1>5. QED
  BY <1>2, <1>3, <1>4

LEMMA RolesMay ==
  ASSUME AuthorityInv, NEW c \in Authority!Credentials, NEW role \in Authority!AllRoles,
         \/ \E enabled \in BOOLEAN : Authority!SelfServiceRoleSet(c, role, enabled)
         \/ \E a \in People : \/ Authority!RoleGrantRevoke(c, a, role)
                              \/ Authority!RoleGrantAssign(c, a, role)
  PROVE  Authority!MayDo(c)
<1>1. ASSUME NEW enabled \in BOOLEAN, Authority!SelfServiceRoleSet(c, role, enabled)
      PROVE  Authority!MayDo(c)
  <2>1. /\ Authority!Admits(c, "self_service_role_set") /\ UNCHANGED account_status
        /\ role = "member"
        /\ held' \subseteq held \cup {<<c.account, role>>}
    BY <1>1 DEF Authority!SelfServiceRoleSet, Authority!SelfServiceEligible
  <2>2. "self_service_role_set" \in Authority!SessionSpecs
    BY DEF Authority!SessionSpecs, Authority!SelfServiceRoleActionSpecs
  <2>3. QED
    BY <2>1, <2>2, SessionMethodsMay
<1>2. ASSUME NEW a \in People, Authority!RoleGrantRevoke(c, a, role)
      PROVE  Authority!MayDo(c)
  <2>1. "role_grant_revoke" \in Authority!AdminSpecs \ {"role_grant_assign"}
    BY DEF Authority!AdminSpecs, Authority!RoleGrantActionSpecs
  <2>2. Authority!Admits(c, "role_grant_revoke")
    BY <1>2 DEF Authority!RoleGrantRevoke
  <2>3. CASE UNCHANGED <<app_role, account_status, sessions, tokens, held, offers, invites,
                         open_signup>>
    BY <2>3, NothingDone
  <2>4. CASE /\ UNCHANGED <<account_status, sessions, tokens>>
             /\ held' \subseteq held
             /\ \E gone : offers' = Authority!WithoutOffers(offers, gone)
    <3>1. DOMAIN offers' \subseteq DOMAIN offers /\ \A o \in DOMAIN offers' : offers'[o] = offers[o]
      BY <2>4, OffersGo
    <3>2. QED
      BY <2>1, <2>2, <2>4, <3>1, AdminMethodsMay, InForce
  <2>5. QED
    BY <1>2, <2>3, <2>4 DEF Authority!RoleGrantRevoke, Authority!Refuse, Authority!Superseded
<1>3. ASSUME NEW a \in People, Authority!RoleGrantAssign(c, a, role)
      PROVE  Authority!MayDo(c)
  <2>1. /\ Authority!Admits(c, "role_grant_assign")
        /\ UNCHANGED <<account_status, sessions, tokens, offers, invites, open_signup>>
        /\ held' \subseteq held \cup {<<a, role>>}
        /\ held' # held => role # "keeper"
    BY <1>3 DEF Authority!RoleGrantAssign, Authority!Refuse, Authority!HasAdminPath
  <2>2. "role_grant_assign" \in Authority!AdminSpecs
    BY DEF Authority!AdminSpecs, Authority!RoleGrantActionSpecs
  <2>3. Authority!Holds(c.account, "admin")
    BY <2>1, <2>2, AdminsCredential
  <2>4. Authority!NewElements(sessions) = {} /\ Authority!NewElements(tokens) = {}
    BY <2>1 DEF Authority!NewElements
  <2>5. \A g \in held' \ held : g[2] # "keeper"
    BY <2>1
  <2>6. QED
    BY <2>1, <2>3, <2>4, <2>5, InForce DEF Authority!MayDo, Authority!PendingOffers
<1>4. QED
  BY <1>1, <1>2, <1>3

LEMMA AccountsMay ==
  ASSUME AuthorityInv, NEW c \in Authority!Credentials, NEW a \in People,
         \/ Authority!AccountDelete(c, a) \/ Authority!AccountPurge(c, a)
         \/ Authority!AccountUndelete(c, a)
  PROVE  Authority!MayDo(c)
<1>1. CASE UNCHANGED <<app_role, account_status, sessions, tokens, held, offers, invites,
                       open_signup>>
  BY <1>1, NothingDone
<1>2. CASE /\ Authority!AccountDelete(c, a)
           /\ account_status' = [account_status EXCEPT ![a] = "deleted"]
           /\ sessions' = [sessions EXCEPT ![a] = <<>>]
           /\ tokens' = [tokens EXCEPT ![a] = <<>>]
           /\ offers' = Authority!WithoutOffers(offers, Authority!Outgoing(a))
           /\ UNCHANGED <<held, invites, open_signup>>
  <2>1. \A b \in People : account_status'[b] = IF b = a THEN "deleted" ELSE account_status[b]
    BY <1>2 DEF AuthorityInv, OfOnePerson
  <2>2. Authority!Admits(c, "account_delete") /\ Authority!MayDelete(c, a)
    BY <1>2 DEF Authority!AccountDelete
  <2>3. CASE c.type # "api_token"
    BY <1>2, <2>1, <2>3, NoToken
  <2>4. CASE c.type = "api_token"
    <3>1. /\ a # c.account /\ Authority!Holds(c.account, "admin")
          /\ c.id \notin NarrowTokens
      BY <2>2, <2>4 DEF Authority!MayDelete, Authority!Admits, Authority!AdmitsMethod
    <3>2. /\ \A b \in People : Authority!ToSet(sessions'[b]) \subseteq Authority!ToSet(sessions[b])
          /\ \A b \in People : Authority!ToSet(tokens'[b]) \subseteq Authority!ToSet(tokens[b])
      BY <1>2, Emptied DEF AuthorityInv
    <3>3. Authority!NewElements(sessions) = {} /\ Authority!NewElements(tokens) = {}
      BY <3>2 DEF Authority!NewElements
    <3>4. DOMAIN offers' \subseteq DOMAIN offers /\ \A o \in DOMAIN offers' : offers'[o] = offers[o]
      BY <1>2, OffersGo
    <3>5. QED
      BY <1>2, <2>1, <2>4, <3>1, <3>3, <3>4, InForce
      DEF Authority!MayDo, Authority!PendingOffers
  <2>5. QED
    BY <2>3, <2>4
<1>3. CASE Authority!AccountPurge(c, a) /\ held' \subseteq held
  <2>1. c.type = "daemon_token"
    BY <1>3 DEF Authority!AccountPurge, Authority!Admits
  <2>2. QED
    BY <1>3, <2>1, NoToken
<1>4. CASE /\ Authority!AccountUndelete(c, a)
           /\ account_status' = [account_status EXCEPT ![a] = "active"]
           /\ UNCHANGED <<sessions, tokens, held, offers, invites, open_signup>>
  <2>1. \A b \in People : account_status'[b] = IF b = a THEN "active" ELSE account_status[b]
    BY <1>4 DEF AuthorityInv, OfOnePerson
  <2>2. "account_undelete" \in Authority!AdminSpecs \ {"role_grant_assign"}
    BY DEF Authority!AdminSpecs
  <2>3. Authority!Admits(c, "account_undelete")
    BY <1>4 DEF Authority!AccountUndelete
  <2>4. QED
    BY <1>4, <2>1, <2>2, <2>3, AdminMethodsMay, InForce
<1>5. QED
  BY <1>1, <1>2, <1>3, <1>4
  DEF Authority!AccountDelete, Authority!AccountPurge, Authority!AccountUndelete,
      Authority!Refuse, Authority!EndCredentials, Authority!Superseded

LEMMA RequestsMay ==
  ASSUME AuthorityInv, NEW c \in Authority!Credentials, Authority!ByCredential(c)
  PROVE  Authority!MayDo(c)
<1>1. CASE \/ \E i \in [id : InviteIds, for : People] : Authority!InviteCreate(c, i)
           \/ \E id \in InviteIds : Authority!InviteDelete(c, id)
           \/ \E new_value \in BOOLEAN : Authority!AppSettingsUpdate(c, new_value)
  BY <1>1, InvitesAndSettingsMay
<1>2. CASE \/ Authority!Logout(c) \/ Authority!PasswordChange(c) \/ Authority!SessionRevokeAll(c)
           \/ \E s : Authority!SessionRevoke(c, s)
           \/ \E t : Authority!TokenCreate(c, t) \/ Authority!TokenRevoke(c, t)
  BY <1>2, OwnCredentialsMay
<1>3. CASE \/ \E o \in DOMAIN offers : \/ Authority!OfferAccept(c, o)
                                       \/ Authority!OfferDecline(c, o)
                                       \/ Authority!OfferRetract(c, o)
           \/ \E a \in People, role \in Authority!AllRoles : Authority!OfferCreate(c, a, role)
  BY <1>3, OffersMay
<1>4. CASE \E a \in People : \/ Authority!AdminSessionRevokeAll(c, a)
                             \/ Authority!AdminTokenRevokeAll(c, a)
  BY <1>4, RevokingAllMay
<1>5. CASE \E role \in Authority!AllRoles :
             \/ \E enabled \in BOOLEAN : Authority!SelfServiceRoleSet(c, role, enabled)
             \/ \E a \in People : \/ Authority!RoleGrantRevoke(c, a, role)
                                  \/ Authority!RoleGrantAssign(c, a, role)
  BY <1>5, RolesMay
<1>6. CASE \E a \in People : \/ Authority!AccountDelete(c, a) \/ Authority!AccountPurge(c, a)
                             \/ Authority!AccountUndelete(c, a)
  BY <1>6, AccountsMay
<1>7. QED
  BY <1>1, <1>2, <1>3, <1>4, <1>5, <1>6
  DEF Authority!ByCredential, Authority!PendingOffers

-----------------------------------------------------------------------------
\* What is kept of a person is changed for one at a time.
LEMMA OneChanges ==
  ASSUME NEW f, OfOnePerson(f), NEW a, NEW value
  PROVE  OfOnePerson([f EXCEPT ![a] = value])
  BY DEF OfOnePerson

\* How each step changes what is kept.
Kept(f, g) == g = f \/ \E a, value : g = [f EXCEPT ![a] = value]

Offered ==
  \/ UNCHANGED offers
  \/ \E gone : offers' = Authority!WithoutOffers(offers, gone)
  \/ \E o, from, to, role :
       /\ from \in People /\ to \in People /\ role \in Authority!AllRoles \ {"keeper"}
       /\ offers' = Authority!WithOffer(offers, o,
                                        [from |-> from, to |-> to, role |-> role,
                                         valid |-> TRUE, expire_audited |-> FALSE])
  \/ \E o \in DOMAIN offers : offers' = [offers EXCEPT ![o].valid = FALSE]
  \/ \E lapsed : offers' = [o \in DOMAIN offers |->
                              [offers[o] EXCEPT !.expire_audited = @ \/ o \in lapsed]]

LEMMA OffersStayTyped ==
  ASSUME AuthorityInv, Offered
  PROVE  offers' \in [DOMAIN offers' -> OfferRecords]
<1>1. CASE UNCHANGED offers
  BY <1>1 DEF AuthorityInv
<1>2. CASE \E gone : offers' = Authority!WithoutOffers(offers, gone)
  BY <1>2, OffersGo
<1>3. ASSUME NEW o, NEW from \in People, NEW to \in People,
             NEW role \in Authority!AllRoles \ {"keeper"},
             offers' = Authority!WithOffer(offers, o,
                                           [from |-> from, to |-> to, role |-> role,
                                            valid |-> TRUE, expire_audited |-> FALSE])
      PROVE  offers' \in [DOMAIN offers' -> OfferRecords]
  <2>1. [from |-> from, to |-> to, role |-> role, valid |-> TRUE, expire_audited |-> FALSE]
          \in OfferRecords
    BY DEF OfferRecords
  <2>2. QED
    BY <1>3, <2>1 DEF AuthorityInv, Authority!WithOffer
<1>4. ASSUME NEW o \in DOMAIN offers, offers' = [offers EXCEPT ![o].valid = FALSE]
      PROVE  offers' \in [DOMAIN offers' -> OfferRecords]
  <2>1. [offers[o] EXCEPT !.valid = FALSE] \in OfferRecords
    BY DEF AuthorityInv, OfferRecords
  <2>2. QED
    BY <1>4, <2>1 DEF AuthorityInv
<1>5. ASSUME NEW lapsed,
             offers' = [o \in DOMAIN offers |->
                          [offers[o] EXCEPT !.expire_audited = @ \/ o \in lapsed]]
      PROVE  offers' \in [DOMAIN offers' -> OfferRecords]
  <2>1. ASSUME NEW o \in DOMAIN offers
        PROVE  [offers[o] EXCEPT !.expire_audited = @ \/ o \in lapsed] \in OfferRecords
    <3>1. offers[o] \in OfferRecords
      BY DEF AuthorityInv
    <3>2. (offers[o].expire_audited \/ o \in lapsed) \in BOOLEAN
      OBVIOUS
    <3>3. QED
      BY <3>1, <3>2 DEF OfferRecords
  <2>2. QED
    BY <1>5, <2>1
<1>6. QED
  BY <1>1, <1>2, <1>3, <1>4, <1>5 DEF Offered

KeptTyped ==
  /\ UNCHANGED app_role
  /\ Kept(account_status, account_status') /\ Kept(sessions, sessions') /\ Kept(tokens, tokens')
  /\ Offered

LEMMA RequestsKeepTypes ==
  ASSUME AuthorityInv, NEW c \in Authority!Credentials, Authority!ByCredential(c)
  PROVE  KeptTyped
<1> USE DEF KeptTyped, Kept, Offered
<1>1. ASSUME \/ \E i : Authority!InviteCreate(c, i)
             \/ \E id : Authority!InviteDelete(c, id)
             \/ \E new_value : Authority!AppSettingsUpdate(c, new_value)
      PROVE  KeptTyped
  BY <1>1 DEF Authority!InviteCreate, Authority!InviteDelete, Authority!AppSettingsUpdate
<1>2. ASSUME \/ Authority!Logout(c) \/ Authority!PasswordChange(c)
             \/ Authority!SessionRevokeAll(c)
             \/ \E s : Authority!SessionRevoke(c, s)
             \/ \E t : Authority!TokenCreate(c, t) \/ Authority!TokenRevoke(c, t)
      PROVE  KeptTyped
  BY <1>2 DEF Authority!Logout, Authority!PasswordChange, Authority!SessionRevokeAll,
              Authority!SessionRevoke, Authority!TokenCreate, Authority!TokenRevoke,
              Authority!EndCredentials
<1>3. ASSUME \E a : Authority!AdminSessionRevokeAll(c, a) \/ Authority!AdminTokenRevokeAll(c, a)
      PROVE  KeptTyped
  BY <1>3 DEF Authority!AdminSessionRevokeAll, Authority!AdminTokenRevokeAll, Authority!Refuse
<1>4. ASSUME \E o : \/ Authority!OfferAccept(c, o) \/ Authority!OfferDecline(c, o)
                    \/ Authority!OfferRetract(c, o)
      PROVE  KeptTyped
  BY <1>4 DEF Authority!OfferAccept, Authority!OfferDecline, Authority!OfferRetract,
              Authority!Refuse, Authority!End, Authority!Superseded
<1>5. ASSUME NEW a \in People, NEW role \in Authority!AllRoles, Authority!OfferCreate(c, a, role)
      PROVE  KeptTyped
  <2>1. CASE UNCHANGED <<app_role, account_status, sessions, tokens, held, offers, invites,
                         open_signup>>
    BY <2>1
  <2>2. CASE /\ UNCHANGED <<app_role, account_status, sessions, tokens>>
             /\ role # "keeper"
             /\ \E o : offers' = Authority!WithOffer(offers, o,
                                   [from |-> c.account, to |-> a, role |-> role,
                                    valid |-> TRUE, expire_audited |-> FALSE])
    <3>1. c.account \in People
      BY InForce
    <3>2. Offered
      BY <2>2, <3>1
    <3>3. QED
      BY <2>2, <3>2
  <2>3. QED
    BY <1>5, <2>1, <2>2 DEF Authority!OfferCreate, Authority!Refuse, Authority!HasAdminPath
<1>6. ASSUME \E a, role : \/ Authority!RoleGrantRevoke(c, a, role)
                          \/ Authority!RoleGrantAssign(c, a, role)
      PROVE  KeptTyped
  BY <1>6 DEF Authority!RoleGrantRevoke, Authority!RoleGrantAssign, Authority!Refuse,
              Authority!Superseded
<1>7. ASSUME \E role, enabled : Authority!SelfServiceRoleSet(c, role, enabled)
      PROVE  KeptTyped
  BY <1>7 DEF Authority!SelfServiceRoleSet, Authority!Superseded
<1>8. ASSUME \E a : \/ Authority!AccountDelete(c, a) \/ Authority!AccountPurge(c, a)
                    \/ Authority!AccountUndelete(c, a)
      PROVE  KeptTyped
  BY <1>8 DEF Authority!AccountDelete, Authority!AccountPurge, Authority!AccountUndelete,
              Authority!Refuse, Authority!EndCredentials, Authority!Superseded
<1>9. QED
  BY <1>1, <1>2, <1>3, <1>4, <1>5, <1>6, <1>7, <1>8 DEF Authority!ByCredential

LEMMA OthersKeepTypes ==
  ASSUME AuthorityInv,
         \/ \E s \in SessionIds : \/ Authority!Bootstrap(s)
                                  \/ \E a \in People : Authority!Signup(a, s) \/ Authority!Login(a, s)
         \/ \E o \in DOMAIN offers : Authority!Lapse(o)
         \/ Authority!SweepOffers
  PROVE  KeptTyped
<1> USE DEF KeptTyped, Kept, Offered
<1>1. ASSUME NEW s \in SessionIds, Authority!Bootstrap(s)
      PROVE  KeptTyped
  BY <1>1 DEF Authority!Bootstrap
<1>2. ASSUME NEW a \in People, NEW s \in SessionIds, Authority!Signup(a, s)
      PROVE  KeptTyped
  BY <1>2 DEF Authority!Signup
<1>3. ASSUME NEW a \in People, NEW s \in SessionIds, Authority!Login(a, s)
      PROVE  KeptTyped
  BY <1>3 DEF Authority!Login
<1>4. ASSUME NEW o \in DOMAIN offers, Authority!Lapse(o)
      PROVE  KeptTyped
  BY <1>4 DEF Authority!Lapse
<1>5. ASSUME Authority!SweepOffers
      PROVE  KeptTyped
  BY <1>5 DEF Authority!SweepOffers
<1>6. QED
  BY <1>1, <1>2, <1>3, <1>4, <1>5

LEMMA EveryStepConforms ==
  ASSUME AuthorityInv, Authority!AuthorityNext
  PROVE  AuthorityInv'
<1>1. KeptTyped /\ overstepped' = FALSE
  <2>1. ASSUME NEW c \in Authority!Credentials, Authority!ByCredential(c),
               overstepped' = (overstepped \/ ~Authority!MayDo(c))
        PROVE  KeptTyped /\ overstepped' = FALSE
    <3>1. KeptTyped
      BY <2>1, RequestsKeepTypes
    <3>2. Authority!MayDo(c)
      BY <2>1, RequestsMay
    <3>3. QED
      BY <2>1, <3>1, <3>2 DEF AuthorityInv
  <2>2. ASSUME \/ \E s \in SessionIds :
                    \/ Authority!Bootstrap(s)
                    \/ \E a \in People : Authority!Signup(a, s) \/ Authority!Login(a, s)
               \/ \E o \in DOMAIN offers : Authority!Lapse(o)
               \/ Authority!SweepOffers,
               UNCHANGED overstepped
        PROVE  KeptTyped /\ overstepped' = FALSE
    BY <2>2, OthersKeepTypes DEF AuthorityInv
  <2>3. QED
    BY <2>1, <2>2 DEF Authority!AuthorityNext
<1>2. ASSUME NEW f, NEW g, OfOnePerson(f), Kept(f, g)
      PROVE  OfOnePerson(g)
  BY <1>2, OneChanges DEF Kept
<1>3. /\ OfOnePerson(account_status') /\ OfOnePerson(sessions') /\ OfOnePerson(tokens')
  BY <1>1, <1>2 DEF KeptTyped, AuthorityInv
<1>4. offers' \in [DOMAIN offers' -> OfferRecords]
  BY <1>1, OffersStayTyped DEF KeptTyped
<1>5. OfferRecords' = OfferRecords /\ app_role' = app_role
  BY <1>1 DEF KeptTyped, OfferRecords, Authority!AllRoles
<1>6. QED
  BY <1>1, <1>3, <1>4, <1>5 DEF AuthorityInv, OfOnePerson

LEMMA AuthorityBegins == PartsInit => AuthorityInv
<1> SUFFICES ASSUME PartsInit PROVE AuthorityInv
  OBVIOUS
<1>1. Authority!AuthorityInit
  BY DEF PartsInit
<1>2. offers = <<>> /\ DOMAIN offers = {}
  BY <1>1 DEF Authority!AuthorityInit
<1>3. offers \in [DOMAIN offers -> OfferRecords]
  BY <1>2
<1>4. QED
  BY <1>1, <1>3 DEF Authority!AuthorityInit, AuthorityInv, OfOnePerson

LEMMA AuthorityStays ==
  ASSUME AuthorityInv, UNCHANGED authority_vars
  PROVE  AuthorityInv'
<1>1. UNCHANGED <<overstepped, app_role, account_status, sessions, tokens, offers>>
  BY DEF authority_vars
<1>2. QED
  BY <1>1 DEF AuthorityInv, OfOnePerson, OfferRecords, Authority!AllRoles

\* No request does more than its credential confers: an API token makes no credential and
\* no offer, takes none up and ends no account of its own; without the admin role it moves
\* nobody's authority, and a narrow one assigns roles only; nobody is made a keeper, and an
\* account goes for good by the daemon's token alone (the gates and handlers of
\* auth/*_actions.ts and account_routes.ts).
THEOREM CredentialsConferNoMore == AuthorityParts => []TokensConferNothing
<1>1. AuthorityInv /\ [PartsNext]_parts_vars => AuthorityInv'
  <2> SUFFICES ASSUME AuthorityInv, [PartsNext]_parts_vars
               PROVE  AuthorityInv'
    OBVIOUS
  <2>1. CASE Authority!AuthorityNext
    BY <2>1, EveryStepConforms
  <2>2. CASE UNCHANGED authority_vars
    BY <2>2, AuthorityStays
  <2>3. QED
    BY <2>1, <2>2 DEF PartsNext, parts_vars
<1>2. AuthorityInv => TokensConferNothing
  BY DEF AuthorityInv, TokensConferNothing, Authority!TokensConferNothing
<1>3. QED
  BY <1>1, <1>2, AuthorityBegins, PTL DEF AuthorityParts

-----------------------------------------------------------------------------
(***************************************************************************)
(* The log, and what hears it.  What a reader makes of rows that are read  *)
(* in their order: what each step of a sequence of beliefs makes of one.   *)
(***************************************************************************)

\* A nonempty set of naturals has a least element.
LEMMA LeastNat ==
  ASSUME NEW T, T \subseteq Nat, T # {}
  PROVE  \E m \in T : \A n \in T : m <= n
<1> DEFINE R == {ss \in Nat \X Nat : ss[1] < ss[2]}
<1>1. IsWellFoundedOn(R, Nat)
  BY NatLessThanWellFounded DEF OpToRel
<1>2. PICK m \in T : \A n \in T : ~(<<n, m>> \in R)
  BY <1>1, WFMin
<1>3. ASSUME NEW n \in T
      PROVE  m <= n
  <2>1. n \in Nat /\ m \in Nat
    OBVIOUS
  <2>2. n < m => <<n, m>> \in R
    BY <2>1
  <2> QED BY <1>2, <2>1, <2>2
<1> QED BY <1>3

\* Counting up from 0.
LEMMA UpTo ==
  ASSUME NEW N \in Nat, NEW T, 0 \in T, \A m \in 1..N : m - 1 \in T => m \in T
  PROVE  0..N \subseteq T
<1> DEFINE Out == {m \in 0..N : m \notin T}
<1> SUFFICES ASSUME Out # {}
             PROVE  FALSE
  OBVIOUS
<1>1. Out \subseteq Nat
  OBVIOUS
<1>2. PICK m \in Out : \A n \in Out : m <= n
  <2> HIDE DEF Out
  <2> QED BY <1>1, LeastNat
<1>3. m \in 1..N
  OBVIOUS
<1>4. m - 1 \in 0..N /\ ~(m <= m - 1)
  BY <1>3
<1>5. m - 1 \in T
  BY <1>2, <1>4
<1> QED BY <1>3, <1>5

Leads(g, said, rows) ==
  /\ g[0] = said
  /\ \A i \in 1..Len(rows) : g[i] = Authority!Replay(g[i - 1], rows[i])

ReadsAs(said, rows, end) == \E g : Leads(g, said, rows) /\ g[Len(rows)] = end

\* A reader of the log comes to what its rows lead to.
LEMMA ReaderArrives ==
  ASSUME NEW said, NEW rows, Len(rows) \in Nat, NEW end, ReadsAs(said, rows, end)
  PROVE  Authority!Retold(said, rows) = end
<1> DEFINE N == Len(rows)
           Reads(h) == h = [n \in 0..N |->
                              IF n = 0 THEN said ELSE Authority!Replay(h[n - 1], rows[n])]
           f == CHOOSE h : Reads(h)
<1>1. Authority!Retold(said, rows) = f[N]
  BY DEF Authority!Retold
<1> HIDE DEF f
<1>2. PICK g : Leads(g, said, rows) /\ g[N] = end
  BY DEF ReadsAs
<1>3. N \in Nat /\ g[0] = said /\ \A i \in 1..N : g[i] = Authority!Replay(g[i - 1], rows[i])
  BY <1>2 DEF Leads
<1> HIDE DEF N
<1> DEFINE k == [n \in 0..N |-> g[n]]
<1>4. \A n \in 0..N : k[n] = g[n]
  OBVIOUS
<1>5. Reads(k)
  <2> DEFINE rest(n) == IF n = 0 THEN said ELSE Authority!Replay(k[n - 1], rows[n])
  <2>1. ASSUME NEW n \in 0..N
        PROVE  g[n] = rest(n)
    <3>1. n # 0 => n \in 1..N /\ n - 1 \in 0..N
      BY <1>3
    <3> HIDE DEF k
    <3> QED BY <1>3, <1>4, <3>1
  <2> HIDE DEF rest
  <2>2. k = [n \in 0..N |-> rest(n)]
    BY <2>1
  <2> QED BY <2>2 DEF rest
<1>6. Reads(f)
  BY <1>5 DEF f
<1>7. f[0] = said /\ \A i \in 1..N : f[i] = Authority!Replay(f[i - 1], rows[i])
  <2> DEFINE rest(n) == IF n = 0 THEN said ELSE Authority!Replay(f[n - 1], rows[n])
  <2>1. f = [n \in 0..N |-> rest(n)]
    BY <1>6
  <2>2. \A n \in 0..N : f[n] = rest(n)
    <3> HIDE DEF rest
    <3> QED BY <2>1
  <2>3. 0 \in 0..N /\ \A i \in 1..N : i \in 0..N /\ i # 0
    BY <1>3
  <2> QED BY <2>2, <2>3
<1> DEFINE T == {n \in 0..N : f[n] = g[n]}
<1>8. 0 \in T /\ \A m \in 1..N : m - 1 \in T => m \in T
  BY <1>3, <1>7
<1>9. 0..N \subseteq T
  <2> HIDE DEF T
  <2> QED BY <1>3, <1>8, UpTo
<1>10. f[N] = g[N]
  BY <1>3, <1>9
<1> QED BY <1>1, <1>2, <1>10

LEMMA ReadsNothing ==
  ASSUME NEW said PROVE ReadsAs(said, <<>>, said)
<1> DEFINE g == [i \in 0..0 |-> said]
<1>1. Leads(g, said, <<>>) /\ g[Len(<<>>)] = said
  BY DEF Leads
<1> QED BY <1>1 DEF ReadsAs

LEMMA ReadsOne ==
  ASSUME NEW said, NEW row PROVE ReadsAs(said, <<row>>, Authority!Replay(said, row))
<1> DEFINE g == [i \in 0..1 |-> IF i = 0 THEN said ELSE Authority!Replay(said, row)]
<1>1. Len(<<row>>) = 1 /\ <<row>>[1] = row
  OBVIOUS
<1>2. g[0] = said /\ g[1] = Authority!Replay(said, row)
  OBVIOUS
<1> HIDE DEF g
<1>3. Leads(g, said, <<row>>) /\ g[Len(<<row>>)] = Authority!Replay(said, row)
  BY <1>1, <1>2 DEF Leads
<1> QED BY <1>3 DEF ReadsAs

\* First the ones, then the others.
LEMMA ReadsOn ==
  ASSUME NEW S, NEW s \in Seq(S), NEW t \in Seq(S), NEW said, NEW mid, NEW end,
         ReadsAs(said, s, mid), ReadsAs(mid, t, end)
  PROVE  ReadsAs(said, s \o t, end)
<1>1. PICK g : Leads(g, said, s) /\ g[Len(s)] = mid
  BY DEF ReadsAs
<1>2. PICK h : Leads(h, mid, t) /\ h[Len(t)] = end
  BY DEF ReadsAs
<1> DEFINE M == Len(s)
           N == Len(t)
           k == [i \in 0..(M + N) |-> IF i <= M THEN g[i] ELSE h[i - M]]
<1>3. /\ M \in Nat /\ N \in Nat /\ Len(s \o t) = M + N
      /\ \A i \in 1..M : (s \o t)[i] = s[i]
      /\ \A i \in 1..N : (s \o t)[M + i] = t[i]
  BY ConcatProperties
<1> HIDE DEF M, N
<1>4. \A i \in 0..(M + N) : k[i] = IF i <= M THEN g[i] ELSE h[i - M]
  OBVIOUS
<1> HIDE DEF k
<1>5. k[0] = said
  BY <1>1, <1>3, <1>4 DEF Leads
<1>6. ASSUME NEW i \in 1..(M + N)
      PROVE  k[i] = Authority!Replay(k[i - 1], (s \o t)[i])
  <2>1. i \in 0..(M + N) /\ i - 1 \in 0..(M + N)
    BY <1>3
  <2>2. CASE i <= M
    <3>1. i \in 1..M /\ i - 1 <= M
      BY <1>3, <2>2
    <3>2. k[i] = g[i] /\ k[i - 1] = g[i - 1]
      BY <1>4, <2>1, <2>2, <3>1
    <3> QED BY <1>1, <1>3, <3>1, <3>2 DEF Leads, M
  <2>3. CASE i = M + 1
    <3>1. k[i] = h[1] /\ k[i - 1] = g[M]
      <4>1. ~(i <= M) /\ i - M = 1 /\ i - 1 = M /\ i - 1 <= M
        BY <1>3, <2>3
      <4>2. k[i] = h[i - M] /\ k[i - 1] = g[i - 1]
        BY <1>4, <2>1, <4>1
      <4> QED BY <4>1, <4>2
    <3>2. h[0] = g[M] /\ 1 \in 1..N /\ (s \o t)[i] = t[1]
      BY <1>1, <1>2, <1>3, <2>3 DEF Leads, M
    <3>3. h[1] = Authority!Replay(h[0], t[1])
      <4>1. h[1] = Authority!Replay(h[1 - 1], t[1])
        BY <1>2, <3>2 DEF Leads, N
      <4>2. 1 - 1 = 0
        OBVIOUS
      <4> QED BY <4>1, <4>2
    <3> QED BY <3>1, <3>2, <3>3
  <2>4. CASE i > M + 1
    <3> DEFINE j == i - M
    <3>1. j \in 1..N /\ j - 1 = (i - 1) - M /\ ~(i <= M) /\ ~(i - 1 <= M) /\ M + j = i
      BY <1>3, <2>4
    <3> HIDE DEF j
    <3>2. k[i] = h[j] /\ k[i - 1] = h[j - 1]
      BY <1>4, <2>1, <3>1 DEF j
    <3>3. (s \o t)[i] = t[j]
      BY <1>3, <3>1
    <3> QED BY <1>2, <3>1, <3>2, <3>3 DEF Leads, N
  <2> QED BY <1>3, <2>2, <2>3, <2>4
<1>7. k[M + N] = end
  <2>1. CASE N = 0
    <3>1. k[M + N] = g[M]
      BY <1>3, <1>4, <2>1
    <3> QED BY <1>1, <1>2, <2>1, <3>1 DEF Leads, M, N
  <2>2. CASE N # 0
    <3>1. M + N \in 0..(M + N) /\ ~(M + N <= M) /\ (M + N) - M = N
      BY <1>3, <2>2
    <3> QED BY <1>2, <1>4, <3>1 DEF N
  <2> QED BY <2>1, <2>2
<1>8. Leads(k, said, s \o t) /\ k[Len(s \o t)] = end
  BY <1>3, <1>5, <1>6, <1>7 DEF Leads
<1> QED BY <1>8 DEF ReadsAs

LEMMA OneThenAnother ==
  ASSUME NEW x, NEW y PROVE <<x>> \o <<y>> = <<x, y>>
<1> DEFINE S == {x, y}
<1>1. <<x>> \in Seq(S) /\ <<y>> \in Seq(S) /\ <<x, y>> \in Seq(S)
  OBVIOUS
<1>2. Len(<<x>>) = 1 /\ Len(<<y>>) = 1 /\ Len(<<x, y>>) = 2
  OBVIOUS
<1>3. <<x>>[1] = x /\ <<y>>[1] = y /\ <<x, y>>[1] = x /\ <<x, y>>[2] = y
  OBVIOUS
<1> DEFINE s == <<x>>
           t == <<y>>
           u == <<x, y>>
<1> HIDE DEF S, s, t, u
<1>4. s \o t \in Seq(S) /\ Len(s \o t) = 2 /\ (s \o t)[1] = x /\ (s \o t)[2] = y
  BY <1>1, <1>2, <1>3, ConcatProperties DEF s, t
<1>5. u \in Seq(S) /\ Len(u) = 2 /\ u[1] = x /\ u[2] = y
  BY <1>1, <1>2, <1>3 DEF u
<1>6. s \o t = u
  BY <1>4, <1>5, SeqEqual
<1> QED BY <1>6 DEF s, t, u

-----------------------------------------------------------------------------
(***************************************************************************)
(* What is left of a list of credentials when some of them go.             *)
(***************************************************************************)

\* f takes one place after the other of what is left.
LeavesBy(f, ids, gone, n) ==
  /\ f[0] = <<>>
  /\ \A i \in 1..n : f[i] = IF ids[i] \in gone THEN f[i - 1] ELSE Append(f[i - 1], ids[i])

LEMMA LeavesByPlaces ==
  ASSUME NEW S, NEW ids \in Seq(S), NEW gone
  PROVE  \E f \in [0..Len(ids) -> Seq(S)] : LeavesBy(f, ids, gone, Len(ids))
<1> DEFINE N == Len(ids)
           T == {m \in 0..N : \E f \in [0..m -> Seq(S)] : LeavesBy(f, ids, gone, m)}
<1>1. N \in Nat /\ \A i \in 1..N : ids[i] \in S
  OBVIOUS
<1>2. 0 \in T
  <2> DEFINE f == [i \in 0..0 |-> <<>>]
  <2>1. <<>> \in Seq(S)
    OBVIOUS
  <2>2. f \in [0..0 -> Seq(S)]
    BY <2>1
  <2>3. f[0] = <<>> /\ 1..0 = {}
    OBVIOUS
  <2> HIDE DEF f
  <2>4. LeavesBy(f, ids, gone, 0)
    BY <2>3 DEF LeavesBy
  <2> QED BY <1>1, <2>2, <2>4
<1>3. ASSUME NEW m \in 1..N, m - 1 \in T
      PROVE  m \in T
  <2>1. PICK f \in [0..(m - 1) -> Seq(S)] : LeavesBy(f, ids, gone, m - 1)
    BY <1>3
  <2> DEFINE last == IF ids[m] \in gone THEN f[m - 1] ELSE Append(f[m - 1], ids[m])
             g == [i \in 0..m |-> IF i = m THEN last ELSE f[i]]
  <2>2. last \in Seq(S)
    <3>1. f[m - 1] \in Seq(S) /\ ids[m] \in S
      BY <1>1
    <3> QED BY <3>1
  <2>3. \A i \in 0..m : g[i] = IF i = m THEN last ELSE f[i]
    OBVIOUS
  <2>4. g \in [0..m -> Seq(S)]
    BY <2>2
  <2> HIDE DEF g
  <2>5. g[0] = <<>> /\ g[m - 1] = f[m - 1] /\ g[m] = last
    BY <1>1, <2>1, <2>3 DEF LeavesBy
  <2>6. ASSUME NEW i \in 1..m
        PROVE  g[i] = IF ids[i] \in gone THEN g[i - 1] ELSE Append(g[i - 1], ids[i])
    <3>1. CASE i = m
      BY <2>5, <3>1
    <3>2. CASE i # m
      <4>1. i \in 1..(m - 1) /\ i - 1 \in 0..m /\ i - 1 # m /\ i \in 0..m
        BY <1>1, <3>2
      <4>2. g[i] = f[i] /\ g[i - 1] = f[i - 1]
        BY <2>3, <3>2, <4>1
      <4> QED BY <2>1, <4>1, <4>2 DEF LeavesBy
    <3> QED BY <3>1, <3>2
  <2>7. LeavesBy(g, ids, gone, m)
    BY <2>5, <2>6 DEF LeavesBy
  <2>8. m \in 0..N
    BY <1>1
  <2> QED BY <2>4, <2>7, <2>8
<1>4. 0..N \subseteq T
  <2> HIDE DEF T
  <2> QED BY <1>1, <1>2, <1>3, UpTo
<1>5. N \in T
  <2>1. N \in 0..N
    BY <1>1
  <2> HIDE DEF T, N
  <2> QED BY <1>4, <2>1
<1> QED BY <1>5

LEMMA WithoutIsWhatIsLeft ==
  ASSUME NEW S, NEW ids \in Seq(S), NEW gone,
         NEW f \in [0..Len(ids) -> Seq(S)], LeavesBy(f, ids, gone, Len(ids))
  PROVE  Authority!Without(ids, gone) = f[Len(ids)]
<1> DEFINE N == Len(ids)
           Leaves(h) == h = [n \in 0..N |-> IF n = 0 THEN <<>>
                               ELSE IF ids[n] \in gone THEN h[n - 1]
                               ELSE Append(h[n - 1], ids[n])]
           g == CHOOSE h : Leaves(h)
<1>1. N \in Nat
  OBVIOUS
<1>2. Authority!Without(ids, gone) = g[N]
  BY DEF Authority!Without
<1> HIDE DEF g
<1>3. f[0] = <<>> /\ \A i \in 1..N : f[i] = IF ids[i] \in gone THEN f[i - 1]
                                            ELSE Append(f[i - 1], ids[i])
  BY DEF LeavesBy
<1> HIDE DEF N
<1>4. Leaves(f)
  <2> DEFINE rest(n) == IF n = 0 THEN <<>>
                        ELSE IF ids[n] \in gone THEN f[n - 1] ELSE Append(f[n - 1], ids[n])
  <2>1. ASSUME NEW n \in 0..N
        PROVE  f[n] = rest(n)
    <3>1. n # 0 => n \in 1..N
      BY <1>1
    <3> QED BY <1>3, <3>1
  <2> HIDE DEF rest
  <2>2. f \in [0..N -> Seq(S)]
    BY DEF N
  <2>3. f = [n \in 0..N |-> rest(n)]
    BY <2>1, <2>2
  <2> QED BY <2>3, Zenon DEF rest
<1>5. Leaves(g)
  BY <1>4 DEF g
<1>6. g[0] = <<>> /\ \A i \in 1..N : g[i] = IF ids[i] \in gone THEN g[i - 1]
                                            ELSE Append(g[i - 1], ids[i])
  <2> DEFINE rest(n) == IF n = 0 THEN <<>>
                        ELSE IF ids[n] \in gone THEN g[n - 1] ELSE Append(g[n - 1], ids[n])
  <2>1. g = [n \in 0..N |-> rest(n)]
    BY <1>5
  <2>2. \A n \in 0..N : g[n] = rest(n)
    <3> HIDE DEF rest
    <3> QED BY <2>1
  <2>3. 0 \in 0..N /\ \A i \in 1..N : i \in 0..N /\ i # 0
    BY <1>1
  <2> QED BY <2>2, <2>3
<1> DEFINE T == {n \in 0..N : g[n] = f[n]}
<1>7. 0 \in T /\ \A m \in 1..N : m - 1 \in T => m \in T
  BY <1>1, <1>3, <1>6
<1>8. 0..N \subseteq T
  <2> HIDE DEF T
  <2> QED BY <1>1, <1>7, UpTo
<1>9. g[N] = f[N]
  BY <1>1, <1>8
<1> QED BY <1>2, <1>9 DEF N

\* What does not go is left.
LEMMA WithoutKeepsTheRest ==
  ASSUME NEW S, NEW ids \in Seq(S), NEW gone
  PROVE  /\ Authority!Without(ids, gone) \in Seq(S)
         /\ \A x \in Authority!ToSet(ids) \ gone : x \in Authority!ToSet(Authority!Without(ids, gone))
<1>1. PICK f \in [0..Len(ids) -> Seq(S)] : LeavesBy(f, ids, gone, Len(ids))
  BY LeavesByPlaces
<1>2. Authority!Without(ids, gone) = f[Len(ids)]
  BY <1>1, WithoutIsWhatIsLeft
<1> DEFINE N == Len(ids)
           Among(i, t) == \E j \in 1..Len(t) : t[j] = ids[i]
           T == {m \in 0..N : \A i \in 1..m : ids[i] \notin gone => Among(i, f[m])}
<1>3. N \in Nat /\ (\A i \in 1..N : ids[i] \in S) /\ \A i \in 0..N : f[i] \in Seq(S)
  OBVIOUS
<1>4. 0 \in T
  BY <1>3
<1>5. ASSUME NEW m \in 1..N, m - 1 \in T
      PROVE  m \in T
  <2>1. m \in 0..N /\ m - 1 \in 0..N /\ f[m - 1] \in Seq(S)
    BY <1>3
  <2>2. ASSUME NEW i \in 1..m, ids[i] \notin gone
        PROVE  Among(i, f[m])
    <3>1. f[m] = IF ids[m] \in gone THEN f[m - 1] ELSE Append(f[m - 1], ids[m])
      BY <1>1 DEF LeavesBy
    <3>2. CASE i = m
      <4>1. f[m] = Append(f[m - 1], ids[m]) /\ ids[m] \in S
        BY <1>3, <2>2, <3>1, <3>2
      <4>2. Len(f[m]) \in 1..Len(f[m]) /\ f[m][Len(f[m])] = ids[m]
        BY <2>1, <4>1
      <4> QED BY <3>2, <4>2
    <3>3. CASE i # m
      <4>1. i \in 1..(m - 1)
        BY <1>3, <3>3
      <4>2. PICK j \in 1..Len(f[m - 1]) : f[m - 1][j] = ids[i]
        BY <1>5, <2>2, <4>1
      <4>3. j \in 1..Len(f[m]) /\ f[m][j] = f[m - 1][j]
        BY <1>3, <2>1, <3>1, <4>2
      <4> QED BY <4>2, <4>3
    <3> QED BY <3>2, <3>3
  <2> QED BY <2>1, <2>2
<1>6. 0..N \subseteq T
  <2> HIDE DEF T
  <2> QED BY <1>3, <1>4, <1>5, UpTo
<1>7. N \in 0..N
  BY <1>3
<1>8. \A i \in 1..N : ids[i] \notin gone => Among(i, f[N])
  <2>1. N \in T
    <3> HIDE DEF T, N
    <3> QED BY <1>6, <1>7
  <2> HIDE DEF N, Among
  <2> QED BY <2>1
<1>9. f[N] \in Seq(S)
  BY <1>3, <1>7
<1>10. DOMAIN ids = 1..N /\ DOMAIN f[N] = 1..Len(f[N])
  BY <1>9
<1> HIDE DEF N
<1>11. ASSUME NEW x \in Authority!ToSet(ids) \ gone
       PROVE  x \in Authority!ToSet(f[N])
  BY <1>8, <1>10 DEF Authority!ToSet
<1> QED BY <1>2, <1>9, <1>11 DEF N

\* A cap keeps a list a list.
LEMMA CappedIsAList ==
  ASSUME NEW S, NEW ids \in Seq(S), NEW x \in S, NEW cap \in Nat
  PROVE  Authority!Capped(Append(ids, x), cap) \in Seq(S)
<1> DEFINE t == Append(ids, x)
<1>1. t \in Seq(S) /\ Len(t) \in Nat
  OBVIOUS
<1> HIDE DEF t
<1>2. CASE Len(t) > cap
  <2>1. Len(t) - cap + 1 \in Int /\ Len(t) \in Int
        /\ \A i \in (Len(t) - cap + 1)..Len(t) : t[i] \in S
    BY <1>1, <1>2
  <2>2. SubSeq(t, Len(t) - cap + 1, Len(t)) \in Seq(S)
    BY <2>1, SubSeqProperties
  <2> QED BY <1>2, <2>2 DEF Authority!Capped, Authority!KeepNewest, t
<1>3. CASE ~(Len(t) > cap)
  BY <1>1, <1>3 DEF Authority!Capped, t
<1> QED BY <1>2, <1>3

-----------------------------------------------------------------------------
(***************************************************************************)
(* What the log says, and what each row makes of it.                       *)
(***************************************************************************)
Said(accounts, minted, granted, open, invited, signup) ==
  [accounts |-> accounts, tokens |-> minted, grants |-> granted, offers |-> open,
   invites |-> invited, open_signup |-> signup]

\* The offers that are pending and not written down as expired.
Open(pending) ==
  [o \in {p \in DOMAIN pending : ~pending[p].expire_audited} |->
     Authority!OfferRow(pending[o].from, pending[o].to, pending[o].role)]

Ends ==
  {"role_grant_offer_accept", "role_grant_offer_decline", "role_grant_offer_retract",
   "role_grant_offer_supersede", "role_grant_offer_expire"}

Tells ==
  {"bootstrap", "signup", "invite_create", "invite_delete", "app_settings_update",
   "token_create", "token_revoke", "token_revoke_all", "password_change",
   "role_grant_create", "role_grant_revoke", "role_grant_offer_create", "account_delete",
   "account_undelete", "account_purge"} \cup Ends

\* A row of a failure, or of an event that moves none of this, says nothing.
LEMMA SaysNothing ==
  ASSUME NEW said, NEW row, row.success = FALSE \/ row.event \notin Tells
  PROVE  Authority!Replay(said, row) = said
  BY DEF Authority!Replay, Tells, Ends

\* A row of an offer that ends.
LEMMA SaysOneOfferEnds ==
  ASSUME NEW A, NEW T, NEW G, NEW O, NEW I, NEW P, NEW who, NEW it, NEW event \in Ends
  PROVE  Authority!Replay(Said(A, T, G, O, I, P), Authority!Row(event, who, it))
           = Said(A, T, G, Authority!WithoutOffers(O, {it}), I, P)
  BY DEF Authority!Replay, Authority!Row, Said, Ends

\* The log counts as this module does.
LEMMA LogCardinality == \A S : Authority!Cardinality(S) = Cardinality(S)
  BY DEF Authority!Cardinality, Cardinality

\* The rows of the offers that end, one by one.
LEMMA SaysOffersEnd ==
  ASSUME NEW A, NEW T, NEW G, NEW O, NEW I, NEW P,
         O = [o \in DOMAIN O |-> O[o]],
         NEW event \in Ends, NEW ids, IsFiniteSet(ids)
  PROVE  /\ Authority!RowsOf(event, ids)
              \in Seq({Authority!Row(event, offers[o].to, o) : o \in ids})
         /\ ReadsAs(Said(A, T, G, O, I, P), Authority!RowsOf(event, ids),
                    Said(A, T, G, Authority!WithoutOffers(O, ids), I, P))
<1> DEFINE n == Cardinality(ids)
           order == Authority!SetToSeq(ids)
           rows == Authority!RowsOf(event, ids)
           Before(i) == {order[j] : j \in 1..i}
           g == [i \in 0..n |-> Said(A, T, G, Authority!WithoutOffers(O, Before(i)), I, P)]
<1>1. n \in Nat
  BY FS_CardinalityType
<1>2. order \in [1..n -> ids] /\ \A i, j \in 1..n : order[i] = order[j] => i = j
  <2> DEFINE Orders(f) == f \in [1..n -> ids] /\ \A i, j \in 1..n : f[i] = f[j] => i = j
  <2>1. \E f : Orders(f)
    <3>1. ExistsBijection(1..n, ids)
      BY FS_CardinalityType
    <3>2. PICK f \in Bijection(1..n, ids) : TRUE
      BY <3>1 DEF ExistsBijection
    <3>3. f \in [1..n -> ids] /\ IsInjective(f)
      BY <3>2 DEF Bijection, Injection
    <3> QED BY <3>3 DEF IsInjective
  <2>2. Orders(CHOOSE f : Orders(f))
    BY <2>1
  <2>3. order = CHOOSE f \in [1..n -> ids] : Authority!IsInjective(f)
    BY LogCardinality DEF Authority!SetToSeq
  <2>4. \A f \in [1..n -> ids] : Authority!IsInjective(f) <=> Orders(f)
    BY DEF Authority!IsInjective
  <2>5. \E f \in [1..n -> ids] : Authority!IsInjective(f)
    BY <2>1, <2>4
  <2> HIDE DEF order
  <2>6. order \in [1..n -> ids] /\ Authority!IsInjective(order)
    BY <2>3, <2>5
  <2> QED BY <2>4, <2>6
<1> HIDE DEF order
<1>3. \A o \in ids : \E i \in 1..n : order[i] = o
  <2>1. order \in Injection(1..n, ids)
    BY <1>2 DEF Injection, IsInjective
  <2>2. Cardinality(1..n) = n
    BY <1>1, FS_Interval
  <2>3. order \in Surjection(1..n, ids)
    BY <2>1, <2>2, FS_Injection
  <2> QED BY <2>3 DEF Surjection
<1>4. rows = [k \in 1..n |-> Authority!Row(event, offers[order[k]].to, order[k])]
  BY <1>2 DEF Authority!RowsOf, order
<1> HIDE DEF n, rows
<1>5. rows \in Seq({Authority!Row(event, offers[o].to, o) : o \in ids}) /\ Len(rows) = n
  BY <1>1, <1>2, <1>4
<1>6. \A i \in 0..n : g[i] = Said(A, T, G, Authority!WithoutOffers(O, Before(i)), I, P)
  OBVIOUS
<1> HIDE DEF g
<1>7. g[0] = Said(A, T, G, O, I, P)
  <2>1. Before(0) = {} /\ 0 \in 0..n
    BY <1>1
  <2>2. Authority!WithoutOffers(O, {}) = O
    BY DEF Authority!WithoutOffers
  <2> HIDE DEF Before
  <2> QED BY <1>6, <2>1, <2>2
<1>8. g[n] = Said(A, T, G, Authority!WithoutOffers(O, ids), I, P)
  <2>1. Before(n) = ids /\ n \in 0..n
    BY <1>1, <1>2, <1>3
  <2> HIDE DEF Before
  <2> QED BY <1>6, <2>1
<1>9. ASSUME NEW i \in 1..n
      PROVE  g[i] = Authority!Replay(g[i - 1], rows[i])
  <2>1. i \in 0..n /\ i - 1 \in 0..n
    BY <1>1
  <2>2. rows[i] = Authority!Row(event, offers[order[i]].to, order[i])
    BY <1>4
  <2>3. Before(i) = Before(i - 1) \cup {order[i]}
    BY <1>1
  <2> HIDE DEF Before
  <2>4. Authority!WithoutOffers(Authority!WithoutOffers(O, Before(i - 1)), {order[i]})
          = Authority!WithoutOffers(O, Before(i))
    BY <2>3 DEF Authority!WithoutOffers
  <2>5. Authority!Replay(g[i - 1], rows[i])
          = Said(A, T, G, Authority!WithoutOffers(Authority!WithoutOffers(O, Before(i - 1)),
                                                  {order[i]}), I, P)
    <3> DEFINE rest == Authority!WithoutOffers(O, Before(i - 1))
    <3>1. g[i - 1] = Said(A, T, G, rest, I, P)
      BY <1>6, <2>1
    <3> HIDE DEF rest
    <3>2. Authority!Replay(Said(A, T, G, rest, I, P), rows[i])
            = Said(A, T, G, Authority!WithoutOffers(rest, {order[i]}), I, P)
      BY <2>2, SaysOneOfferEnds
    <3> QED BY <3>1, <3>2 DEF rest
  <2> QED BY <1>6, <2>1, <2>4, <2>5
<1>10. Leads(g, Said(A, T, G, O, I, P), rows)
  BY <1>5, <1>7, <1>9 DEF Leads
<1> QED BY <1>5, <1>8, <1>10 DEF ReadsAs, rows

-----------------------------------------------------------------------------
(***************************************************************************)
(* What the log and the connections owe to each request: what it changed   *)
(* is told, and what it took is closed, by what it queued and by who hears *)
(* its rows.                                                               *)
(***************************************************************************)
Lists ==
  /\ sessions \in [People -> Seq(SessionIds)] /\ tokens \in [People -> Seq(TokenIds)]
  /\ invites \subseteq [id : InviteIds, for : People]
  /\ IsFiniteSet(DOMAIN offers)

LogNow == Said(account_status, tokens, held, Open(offers), invites, open_signup)

LogInv ==
  /\ AuthorityInv /\ Lists
  /\ log = LogNow
  /\ entitled_connections \subseteq Authority!Entitled
  /\ entitled_streams \subseteq Authority!Entitled

\* The closes account for what is taken.
Accounted(closes) ==
  \A a \in People :
    /\ account_status[a] = "active"
    /\ <<"account", a>> \notin closes
    => /\ account_status'[a] = "active"
       /\ \A s \in Authority!ToSet(sessions[a]) :
            s \in Authority!ToSet(sessions'[a]) \/ <<"session", s>> \in closes
       /\ \A t \in Authority!ToSet(tokens[a]) :
            t \in Authority!ToSet(tokens'[a]) \/ <<"token", t>> \in closes
       /\ \A r \in Authority!GlobalRoles :
            <<a, r>> \in held => <<a, r>> \in held' \/ <<"role", a, r>> \in closes

\* The rows tell the change, and are heard wherever something is closed but by a cap.
Answers(rows, closes) ==
  /\ Authority!Answer(rows, closes)
  /\ UNCHANGED app_role
  /\ Len(rows) \in Nat
  /\ ReadsAs(LogNow, rows, LogNow')
  /\ \/ closes = {}
     \/ \E r \in Authority!ToSet(rows) :
          r.event \in {"login", "token_create"} \/ closes \subseteq Authority!Heard(r)
  /\ Accounted(closes)

LEMMA StaysEntitled ==
  ASSUME NEW closes, Accounted(closes), UNCHANGED app_role
  PROVE  Authority!Remaining(Authority!Entitled, closes) \subseteq Authority!Entitled'
<1> SUFFICES ASSUME NEW x \in Authority!Remaining(Authority!Entitled, closes)
             PROVE  x \in Authority!Entitled'
  OBVIOUS
<1>1. /\ x \in Authority!Entitled /\ <<"account", x[1]>> \notin closes
      /\ x[2] = "role" => <<"role", x[1], x[3]>> \notin closes
      /\ x[2] # "role" => <<x[2], x[3]>> \notin closes
  BY DEF Authority!Remaining
<1>2. Authority!GlobalRoles' = Authority!GlobalRoles
  BY DEF Authority!GlobalRoles, Authority!AllRoles
<1>3. CASE /\ x \in People \X {"session"} \X SessionIds
           /\ Authority!Active(x[1]) /\ x[3] \in Authority!ToSet(sessions[x[1]])
  <2>1. x[1] \in People /\ x[2] = "session" /\ account_status[x[1]] = "active"
    BY <1>3 DEF Authority!Active
  <2>2. account_status'[x[1]] = "active" /\ x[3] \in Authority!ToSet(sessions'[x[1]])
    BY <1>1, <1>3, <2>1 DEF Accounted
  <2> QED BY <1>3, <2>2 DEF Authority!Entitled, Authority!Active, Authority!ToSet
<1>4. CASE /\ x \in People \X {"token"} \X TokenIds
           /\ Authority!Active(x[1]) /\ x[3] \in Authority!ToSet(tokens[x[1]])
  <2>1. x[1] \in People /\ x[2] = "token" /\ account_status[x[1]] = "active"
    BY <1>4 DEF Authority!Active
  <2>2. account_status'[x[1]] = "active" /\ x[3] \in Authority!ToSet(tokens'[x[1]])
    BY <1>1, <1>4, <2>1 DEF Accounted
  <2> QED BY <1>4, <2>2 DEF Authority!Entitled, Authority!Active, Authority!ToSet
<1>5. CASE /\ x \in People \X {"role"} \X Authority!GlobalRoles
           /\ Authority!Holds(x[1], x[3])
  <2>1. x[1] \in People /\ x[2] = "role" /\ account_status[x[1]] = "active"
        /\ x[3] \in Authority!GlobalRoles /\ <<x[1], x[3]>> \in held
    BY <1>5 DEF Authority!Active, Authority!Holds
  <2>2. account_status'[x[1]] = "active" /\ <<x[1], x[3]>> \in held'
    BY <1>1, <2>1 DEF Accounted
  <2> QED BY <1>2, <1>5, <2>2 DEF Authority!Entitled, Authority!Active, Authority!Holds
<1> QED BY <1>1, <1>3, <1>4, <1>5 DEF Authority!Entitled

LEMMA FewerRemain ==
  ASSUME NEW S, NEW T, S \subseteq T, NEW few, NEW closes, few \subseteq closes
  PROVE  Authority!Remaining(S, closes) \subseteq Authority!Remaining(T, few)
  BY DEF Authority!Remaining

LEMMA AnswersHold ==
  ASSUME LogInv, NEW rows, NEW closes, Answers(rows, closes)
  PROVE  /\ log' = LogNow'
         /\ entitled_connections' \subseteq Authority!Entitled'
         /\ entitled_streams' \subseteq Authority!Entitled'
<1>1. Authority!Remaining(Authority!Entitled, closes) \subseteq Authority!Entitled'
  BY StaysEntitled DEF Answers
<1>2. log' = LogNow'
  <2>1. Authority!Retold(LogNow, rows) = LogNow'
    <3> HIDE DEF LogNow
    <3> QED BY ReaderArrives DEF Answers
  <2> QED BY <2>1 DEF Answers, Authority!Answer, LogInv
<1>3. entitled_connections' \subseteq Authority!Entitled'
  <2>1. Authority!Remaining(entitled_connections, closes)
          \subseteq Authority!Remaining(Authority!Entitled, closes)
    BY FewerRemain DEF LogInv
  <2> QED BY <1>1, <2>1 DEF Answers, Authority!Answer
<1> DEFINE capped == \E r \in Authority!ToSet(rows) : r.event \in {"login", "token_create"}
           evicted == IF capped THEN closes ELSE {}
           heard == UNION {Authority!Heard(r) : r \in Authority!ToSet(rows)}
<1>4. closes \subseteq heard \cup evicted
  BY DEF Answers
<1>5. entitled_streams' = Authority!Remaining(entitled_streams, heard \cup evicted)
                            \cup Authority!Entitled'
  BY DEF Answers, Authority!Answer
<1> HIDE DEF heard, evicted
<1>6. Authority!Remaining(entitled_streams, heard \cup evicted)
        \subseteq Authority!Remaining(Authority!Entitled, closes)
  BY <1>4, FewerRemain DEF LogInv
<1> QED BY <1>1, <1>2, <1>3, <1>5, <1>6

\* What a request leaves alone it need not account for.
LEMMA NothingTaken ==
  ASSUME \A a \in People : account_status[a] = "active" => account_status'[a] = "active",
         UNCHANGED <<sessions, tokens>>, held \subseteq held'
  PROVE  Accounted({})
  BY DEF Accounted

\* One row that tells, or has nothing to tell.
LEMMA OneRowAnswers ==
  ASSUME NEW row, NEW closes, Authority!Answer(<<row>>, closes), UNCHANGED app_role,
         Authority!Replay(LogNow, row) = LogNow',
         closes = {} \/ row.event \in {"login", "token_create"} \/ closes \subseteq Authority!Heard(row),
         Accounted(closes)
  PROVE  Answers(<<row>>, closes)
<1>1. row \in Authority!ToSet(<<row>>) /\ Len(<<row>>) \in Nat
  BY DEF Authority!ToSet
<1>2. ReadsAs(LogNow, <<row>>, LogNow')
  <2> HIDE DEF LogNow
  <2>1. ReadsAs(LogNow, <<row>>, Authority!Replay(LogNow, row))
    BY ReadsOne
  <2> QED BY <2>1
<1> QED BY <1>1, <1>2 DEF Answers

Settled == Lists' /\ \E rows, closes : Answers(rows, closes)

\* A refusal.
LEMMA RefusedAnswers ==
  ASSUME LogInv, NEW event, NEW target, Authority!Refuse(event, target)
  PROVE  Settled
<1>1. UNCHANGED <<app_role, account_status, sessions, tokens, held, offers, invites, open_signup>>
  BY DEF Authority!Refuse
<1>2. Lists'
  BY <1>1 DEF LogInv, Lists
<1>3. LogNow' = LogNow
  BY <1>1 DEF LogNow, Open, Authority!OfferRow
<1> DEFINE row == Authority!Failed(event, target)
<1>4. row.success = FALSE
  BY DEF Authority!Failed, Authority!Row
<1>5. Authority!Replay(LogNow, row) = LogNow
  <2> HIDE DEF row, LogNow
  <2> QED BY <1>4, SaysNothing
<1>6. Accounted({})
  BY <1>1, NothingTaken
<1>7. Authority!Answer(<<row>>, {})
  BY DEF Authority!Refuse
<1> HIDE DEF row, LogNow
<1>8. Answers(<<row>>, {})
  BY <1>1, <1>3, <1>5, <1>6, <1>7, OneRowAnswers
<1> QED BY <1>2, <1>8 DEF Settled

-----------------------------------------------------------------------------
(***************************************************************************)
(* Each request settles what it owes.                                      *)
(***************************************************************************)
LEMMA BootstrapSettles ==
  ASSUME LogInv, NEW s \in SessionIds, Authority!Bootstrap(s)
  PROVE  Settled
<1>1. /\ \A a \in People : account_status[a] = "none"
      /\ held = {} /\ held' = {<<Keeper, r>> : r \in Authority!BuiltinRoles}
      /\ account_status' = [account_status EXCEPT ![Keeper] = "active"]
      /\ sessions' = [sessions EXCEPT ![Keeper] = <<s>>]
      /\ UNCHANGED <<app_role, tokens, offers, invites, open_signup>>
  BY DEF Authority!Bootstrap
<1>2. Lists'
  <2>1. <<s>> \in Seq(SessionIds)
    OBVIOUS
  <2>2. sessions' \in [People -> Seq(SessionIds)]
    BY <1>1, <2>1 DEF LogInv, Lists
  <2> QED BY <1>1, <2>2 DEF LogInv, Lists
<1> DEFINE row == Authority!Row("bootstrap", Keeper, Unset)
<1>3. Authority!Replay(LogNow, row) = LogNow'
  <2>1. held' = held \cup {<<Keeper, r>> : r \in Authority!BuiltinRoles}
    BY <1>1
  <2>2. Open(offers)' = Open(offers)
    BY <1>1 DEF Open, Authority!OfferRow
  <2>3. LogNow' = Said(account_status', tokens, held', Open(offers), invites, open_signup)
    BY <1>1, <2>2 DEF LogNow
  <2>4. Authority!Replay(LogNow, row)
          = Said([account_status EXCEPT ![Keeper] = "active"], tokens,
                 held \cup {<<Keeper, r>> : r \in Authority!BuiltinRoles}, Open(offers),
                 invites, open_signup)
    BY DEF Authority!Replay, Authority!Row, Said, LogNow
  <2> HIDE DEF row, LogNow
  <2> QED BY <1>1, <2>1, <2>3, <2>4
<1>4. Accounted({})
  BY <1>1 DEF Accounted
<1>5. Authority!Answer(<<row>>, {})
  BY DEF Authority!Bootstrap
<1> HIDE DEF row, LogNow
<1>6. Answers(<<row>>, {})
  BY <1>1, <1>3, <1>4, <1>5, OneRowAnswers
<1> QED BY <1>2, <1>6 DEF Settled

LEMMA SignupSettles ==
  ASSUME LogInv, NEW a \in People, NEW s \in SessionIds, Authority!Signup(a, s)
  PROVE  Settled
<1>1. /\ account_status[a] = "none"
      /\ account_status' = [account_status EXCEPT ![a] = "active"]
      /\ sessions' = [sessions EXCEPT ![a] = <<s>>]
      /\ UNCHANGED <<app_role, tokens, held, offers, open_signup>>
  BY DEF Authority!Signup
<1>2. PICK i : invites' = invites \ {i} /\ Authority!Answer(<<Authority!Row("signup", a, i)>>, {})
  <2>1. Unset \notin invites
    BY LogBounds DEF LogInv, Lists
  <2>2. invites \ {Unset} = invites
    BY <2>1
  <2> QED BY <2>2 DEF Authority!Signup
<1>3. Lists'
  <2>1. <<s>> \in Seq(SessionIds)
    OBVIOUS
  <2>2. sessions' \in [People -> Seq(SessionIds)]
    BY <1>1, <2>1 DEF LogInv, Lists
  <2> QED BY <1>1, <1>2, <2>2 DEF LogInv, Lists
<1> DEFINE row == Authority!Row("signup", a, i)
<1>4. Authority!Replay(LogNow, row) = LogNow'
  <2>1. Open(offers)' = Open(offers)
    BY <1>1 DEF Open, Authority!OfferRow
  <2>2. LogNow' = Said(account_status', tokens, held, Open(offers), invites', open_signup)
    BY <1>1, <2>1 DEF LogNow
  <2> QED BY <1>1, <1>2, <2>2 DEF Authority!Replay, Authority!Row, Said, LogNow
<1>5. Accounted({})
  <2>1. ASSUME NEW b \in People, account_status[b] = "active"
        PROVE  account_status'[b] = "active" /\ sessions'[b] = sessions[b]
    BY <1>1, <2>1 DEF LogInv, AuthorityInv, OfOnePerson
  <2> QED BY <1>1, <2>1 DEF Accounted
<1> HIDE DEF row, LogNow
<1>6. Answers(<<row>>, {})
  BY <1>1, <1>2, <1>4, <1>5, OneRowAnswers DEF row
<1> QED BY <1>3, <1>6 DEF Settled

LEMMA LoginSettles ==
  ASSUME LogInv, NEW a \in People, NEW s \in SessionIds, Authority!Login(a, s)
  PROVE  Settled
<1> DEFINE kept == Authority!Capped(Append(sessions[a], s), MaxSessions)
           closes == {<<"session", e>> :
                        e \in Authority!ToSet(sessions[a]) \ Authority!ToSet(kept)}
           row == Authority!Row("login", a, Unset)
<1>1. /\ sessions' = [sessions EXCEPT ![a] = kept]
      /\ UNCHANGED <<app_role, account_status, tokens, held, offers, invites, open_signup>>
      /\ Authority!Answer(<<row>>, closes)
  BY DEF Authority!Login
<1>2. kept \in Seq(SessionIds)
  <2>1. sessions[a] \in Seq(SessionIds)
    BY DEF LogInv, Lists
  <2> QED BY <2>1, LogBounds, CappedIsAList
<1> HIDE DEF kept, row
<1>3. Lists'
  BY <1>1, <1>2 DEF LogInv, Lists
<1>4. LogNow' = LogNow
  BY <1>1 DEF LogNow, Open, Authority!OfferRow
<1>5. row.event = "login" /\ Authority!Replay(LogNow, row) = LogNow
  <2>1. row.event = "login" /\ "login" \notin Tells
    BY DEF row, Authority!Row, Tells, Ends
  <2> HIDE DEF LogNow
  <2> QED BY <2>1, SaysNothing
<1>6. Accounted(closes)
  <2>1. \A b \in People : sessions'[b] = IF b = a THEN kept ELSE sessions[b]
    BY <1>1 DEF LogInv, Lists
  <2>2. \A e \in Authority!ToSet(sessions[a]) :
           e \in Authority!ToSet(kept) \/ <<"session", e>> \in closes
    OBVIOUS
  <2> HIDE DEF closes
  <2> QED BY <1>1, <2>1, <2>2 DEF Accounted, Authority!ToSet
<1> HIDE DEF LogNow, closes
<1>7. Answers(<<row>>, closes)
  BY <1>1, <1>4, <1>5, <1>6, OneRowAnswers
<1> QED BY <1>3, <1>7 DEF Settled

LEMMA TokenCreateSettles ==
  ASSUME LogInv, NEW c \in Authority!Credentials, NEW t \in TokenIds, Authority!TokenCreate(c, t)
  PROVE  Settled
<1> DEFINE a == c.account
           kept == Authority!Capped(Append(tokens[a], t), MaxTokens)
           closes == {<<"token", e>> :
                        e \in Authority!ToSet(tokens[a]) \ Authority!ToSet(kept)}
           row == Authority!Row("token_create", a, t)
<1>1. /\ tokens' = [tokens EXCEPT ![a] = kept]
      /\ UNCHANGED <<app_role, account_status, sessions, held, offers, invites, open_signup>>
      /\ Authority!Answer(<<row>>, closes)
  BY DEF Authority!TokenCreate
<1>2. a \in People
  BY InForce
<1> HIDE DEF a
<1>3. kept \in Seq(TokenIds)
  <2>1. tokens[a] \in Seq(TokenIds)
    BY <1>2 DEF LogInv, Lists
  <2> QED BY <2>1, LogBounds, CappedIsAList
<1>4. Authority!Replay(LogNow, row) = LogNow'
  <2>1. Open(offers)' = Open(offers)
    BY <1>1 DEF Open, Authority!OfferRow
  <2>2. LogNow' = Said(account_status, tokens', held, Open(offers), invites, open_signup)
    BY <1>1, <2>1 DEF LogNow
  <2>3. tokens' = [tokens EXCEPT ![a] = Authority!Capped(Append(@, t), MaxTokens)]
    BY <1>1
  <2> QED BY <2>2, <2>3 DEF Authority!Replay, Authority!Row, Said, LogNow
<1>5. row.event = "token_create"
  BY DEF Authority!Row
<1> HIDE DEF kept, row
<1>6. Lists'
  BY <1>1, <1>3 DEF LogInv, Lists
<1>7. Accounted(closes)
  <2>1. \A b \in People : tokens'[b] = IF b = a THEN kept ELSE tokens[b]
    BY <1>1 DEF LogInv, Lists
  <2>2. \A e \in Authority!ToSet(tokens[a]) :
           e \in Authority!ToSet(kept) \/ <<"token", e>> \in closes
    OBVIOUS
  <2> HIDE DEF closes
  <2> QED BY <1>1, <2>1, <2>2 DEF Accounted, Authority!ToSet
<1> HIDE DEF LogNow, closes
<1>8. Answers(<<row>>, closes)
  BY <1>1, <1>4, <1>5, <1>7, OneRowAnswers
<1> QED BY <1>6, <1>8 DEF Settled

LEMMA InvitesAndSettingsSettle ==
  ASSUME LogInv, NEW c \in Authority!Credentials,
         \/ \E i \in [id : InviteIds, for : People] : Authority!InviteCreate(c, i)
         \/ \E id \in InviteIds : Authority!InviteDelete(c, id)
         \/ \E new_value \in BOOLEAN : Authority!AppSettingsUpdate(c, new_value)
  PROVE  Settled
<1> DEFINE Owes ==
             /\ UNCHANGED <<app_role, account_status, sessions, tokens, held, offers>>
             /\ invites' \subseteq [id : InviteIds, for : People]
             /\ \E row :
                  /\ Authority!Answer(<<row>>, {})
                  /\ Authority!Replay(LogNow, row)
                       = Said(account_status, tokens, held, Open(offers), invites', open_signup')
<1>1. Owes
  <2>1. invites \subseteq [id : InviteIds, for : People]
    BY DEF LogInv, Lists
  <2>2. ASSUME NEW i \in [id : InviteIds, for : People], Authority!InviteCreate(c, i)
        PROVE  Owes
    <3> DEFINE row == Authority!Row("invite_create", Unset, i)
    <3>1. /\ UNCHANGED <<app_role, account_status, sessions, tokens, held, offers>>
          /\ invites' = invites \cup {i} /\ open_signup' = open_signup
          /\ Authority!Answer(<<row>>, {})
      BY <2>2 DEF Authority!InviteCreate
    <3>2. Authority!Replay(LogNow, row)
            = Said(account_status, tokens, held, Open(offers), invites', open_signup')
      BY <3>1 DEF Authority!Replay, Authority!Row, Said, LogNow
    <3>3. invites' \subseteq [id : InviteIds, for : People]
      BY <2>1, <3>1
    <3> HIDE DEF row, LogNow
    <3> QED BY <3>1, <3>2, <3>3
  <2>3. ASSUME NEW id \in InviteIds, Authority!InviteDelete(c, id)
        PROVE  Owes
    <3> DEFINE row == Authority!Row("invite_delete", Unset, id)
    <3>1. /\ UNCHANGED <<app_role, account_status, sessions, tokens, held, offers>>
          /\ invites' = {i \in invites : i.id # id} /\ open_signup' = open_signup
          /\ Authority!Answer(<<row>>, {})
      BY <2>3 DEF Authority!InviteDelete
    <3>2. Authority!Replay(LogNow, row)
            = Said(account_status, tokens, held, Open(offers), invites', open_signup')
      BY <3>1 DEF Authority!Replay, Authority!Row, Said, LogNow
    <3>3. invites' \subseteq [id : InviteIds, for : People]
      BY <2>1, <3>1
    <3> HIDE DEF row, LogNow
    <3> QED BY <3>1, <3>2, <3>3
  <2>4. ASSUME NEW new_value \in BOOLEAN, Authority!AppSettingsUpdate(c, new_value)
        PROVE  Owes
    <3> DEFINE row == Authority!Row("app_settings_update", Unset, new_value)
    <3>1. /\ UNCHANGED <<app_role, account_status, sessions, tokens, held, offers>>
          /\ invites' = invites /\ open_signup' = new_value
          /\ Authority!Answer(<<row>>, {})
      BY <2>4 DEF Authority!AppSettingsUpdate
    <3>2. Authority!Replay(LogNow, row)
            = Said(account_status, tokens, held, Open(offers), invites', open_signup')
      BY <3>1 DEF Authority!Replay, Authority!Row, Said, LogNow
    <3>3. invites' \subseteq [id : InviteIds, for : People]
      BY <2>1, <3>1
    <3> HIDE DEF row, LogNow
    <3> QED BY <3>1, <3>2, <3>3
  <2> QED BY <2>2, <2>3, <2>4
<1>2. PICK row :
        /\ Authority!Answer(<<row>>, {})
        /\ Authority!Replay(LogNow, row)
             = Said(account_status, tokens, held, Open(offers), invites', open_signup')
  BY <1>1
<1>3. Lists'
  BY <1>1 DEF LogInv, Lists
<1>4. LogNow' = Said(account_status, tokens, held, Open(offers), invites', open_signup')
  <2>1. Open(offers)' = Open(offers)
    BY <1>1 DEF Open, Authority!OfferRow
  <2> QED BY <1>1, <2>1 DEF LogNow
<1>5. Accounted({})
  BY <1>1, NothingTaken
<1> HIDE DEF LogNow
<1>6. Answers(<<row>>, {})
  BY <1>1, <1>2, <1>4, <1>5, OneRowAnswers
<1> QED BY <1>3, <1>6 DEF Settled

-----------------------------------------------------------------------------
\* A list that stays a list, of one person.
LEMMA ListsOfOne ==
  ASSUME NEW S, NEW f \in [People -> Seq(S)], NEW a \in People, NEW t \in Seq(S)
  PROVE  /\ [f EXCEPT ![a] = t] \in [People -> Seq(S)]
         /\ \A b \in People : [f EXCEPT ![a] = t][b] = IF b = a THEN t ELSE f[b]
  OBVIOUS

\* A request that closes all of its account has taken nothing else.
LEMMA AllOfOneAccount ==
  ASSUME NEW a \in People,
         \A b \in People \ {a} :
           /\ account_status'[b] = account_status[b]
           /\ sessions'[b] = sessions[b] /\ tokens'[b] = tokens[b]
           /\ \A r : <<b, r>> \in held => <<b, r>> \in held'
  PROVE  Accounted({<<"account", a>>})
<1> SUFFICES ASSUME NEW b \in People, account_status[b] = "active",
                    <<"account", b>> \notin {<<"account", a>>}
             PROVE  /\ account_status'[b] = "active"
                    /\ sessions'[b] = sessions[b] /\ tokens'[b] = tokens[b]
                    /\ \A r : <<b, r>> \in held => <<b, r>> \in held'
  BY DEF Accounted
<1>1. b # a
  OBVIOUS
<1> QED BY <1>1

\* The events by which all connections of an account are closed.
LEMMA HeardOfAccounts ==
  ASSUME NEW a, NEW event \in {"logout", "password_change", "session_revoke_all",
                               "token_revoke_all", "account_delete", "account_purge"}
  PROVE  Authority!Heard(Authority!Row(event, a, Unset)) = {<<"account", a>>}
  BY DEF Authority!Heard, Authority!RevocationScope, Authority!Row

\* A request that ends credentials of one account and closes all of its connections.
EndsAllOf(a, event) ==
  /\ Authority!Answer(<<Authority!Row(event, a, Unset)>>, {<<"account", a>>})
  /\ UNCHANGED <<app_role, account_status, held, offers, invites, open_signup>>
  /\ \/ \E t \in Seq(SessionIds) : sessions' = [sessions EXCEPT ![a] = t]
     \/ UNCHANGED sessions
  /\ IF event \in {"token_revoke_all", "password_change"}
     THEN tokens' = [tokens EXCEPT ![a] = <<>>] ELSE UNCHANGED tokens

LEMMA EndingAllSettles ==
  ASSUME LogInv, NEW a \in People,
         NEW event \in {"logout", "password_change", "session_revoke_all", "token_revoke_all"},
         EndsAllOf(a, event)
  PROVE  Settled
<1> DEFINE row == Authority!Row(event, a, Unset)
<1>1. sessions \in [People -> Seq(SessionIds)] /\ tokens \in [People -> Seq(TokenIds)]
  BY DEF LogInv, Lists
<1>2. /\ sessions' \in [People -> Seq(SessionIds)]
      /\ \A b \in People \ {a} : sessions'[b] = sessions[b]
  <2>1. CASE UNCHANGED sessions
    BY <1>1, <2>1
  <2>2. ASSUME NEW t \in Seq(SessionIds), sessions' = [sessions EXCEPT ![a] = t]
        PROVE  /\ sessions' \in [People -> Seq(SessionIds)]
               /\ \A b \in People \ {a} : sessions'[b] = sessions[b]
    BY <1>1, <2>2, ListsOfOne
  <2> QED BY <2>1, <2>2 DEF EndsAllOf
<1>3. /\ tokens' \in [People -> Seq(TokenIds)]
      /\ \A b \in People \ {a} : tokens'[b] = tokens[b]
  <2>1. <<>> \in Seq(TokenIds)
    OBVIOUS
  <2>2. CASE UNCHANGED tokens
    BY <1>1, <2>2
  <2>3. CASE tokens' = [tokens EXCEPT ![a] = <<>>]
    BY <1>1, <2>1, <2>3, ListsOfOne
  <2> QED BY <2>2, <2>3 DEF EndsAllOf
<1>4. Lists'
  BY <1>2, <1>3 DEF EndsAllOf, LogInv, Lists
<1>5. LogNow' = Said(account_status, tokens', held, Open(offers), invites, open_signup)
  <2>1. Open(offers)' = Open(offers)
    BY DEF EndsAllOf, Open, Authority!OfferRow
  <2> QED BY <2>1 DEF EndsAllOf, LogNow
<1>6. Authority!Replay(LogNow, row) = LogNow'
  <2>1. CASE event \in {"token_revoke_all", "password_change"}
    BY <1>5, <2>1 DEF Authority!Replay, Authority!Row, Said, EndsAllOf, LogNow
  <2>2. CASE event \in {"logout", "session_revoke_all"}
    <3>1. row.event = event /\ event \notin Tells
      BY <2>2 DEF Authority!Row, Tells, Ends
    <3>2. Authority!Replay(LogNow, row) = LogNow
      <4> HIDE DEF row, LogNow
      <4> QED BY <3>1, SaysNothing
    <3>3. UNCHANGED tokens
      BY <2>2 DEF EndsAllOf
    <3>4. LogNow' = LogNow
      BY <1>5, <3>3 DEF LogNow
    <3> QED BY <3>2, <3>4
  <2> QED BY <2>1, <2>2
<1>7. Accounted({<<"account", a>>})
  BY <1>2, <1>3, AllOfOneAccount DEF EndsAllOf
<1>8. Authority!Heard(row) = {<<"account", a>>}
  BY HeardOfAccounts
<1>9. Authority!Answer(<<row>>, {<<"account", a>>}) /\ UNCHANGED app_role
  BY DEF EndsAllOf
<1> HIDE DEF row, LogNow
<1>10. Answers(<<row>>, {<<"account", a>>})
  BY <1>6, <1>7, <1>8, <1>9, OneRowAnswers
<1> QED BY <1>4, <1>10 DEF Settled

LEMMA CredentialsEndSettles ==
  ASSUME LogInv, NEW c \in Authority!Credentials,
         \/ Authority!Logout(c) \/ Authority!PasswordChange(c) \/ Authority!SessionRevokeAll(c)
         \/ \E a \in People : \/ Authority!AdminSessionRevokeAll(c, a)
                              \/ Authority!AdminTokenRevokeAll(c, a)
  PROVE  Settled
<1>1. c.account \in People /\ <<>> \in Seq(SessionIds)
  BY InForce
<1>2. CASE Authority!Logout(c)
  <2>1. Authority!Without(sessions[c.account], {c.id}) \in Seq(SessionIds)
    <3>1. sessions[c.account] \in Seq(SessionIds)
      BY <1>1 DEF LogInv, Lists
    <3> QED BY <3>1, WithoutKeepsTheRest
  <2>2. /\ sessions' = [sessions EXCEPT ![c.account] = Authority!Without(sessions[c.account], {c.id})]
        /\ UNCHANGED <<app_role, account_status, tokens, held, offers, invites, open_signup>>
        /\ Authority!Answer(<<Authority!Row("logout", c.account, Unset)>>,
                            {<<"account", c.account>>})
    BY <1>2, Zenon DEF Authority!Logout
  <2>3. EndsAllOf(c.account, "logout")
    BY <2>1, <2>2 DEF EndsAllOf
  <2> QED BY <1>1, <2>3, EndingAllSettles
<1>3. CASE Authority!PasswordChange(c)
  <2>1. /\ sessions' = [sessions EXCEPT ![c.account] = <<>>]
        /\ tokens' = [tokens EXCEPT ![c.account] = <<>>]
        /\ UNCHANGED <<app_role, account_status, held, offers, invites, open_signup>>
        /\ Authority!Answer(<<Authority!Row("password_change", c.account, Unset)>>,
                            {<<"account", c.account>>})
    BY <1>3, Zenon DEF Authority!PasswordChange, Authority!EndCredentials
  <2>2. EndsAllOf(c.account, "password_change")
    BY <1>1, <2>1 DEF EndsAllOf
  <2> QED BY <1>1, <2>2, EndingAllSettles
<1>4. CASE Authority!SessionRevokeAll(c)
  <2>1. EndsAllOf(c.account, "session_revoke_all")
    BY <1>1, <1>4 DEF Authority!SessionRevokeAll, EndsAllOf
  <2> QED BY <1>1, <2>1, EndingAllSettles
<1>5. ASSUME NEW a \in People, Authority!AdminSessionRevokeAll(c, a)
      PROVE  Settled
  <2>1. CASE Authority!Active(a)
    <3>1. EndsAllOf(a, "session_revoke_all")
      BY <1>1, <1>5, <2>1 DEF Authority!AdminSessionRevokeAll, EndsAllOf
    <3> QED BY <3>1, EndingAllSettles
  <2>2. CASE ~Authority!Active(a)
    BY <1>5, <2>2, RefusedAnswers DEF Authority!AdminSessionRevokeAll
  <2> QED BY <2>1, <2>2
<1>6. ASSUME NEW a \in People, Authority!AdminTokenRevokeAll(c, a)
      PROVE  Settled
  <2>1. CASE Authority!Active(a)
    <3>1. EndsAllOf(a, "token_revoke_all")
      BY <1>6, <2>1 DEF Authority!AdminTokenRevokeAll, EndsAllOf
    <3> QED BY <3>1, EndingAllSettles
  <2>2. CASE ~Authority!Active(a)
    BY <1>6, <2>2, RefusedAnswers DEF Authority!AdminTokenRevokeAll
  <2> QED BY <2>1, <2>2
<1> QED BY <1>2, <1>3, <1>4, <1>5, <1>6

\* What nothing is taken from stays as it is.
LEMMA WithoutNothing ==
  ASSUME NEW S, NEW ids \in Seq(S), NEW gone, \A x \in Authority!ToSet(ids) : x \notin gone
  PROVE  Authority!Without(ids, gone) = ids
<1> DEFINE N == Len(ids)
           f == [n \in 0..N |-> SubSeq(ids, 1, n)]
<1>1. N \in Nat /\ DOMAIN ids = 1..N /\ \A i \in 1..N : ids[i] \in S /\ ids[i] \notin gone
  BY DEF Authority!ToSet
<1>2. \A n \in 0..N : f[n] = SubSeq(ids, 1, n)
  OBVIOUS
<1>3. f \in [0..N -> Seq(S)]
  <2>1. ASSUME NEW n \in 0..N
        PROVE  SubSeq(ids, 1, n) \in Seq(S)
    <3>1. 1 \in Int /\ n \in Int /\ \A i \in 1..n : ids[i] \in S
      BY <1>1
    <3> QED BY <3>1, SubSeqProperties
  <2> QED BY <2>1
<1> HIDE DEF f
<1>4. f[0] = <<>>
  <2>1. 0 \in 0..N /\ 1 \in Int /\ 0 \in Int /\ 0 < 1
    BY <1>1
  <2> QED BY <1>2, <2>1, SubSeqEmpty
<1>5. ASSUME NEW i \in 1..N
      PROVE  f[i] = Append(f[i - 1], ids[i])
  <2>1. i \in 0..N /\ i - 1 \in 0..N /\ 1 \in Int /\ i \in Int /\ i - 1 \in Int
        /\ (\A j \in 1..i : ids[j] \in S) /\ \A j \in 1..(i - 1) : ids[j] \in S
    BY <1>1
  <2>2. /\ f[i] \in Seq(S) /\ Len(f[i]) = i
        /\ \A j \in 1..i : f[i][j] = ids[j]
    <3>1. /\ SubSeq(ids, 1, i) \in Seq(S)
          /\ Len(SubSeq(ids, 1, i)) = IF 1 <= i THEN i - 1 + 1 ELSE 0
          /\ \A j \in 1..(i - 1 + 1) : SubSeq(ids, 1, i)[j] = ids[1 + j - 1]
      BY <2>1, SubSeqProperties
    <3>2. i - 1 + 1 = i /\ \A j \in 1..i : 1 + j - 1 = j
      BY <2>1
    <3>3. f[i] = SubSeq(ids, 1, i)
      BY <1>2, <2>1
    <3>4. \A j \in 1..i : j \in 1..(i - 1 + 1) /\ ids[1 + j - 1] = ids[j]
      BY <2>1, <3>2
    <3> QED BY <2>1, <3>1, <3>2, <3>3, <3>4
  <2>3. /\ f[i - 1] \in Seq(S) /\ Len(f[i - 1]) = i - 1
        /\ \A j \in 1..(i - 1) : f[i - 1][j] = ids[j]
    <3>1. /\ SubSeq(ids, 1, i - 1) \in Seq(S)
          /\ Len(SubSeq(ids, 1, i - 1)) = IF 1 <= i - 1 THEN (i - 1) - 1 + 1 ELSE 0
          /\ \A j \in 1..((i - 1) - 1 + 1) : SubSeq(ids, 1, i - 1)[j] = ids[1 + j - 1]
      BY <2>1, SubSeqProperties
    <3>2. (i - 1) - 1 + 1 = i - 1 /\ (~(1 <= i - 1) => i - 1 = 0)
          /\ \A j \in 1..(i - 1) : 1 + j - 1 = j
      BY <2>1
    <3>3. f[i - 1] = SubSeq(ids, 1, i - 1)
      BY <1>2, <2>1
    <3>4. \A j \in 1..(i - 1) : j \in 1..((i - 1) - 1 + 1) /\ ids[1 + j - 1] = ids[j]
      BY <2>1, <3>2
    <3> QED BY <2>1, <3>1, <3>2, <3>3, <3>4
  <2> QED BY <1>1, <2>1, <2>2, <2>3
<1>6. LeavesBy(f, ids, gone, N)
  BY <1>1, <1>4, <1>5 DEF LeavesBy
<1>7. f[N] = ids
  <2>1. N \in 0..N
    BY <1>1
  <2> QED BY <1>2, <2>1, SubSeqFull
<1> QED BY <1>3, <1>6, <1>7, WithoutIsWhatIsLeft

LEMMA SessionRevokeSettles ==
  ASSUME LogInv, NEW c \in Authority!Credentials, NEW s, Authority!SessionRevoke(c, s)
  PROVE  Settled
<1> DEFINE a == c.account
           old == sessions[a]
           kept == Authority!Without(old, {s})
           revoked == s \in Authority!ToSet(old)
           row == [Authority!Row("session_revoke", a, s) EXCEPT !.success = revoked]
           closes == IF revoked THEN {<<"session", s>>} ELSE {}
<1>1. /\ sessions' = [sessions EXCEPT ![a] = kept]
      /\ UNCHANGED <<app_role, account_status, tokens, held, offers, invites, open_signup>>
      /\ Authority!Answer(<<row>>, closes)
  BY DEF Authority!SessionRevoke
<1>2. a \in People
  BY InForce
<1> HIDE DEF a
<1>3. old \in Seq(SessionIds)
  BY <1>2 DEF LogInv, Lists
<1>4. kept \in Seq(SessionIds)
      /\ \A x \in Authority!ToSet(old) \ {s} : x \in Authority!ToSet(kept)
  BY <1>3, WithoutKeepsTheRest
<1>5. row.event = "session_revoke" /\ (revoked => closes \subseteq Authority!Heard(row))
  <2>1. row = [event |-> "session_revoke", success |-> revoked, target |-> a, metadata |-> s]
    BY DEF Authority!Row
  <2> HIDE DEF row, revoked
  <2> QED BY <2>1 DEF Authority!Heard, Authority!RevocationScope
<1>6. Lists'
  BY <1>1, <1>4 DEF LogInv, Lists
<1>7. LogNow' = LogNow
  BY <1>1 DEF LogNow, Open, Authority!OfferRow
<1>8. Accounted(closes)
  <2>1. \A b \in People : sessions'[b] = IF b = a THEN kept ELSE sessions[b]
    BY <1>1 DEF LogInv, Lists
  <2>2. \A e \in Authority!ToSet(old) : e \in Authority!ToSet(kept) \/ <<"session", e>> \in closes
    BY <1>4
  <2> HIDE DEF closes, kept
  <2> QED BY <1>1, <2>1, <2>2 DEF Accounted, Authority!ToSet
<1>9. ~revoked => closes = {}
  OBVIOUS
<1> HIDE DEF row, closes, LogNow, revoked
<1>10. Authority!Replay(LogNow, row) = LogNow'
  <2>1. "session_revoke" \notin Tells
    BY DEF Tells, Ends
  <2> QED BY <1>5, <1>7, <2>1, SaysNothing
<1>11. Answers(<<row>>, closes)
  BY <1>1, <1>5, <1>8, <1>9, <1>10, OneRowAnswers
<1> QED BY <1>6, <1>11 DEF Settled

LEMMA TokenRevokeSettles ==
  ASSUME LogInv, NEW c \in Authority!Credentials, NEW t, Authority!TokenRevoke(c, t)
  PROVE  Settled
<1> DEFINE a == c.account
           old == tokens[a]
           kept == Authority!Without(old, {t})
           revoked == t \in Authority!ToSet(old)
           row == [Authority!Row("token_revoke", a, t) EXCEPT !.success = revoked]
           closes == IF revoked THEN {<<"token", t>>} ELSE {}
<1>1. /\ tokens' = [tokens EXCEPT ![a] = kept]
      /\ UNCHANGED <<app_role, account_status, sessions, held, offers, invites, open_signup>>
      /\ Authority!Answer(<<row>>, closes)
  BY DEF Authority!TokenRevoke
<1>2. a \in People
  BY InForce
<1> HIDE DEF a
<1>3. old \in Seq(TokenIds)
  BY <1>2 DEF LogInv, Lists
<1>4. kept \in Seq(TokenIds)
      /\ \A x \in Authority!ToSet(old) \ {t} : x \in Authority!ToSet(kept)
  BY <1>3, WithoutKeepsTheRest
<1>5. row = [event |-> "token_revoke", success |-> revoked, target |-> a, metadata |-> t]
  BY DEF Authority!Row
<1>6. revoked => closes \subseteq Authority!Heard(row)
  <2> HIDE DEF row, revoked
  <2> QED BY <1>5 DEF Authority!Heard, Authority!RevocationScope
<1>7. Lists'
  BY <1>1, <1>4 DEF LogInv, Lists
<1>8. LogNow' = Said(account_status, tokens', held, Open(offers), invites, open_signup)
  <2>1. Open(offers)' = Open(offers)
    BY <1>1 DEF Open, Authority!OfferRow
  <2> QED BY <1>1, <2>1 DEF LogNow
<1>9. Authority!Replay(LogNow, row) = LogNow'
  <2>1. CASE revoked
    <3>1. row.success = TRUE
      BY <1>5, <2>1
    <3>2. row.event = "token_revoke" /\ row.target = a /\ row.metadata = t
      BY <1>5
    <3>3. tokens' = [tokens EXCEPT ![a] = Authority!Without(tokens[a], {t})]
      BY <1>1
    <3> HIDE DEF row, revoked, kept, old
    <3>4. Authority!Replay(LogNow, row)
            = Said(account_status, [tokens EXCEPT ![a] = Authority!Without(tokens[a], {t})], held,
                   Open(offers), invites, open_signup)
      BY <3>1, <3>2 DEF Authority!Replay, Said, LogNow
    <3> HIDE DEF LogNow
    <3> QED BY <1>8, <3>3, <3>4
  <2>2. CASE ~revoked
    <3>1. \A x \in Authority!ToSet(old) : x \notin {t}
      BY <2>2
    <3>2. kept = old
      BY <1>3, <3>1, WithoutNothing
    <3>3. tokens' = tokens
      BY <1>1, <3>2 DEF LogInv, Lists
    <3>4. revoked = FALSE
      BY <2>2
    <3>5. LogNow' = LogNow
      BY <1>8, <3>3 DEF LogNow
    <3> HIDE DEF row, LogNow, revoked
    <3>6. row.success = FALSE
      BY <1>5, <3>4
    <3> QED BY <3>5, <3>6, SaysNothing
  <2> QED BY <2>1, <2>2
<1>10. Accounted(closes)
  <2>1. \A b \in People : tokens'[b] = IF b = a THEN kept ELSE tokens[b]
    BY <1>1 DEF LogInv, Lists
  <2>2. \A e \in Authority!ToSet(old) : e \in Authority!ToSet(kept) \/ <<"token", e>> \in closes
    BY <1>4
  <2> HIDE DEF closes, kept
  <2> QED BY <1>1, <2>1, <2>2 DEF Accounted, Authority!ToSet
<1>11. ~revoked => closes = {}
  OBVIOUS
<1> HIDE DEF row, closes, LogNow, revoked
<1>12. Answers(<<row>>, closes)
  BY <1>1, <1>6, <1>9, <1>10, <1>11, OneRowAnswers
<1> QED BY <1>7, <1>12 DEF Settled

-----------------------------------------------------------------------------
\* The open offers, when pending ones go or come.
LEMMA OpenIsAFunction ==
  ASSUME NEW p PROVE Open(p) = [o \in DOMAIN Open(p) |-> Open(p)[o]]
  BY DEF Open

LEMMA OpenWithout ==
  ASSUME NEW p, NEW gone
  PROVE  Open(Authority!WithoutOffers(p, gone)) = Authority!WithoutOffers(Open(p), gone)
<1> DEFINE q == Authority!WithoutOffers(p, gone)
<1>1. DOMAIN q = DOMAIN p \ gone /\ \A o \in DOMAIN p \ gone : q[o] = p[o]
  BY DEF Authority!WithoutOffers
<1> HIDE DEF q
<1>2. {o \in DOMAIN q : ~q[o].expire_audited} = {o \in DOMAIN p : ~p[o].expire_audited} \ gone
  BY <1>1
<1>3. Open(q) = [o \in {x \in DOMAIN p : ~p[x].expire_audited} \ gone |->
                   Authority!OfferRow(p[o].from, p[o].to, p[o].role)]
  BY <1>1, <1>2 DEF Open
<1> QED BY <1>3 DEF Open, Authority!WithoutOffers, q

LEMMA OpenWith ==
  ASSUME NEW p, NEW o, NEW from, NEW to, NEW role
  PROVE  Open(Authority!WithOffer(p, o, [from |-> from, to |-> to, role |-> role,
                                         valid |-> TRUE, expire_audited |-> FALSE]))
           = Authority!WithOffer(Open(p), o, Authority!OfferRow(from, to, role))
<1> DEFINE new == [from |-> from, to |-> to, role |-> role, valid |-> TRUE,
                   expire_audited |-> FALSE]
           q == Authority!WithOffer(p, o, new)
           D == {x \in DOMAIN p : ~p[x].expire_audited}
<1>1. /\ DOMAIN q = DOMAIN p \cup {o} /\ q[o] = new
      /\ \A x \in DOMAIN p \ {o} : q[x] = p[x]
  BY DEF Authority!WithOffer
<1>2. new.expire_audited = FALSE /\ new.from = from /\ new.to = to /\ new.role = role
  OBVIOUS
<1> HIDE DEF q, new
<1>3. {x \in DOMAIN q : ~q[x].expire_audited} = D \cup {o}
  BY <1>1, <1>2
<1>4. Open(q) = [x \in D \cup {o} |-> Authority!OfferRow(q[x].from, q[x].to, q[x].role)]
  BY <1>3 DEF Open
<1>5. \A x \in D \cup {o} :
        Authority!OfferRow(q[x].from, q[x].to, q[x].role)
          = IF x = o THEN Authority!OfferRow(from, to, role) ELSE Open(p)[x]
  BY <1>1, <1>2 DEF Open
<1>6. DOMAIN Open(p) = D
  BY DEF Open
<1>7. Open(q) = [x \in D \cup {o} |->
                   IF x = o THEN Authority!OfferRow(from, to, role) ELSE Open(p)[x]]
  BY <1>4, <1>5
<1> QED BY <1>6, <1>7 DEF Authority!WithOffer, q, new

LEMMA WithoutBoth ==
  ASSUME NEW p, NEW X, NEW Y
  PROVE  Authority!WithoutOffers(Authority!WithoutOffers(p, X), Y)
           = Authority!WithoutOffers(p, X \cup Y)
  BY DEF Authority!WithoutOffers

\* Offers that end leave finitely many.
LEMMA FewerOffers ==
  ASSUME LogInv, NEW gone, offers' = Authority!WithoutOffers(offers, gone)
  PROVE  IsFiniteSet(DOMAIN offers') /\ \A ids \in SUBSET DOMAIN offers : IsFiniteSet(ids)
<1>1. DOMAIN offers' \subseteq DOMAIN offers
  BY DEF Authority!WithoutOffers
<1> QED BY <1>1, FS_Subset DEF LogInv, Lists

\* Offers that end are told by a row, before or after others.
LEMMA SaysOffersGo ==
  ASSUME LogInv, NEW A, NEW T, NEW G, NEW O, O = [o \in DOMAIN O |-> O[o]],
         NEW ids \in SUBSET DOMAIN offers, NEW event \in Ends
  PROVE  /\ \E S : Authority!RowsOf(event, ids) \in Seq(S)
         /\ ReadsAs(Said(A, T, G, O, invites, open_signup), Authority!RowsOf(event, ids),
                    Said(A, T, G, Authority!WithoutOffers(O, ids), invites, open_signup))
<1>1. IsFiniteSet(ids)
  BY FS_Subset DEF LogInv, Lists
<1> QED BY <1>1, SaysOffersEnd

\* First some rows, then those of the offers that end.
LEMMA RowsThenOffers ==
  ASSUME LogInv, NEW R, NEW first \in Seq(R), NEW said, NEW A, NEW T, NEW G, NEW O,
         O = [o \in DOMAIN O |-> O[o]],
         NEW ids \in SUBSET DOMAIN offers, NEW event \in Ends,
         ReadsAs(said, first, Said(A, T, G, O, invites, open_signup))
  PROVE  /\ Len(first \o Authority!RowsOf(event, ids)) \in Nat
         /\ \A r \in Authority!ToSet(first) :
              r \in Authority!ToSet(first \o Authority!RowsOf(event, ids))
         /\ ReadsAs(said, first \o Authority!RowsOf(event, ids),
                    Said(A, T, G, Authority!WithoutOffers(O, ids), invites, open_signup))
<1> DEFINE mid == Said(A, T, G, O, invites, open_signup)
           end == Said(A, T, G, Authority!WithoutOffers(O, ids), invites, open_signup)
<1>1. PICK S, rows : rows = Authority!RowsOf(event, ids) /\ rows \in Seq(S)
                     /\ ReadsAs(mid, rows, end)
  BY SaysOffersGo
<1> HIDE DEF mid, end
<1> DEFINE U == R \cup S
<1>2. first \in Seq(U) /\ rows \in Seq(U)
  BY <1>1
<1> HIDE DEF U
<1>3. ReadsAs(said, first \o rows, end)
  BY <1>1, <1>2, ReadsOn DEF mid
<1>4. Len(first \o rows) \in Nat /\ DOMAIN first = 1..Len(first)
      /\ DOMAIN (first \o rows) = 1..Len(first \o rows)
      /\ \A i \in 1..Len(first) : i \in 1..Len(first \o rows) /\ (first \o rows)[i] = first[i]
  BY <1>2
<1>5. ASSUME NEW r \in Authority!ToSet(first)
      PROVE  r \in Authority!ToSet(first \o rows)
  BY <1>4 DEF Authority!ToSet
<1> QED BY <1>1, <1>3, <1>4, <1>5 DEF end

LEMMA OffersThenRows ==
  ASSUME LogInv, NEW R, NEW last \in Seq(R), NEW A, NEW T, NEW G, NEW O, NEW end,
         O = [o \in DOMAIN O |-> O[o]],
         NEW ids \in SUBSET DOMAIN offers, NEW event \in Ends,
         ReadsAs(Said(A, T, G, Authority!WithoutOffers(O, ids), invites, open_signup), last, end)
  PROVE  /\ Len(Authority!RowsOf(event, ids) \o last) \in Nat
         /\ \A r \in Authority!ToSet(last) :
              r \in Authority!ToSet(Authority!RowsOf(event, ids) \o last)
         /\ ReadsAs(Said(A, T, G, O, invites, open_signup),
                    Authority!RowsOf(event, ids) \o last, end)
<1> DEFINE said == Said(A, T, G, O, invites, open_signup)
           mid == Said(A, T, G, Authority!WithoutOffers(O, ids), invites, open_signup)
<1>1. PICK S, rows : rows = Authority!RowsOf(event, ids) /\ rows \in Seq(S)
                     /\ ReadsAs(said, rows, mid)
  BY SaysOffersGo
<1> HIDE DEF mid, said
<1> DEFINE U == R \cup S
<1>2. last \in Seq(U) /\ rows \in Seq(U)
  BY <1>1
<1> HIDE DEF U
<1>3. ReadsAs(said, rows \o last, end)
  BY <1>1, <1>2, ReadsOn DEF mid
<1>4. Len(rows \o last) \in Nat /\ DOMAIN last = 1..Len(last)
      /\ DOMAIN (rows \o last) = 1..Len(rows \o last)
      /\ \A i \in 1..Len(last) : Len(rows) + i \in 1..Len(rows \o last)
                                  /\ (rows \o last)[Len(rows) + i] = last[i]
  BY <1>2
<1>5. ASSUME NEW r \in Authority!ToSet(last)
      PROVE  r \in Authority!ToSet(rows \o last)
  BY <1>4 DEF Authority!ToSet
<1> QED BY <1>1, <1>3, <1>4, <1>5 DEF said

-----------------------------------------------------------------------------
LEMMA OfferCreateSettles ==
  ASSUME LogInv, NEW c \in Authority!Credentials, NEW to, NEW role, Authority!OfferCreate(c, to, role)
  PROVE  Settled
<1> DEFINE new == [from |-> c.account, to |-> to, role |-> role, valid |-> TRUE,
                   expire_audited |-> FALSE]
           it(o) == [id |-> o, offer |-> Authority!OfferRow(c.account, to, role)]
<1>1. CASE Authority!Refuse("role_grant_offer_create", to)
  BY <1>1, RefusedAnswers
<1>2. ASSUME NEW o,
             offers' = Authority!WithOffer(offers, o, new),
             UNCHANGED <<app_role, account_status, sessions, tokens, held, invites, open_signup>>,
             Authority!Answer(<<Authority!Row("role_grant_offer_create", to, it(o))>>, {})
      PROVE  Settled
  <2> DEFINE row == Authority!Row("role_grant_offer_create", to, it(o))
  <2>1. IsFiniteSet(DOMAIN offers')
    <3>1. DOMAIN offers' = DOMAIN offers \cup {o}
      BY <1>2 DEF Authority!WithOffer
    <3>2. IsFiniteSet(DOMAIN offers)
      BY DEF LogInv, Lists
    <3> QED BY <3>1, <3>2, FS_AddElement
  <2>2. Lists'
    BY <1>2, <2>1 DEF LogInv, Lists
  <2>3. LogNow' = Said(account_status, tokens, held, Open(offers'), invites, open_signup)
    BY <1>2 DEF LogNow, Open, Authority!OfferRow
  <2>4. Open(offers') = Authority!WithOffer(Open(offers), o, Authority!OfferRow(c.account, to, role))
    BY <1>2, OpenWith
  <2>5. it(o).id = o /\ it(o).offer = Authority!OfferRow(c.account, to, role)
    OBVIOUS
  <2> HIDE DEF it
  <2>6. Authority!Replay(LogNow, row) = LogNow'
    BY <2>3, <2>4, <2>5 DEF Authority!Replay, Authority!Row, Said, LogNow
  <2>7. Accounted({})
    BY <1>2, NothingTaken
  <2> HIDE DEF row, LogNow
  <2>8. Answers(<<row>>, {})
    BY <1>2, <2>6, <2>7, OneRowAnswers DEF row
  <2> QED BY <2>2, <2>8 DEF Settled
<1>3. QED
  BY <1>1, <1>2 DEF Authority!OfferCreate

\* An offer that is declined or retracted.
LEMMA OfferEndsSettles ==
  ASSUME LogInv, NEW c \in Authority!Credentials, NEW o \in DOMAIN offers,
         Authority!OfferDecline(c, o) \/ Authority!OfferRetract(c, o)
  PROVE  Settled
<1>1. PICK row :
        /\ \E event \in Ends : \E who : row = Authority!Row(event, who, o)
        /\ Authority!Answer(<<row>>, {})
        /\ offers' = Authority!WithoutOffers(offers, {o})
        /\ UNCHANGED <<app_role, account_status, sessions, tokens, held, invites, open_signup>>
  BY DEF Authority!OfferDecline, Authority!OfferRetract, Authority!End, Authority!Superseded, Ends
<1>2. Lists'
  BY <1>1, FewerOffers DEF LogInv, Lists
<1>3. LogNow' = Said(account_status, tokens, held, Open(offers'), invites, open_signup)
  BY <1>1 DEF LogNow, Open, Authority!OfferRow
<1>4. Open(offers') = Authority!WithoutOffers(Open(offers), {o})
  BY <1>1, OpenWithout
<1>5. Authority!Replay(LogNow, row) = LogNow'
  BY <1>1, <1>3, <1>4, SaysOneOfferEnds DEF LogNow
<1>6. Accounted({})
  BY <1>1, NothingTaken
<1> HIDE DEF LogNow
<1>7. Answers(<<row>>, {})
  BY <1>1, <1>5, <1>6, OneRowAnswers
<1> QED BY <1>2, <1>7 DEF Settled

LEMMA OfferAcceptSettles ==
  ASSUME LogInv, NEW c \in Authority!Credentials, NEW o \in DOMAIN offers,
         Authority!OfferAccept(c, o)
  PROVE  Settled
<1> DEFINE who == c.account
           role == offers[o].role
           siblings == Authority!Incoming(offers[o].to, role) \ {o}
           accept == Authority!Row("role_grant_offer_accept", who, o)
           create == Authority!Row("role_grant_create", who, role)
           first == <<accept, create>>
           rows == first \o Authority!RowsOf("role_grant_offer_supersede", siblings)
           O == Authority!WithoutOffers(Open(offers), {o})
<1>1. CASE Authority!Refuse("role_grant_offer_accept", c.account)
  BY <1>1, RefusedAnswers
<1>2. CASE /\ held' = held \cup {<<who, role>>}
           /\ offers' = Authority!Superseded(siblings \cup {o})
           /\ UNCHANGED <<app_role, account_status, sessions, tokens, invites, open_signup>>
           /\ Authority!Answer(rows, {})
  <2>1. siblings \in SUBSET DOMAIN offers
    BY DEF Authority!Incoming, Authority!PendingOffers
  <2>2. offers' = Authority!WithoutOffers(offers, {o} \cup siblings)
    <3>1. siblings \cup {o} = {o} \cup siblings
      OBVIOUS
    <3> QED BY <1>2, <3>1 DEF Authority!Superseded
  <2> HIDE DEF siblings, who, role
  <2>3. Lists'
    BY <1>2, <2>2, FewerOffers DEF LogInv, Lists
  <2>4. ReadsAs(LogNow, first,
                Said(account_status, tokens, held', O, invites, open_signup))
    <3> DEFINE mid == Said(account_status, tokens, held, O, invites, open_signup)
               end == Said(account_status, tokens, held', O, invites, open_signup)
    <3>1. Authority!Replay(LogNow, accept) = mid
      BY SaysOneOfferEnds DEF LogNow, Ends
    <3>2. Authority!Replay(mid, create) = end
      BY <1>2 DEF Authority!Replay, Authority!Row, Said
    <3> HIDE DEF mid, end, accept, create, LogNow
    <3>3. ReadsAs(LogNow, <<accept>>, mid) /\ ReadsAs(mid, <<create>>, end)
      BY <3>1, <3>2, ReadsOne
    <3>4. <<accept>> \o <<create>> = first
      BY OneThenAnother
    <3>5. <<accept>> \in Seq({accept, create}) /\ <<create>> \in Seq({accept, create})
      OBVIOUS
    <3>6. ReadsAs(LogNow, <<accept>> \o <<create>>, end)
      BY <3>3, <3>5, ReadsOn
    <3> QED BY <3>4, <3>6 DEF end
  <2>5. first \in Seq({accept, create})
    OBVIOUS
  <2>6. O = [x \in DOMAIN O |-> O[x]]
    BY DEF Authority!WithoutOffers
  <2> HIDE DEF first, LogNow, O
  <2>7. /\ Len(rows) \in Nat
        /\ ReadsAs(LogNow, rows, Said(account_status, tokens, held',
                                      Authority!WithoutOffers(O, siblings), invites, open_signup))
    BY <2>1, <2>4, <2>5, <2>6, RowsThenOffers DEF Ends
  <2>8. LogNow' = Said(account_status, tokens, held', Authority!WithoutOffers(O, siblings),
                       invites, open_signup)
    <3>1. Open(offers') = Authority!WithoutOffers(O, siblings)
      BY <2>2, OpenWithout, WithoutBoth DEF O
    <3>2. Open(offers)' = Open(offers')
      BY DEF Open, Authority!OfferRow
    <3> QED BY <1>2, <3>1, <3>2 DEF LogNow
  <2>9. Accounted({})
    BY <1>2, NothingTaken
  <2> HIDE DEF rows
  <2>10. Answers(rows, {})
    BY <1>2, <2>7, <2>8, <2>9 DEF Answers
  <2> QED BY <2>3, <2>10 DEF Settled
<1>3. QED
  BY <1>1, <1>2 DEF Authority!OfferAccept

\* A role that is taken back is heard where it opens connections.
LEMMA HeardOfRoles ==
  ASSUME NEW a, NEW role
  PROVE  Authority!Heard(Authority!Row("role_grant_revoke", a, role))
           = Authority!RoleConnections(a, role)
<1> DEFINE row == Authority!Row("role_grant_revoke", a, role)
<1>1. row.event = "role_grant_revoke" /\ row.success = TRUE /\ row.target = a /\ row.metadata = role
  BY DEF Authority!Row
<1> HIDE DEF row
<1>2. Authority!RevocationScope(row.event) = "role"
  BY <1>1 DEF Authority!RevocationScope
<1>3. Authority!Heard(row) = {<<"role", row.target, r>> : r \in {row.metadata} \cap Authority!GlobalRoles}
  BY <1>1, <1>2 DEF Authority!Heard
<1> QED BY <1>1, <1>3 DEF Authority!RoleConnections, row

\* A role that is taken back, with the offers that go with it.
LEMMA RoleEndsSettles ==
  ASSUME LogInv, NEW a, NEW role, NEW ids \in SUBSET DOMAIN offers,
         held' = held \ {<<a, role>>},
         offers' = Authority!Superseded(ids),
         UNCHANGED <<app_role, account_status, sessions, tokens, invites, open_signup>>,
         Authority!Answer(<<Authority!Row("role_grant_revoke", a, role)>>
                            \o Authority!RowsOf("role_grant_offer_supersede", ids),
                          Authority!RoleConnections(a, role))
  PROVE  Settled
<1> DEFINE revoke == Authority!Row("role_grant_revoke", a, role)
           rows == <<revoke>> \o Authority!RowsOf("role_grant_offer_supersede", ids)
           closes == Authority!RoleConnections(a, role)
<1>1. offers' = Authority!WithoutOffers(offers, ids)
  BY DEF Authority!Superseded
<1>2. Lists'
  BY <1>1, FewerOffers DEF LogInv, Lists
<1>3. ReadsAs(LogNow, <<revoke>>,
              Said(account_status, tokens, held', Open(offers), invites, open_signup))
  <2> DEFINE end == Said(account_status, tokens, held', Open(offers), invites, open_signup)
  <2>1. Authority!Replay(LogNow, revoke) = end
    BY DEF Authority!Replay, Authority!Row, Said, LogNow
  <2> HIDE DEF end, LogNow, revoke
  <2>2. ReadsAs(LogNow, <<revoke>>, end)
    BY <2>1, ReadsOne
  <2> QED BY <2>2 DEF end
<1>4. <<revoke>> \in Seq({revoke}) /\ revoke \in Authority!ToSet(<<revoke>>)
  BY DEF Authority!ToSet
<1>5. Open(offers) = [x \in DOMAIN Open(offers) |-> Open(offers)[x]]
  BY OpenIsAFunction
<1> HIDE DEF revoke
<1>6. /\ Len(rows) \in Nat /\ revoke \in Authority!ToSet(rows)
      /\ ReadsAs(LogNow, rows, Said(account_status, tokens, held',
                                    Authority!WithoutOffers(Open(offers), ids),
                                    invites, open_signup))
  <2> HIDE DEF LogNow
  <2> QED BY <1>3, <1>4, <1>5, RowsThenOffers DEF Ends
<1>7. LogNow' = Said(account_status, tokens, held', Authority!WithoutOffers(Open(offers), ids),
                     invites, open_signup)
  <2>1. Open(offers') = Authority!WithoutOffers(Open(offers), ids)
    BY <1>1, OpenWithout
  <2>2. Open(offers)' = Open(offers')
    BY DEF Open, Authority!OfferRow
  <2> QED BY <2>1, <2>2 DEF LogNow
<1>8. closes \subseteq Authority!Heard(revoke)
  BY HeardOfRoles DEF revoke
<1>9. Accounted(closes)
  <2>1. ASSUME NEW b \in People, NEW r \in Authority!GlobalRoles, <<b, r>> \in held
        PROVE  <<b, r>> \in held' \/ <<"role", b, r>> \in closes
    BY <2>1 DEF Authority!RoleConnections
  <2> HIDE DEF closes
  <2> QED BY <2>1 DEF Accounted, Authority!ToSet
<1>10. Authority!Answer(rows, closes)
  BY DEF revoke
<1> HIDE DEF rows, closes, LogNow
<1>11. Answers(rows, closes)
  BY <1>6, <1>7, <1>8, <1>9, <1>10 DEF Answers
<1> QED BY <1>2, <1>11 DEF Settled

\* A role that is given.
LEMMA RoleBeginsSettles ==
  ASSUME LogInv, NEW a, NEW role,
         held' = held \cup {<<a, role>>},
         UNCHANGED <<app_role, account_status, sessions, tokens, offers, invites, open_signup>>,
         Authority!Answer(<<Authority!Row("role_grant_create", a, role)>>, {})
  PROVE  Settled
<1> DEFINE row == Authority!Row("role_grant_create", a, role)
<1>1. Lists'
  BY DEF LogInv, Lists
<1>2. LogNow' = Said(account_status, tokens, held', Open(offers), invites, open_signup)
  <2>1. Open(offers)' = Open(offers)
    BY DEF Open, Authority!OfferRow
  <2> QED BY <2>1 DEF LogNow
<1>3. Authority!Replay(LogNow, row) = LogNow'
  BY <1>2 DEF Authority!Replay, Authority!Row, Said, LogNow
<1>4. Accounted({})
  BY NothingTaken
<1> HIDE DEF row, LogNow
<1>5. Answers(<<row>>, {})
  BY <1>3, <1>4, OneRowAnswers DEF row
<1> QED BY <1>1, <1>5 DEF Settled

LEMMA RolesSettle ==
  ASSUME LogInv, NEW c \in Authority!Credentials, NEW role,
         \/ \E enabled \in BOOLEAN : Authority!SelfServiceRoleSet(c, role, enabled)
         \/ \E a \in People : \/ Authority!RoleGrantRevoke(c, a, role)
                              \/ Authority!RoleGrantAssign(c, a, role)
  PROVE  Settled
<1>1. ASSUME NEW enabled \in BOOLEAN, Authority!SelfServiceRoleSet(c, role, enabled)
      PROVE  Settled
  <2>1. Authority!Incoming(c.account, role) \in SUBSET DOMAIN offers
    BY DEF Authority!Incoming, Authority!PendingOffers
  <2>2. CASE enabled
    BY <1>1, <2>2, RoleBeginsSettles DEF Authority!SelfServiceRoleSet
  <2>3. CASE ~enabled
    BY <1>1, <2>1, <2>3, RoleEndsSettles DEF Authority!SelfServiceRoleSet
  <2> QED BY <2>2, <2>3
<1>2. ASSUME NEW a \in People, Authority!RoleGrantRevoke(c, a, role)
      PROVE  Settled
  <2>1. Authority!Incoming(a, role) \cup Authority!Outgoing(a) \in SUBSET DOMAIN offers
    BY DEF Authority!Incoming, Authority!Outgoing, Authority!PendingOffers
  <2>2. CASE Authority!Refuse("role_grant_revoke", a)
    BY <2>2, RefusedAnswers
  <2>3. CASE ~Authority!Refuse("role_grant_revoke", a)
    BY <1>2, <2>1, <2>3, RoleEndsSettles DEF Authority!RoleGrantRevoke
  <2> QED BY <2>2, <2>3
<1>3. ASSUME NEW a \in People, Authority!RoleGrantAssign(c, a, role)
      PROVE  Settled
  <2>1. CASE Authority!Refuse("role_grant_create", a)
    BY <2>1, RefusedAnswers
  <2>2. CASE ~Authority!Refuse("role_grant_create", a)
    BY <1>3, <2>2, RoleBeginsSettles DEF Authority!RoleGrantAssign
  <2> QED BY <2>1, <2>2
<1> QED BY <1>1, <1>2, <1>3

-----------------------------------------------------------------------------
LEMMA LapseSettles ==
  ASSUME LogInv, NEW o \in DOMAIN offers, Authority!Lapse(o)
  PROVE  Settled
<1>1. /\ offers' = [offers EXCEPT ![o].valid = FALSE]
      /\ UNCHANGED <<app_role, account_status, sessions, tokens, held, invites, open_signup>>
      /\ Authority!Answer(<<>>, {})
  BY DEF Authority!Lapse
<1>2. offers \in [DOMAIN offers -> OfferRecords]
  BY DEF LogInv, AuthorityInv
<1>3. DOMAIN offers' = DOMAIN offers
  BY <1>1, <1>2
<1>4. ASSUME NEW x \in DOMAIN offers
      PROVE  /\ offers'[x].from = offers[x].from /\ offers'[x].to = offers[x].to
             /\ offers'[x].role = offers[x].role
             /\ offers'[x].expire_audited = offers[x].expire_audited
  <2>1. offers[x] \in OfferRecords
    BY <1>2
  <2>2. CASE x = o
    <3>1. offers'[x] = [offers[x] EXCEPT !.valid = FALSE]
      BY <1>1, <1>2, <2>2
    <3> QED BY <2>1, <3>1 DEF OfferRecords
  <2>3. CASE x # o
    BY <1>1, <1>2, <2>3
  <2> QED BY <2>2, <2>3
<1>5. Open(offers)' = Open(offers)
  <2> DEFINE D == {x \in DOMAIN offers : ~offers[x].expire_audited}
  <2>1. {x \in DOMAIN offers' : ~offers'[x].expire_audited} = D
    BY <1>3, <1>4
  <2>2. Open(offers)' = [x \in D |-> Authority!OfferRow(offers'[x].from, offers'[x].to, offers'[x].role)]
    BY <2>1 DEF Open, Authority!OfferRow
  <2>3. \A x \in D : Authority!OfferRow(offers'[x].from, offers'[x].to, offers'[x].role)
                       = Authority!OfferRow(offers[x].from, offers[x].to, offers[x].role)
    BY <1>4
  <2> QED BY <2>2, <2>3 DEF Open
<1>6. Lists'
  BY <1>1, <1>3 DEF LogInv, Lists
<1>7. LogNow' = LogNow
  BY <1>1, <1>5 DEF LogNow
<1>8. Accounted({})
  BY <1>1, NothingTaken
<1>9. Len(<<>>) \in Nat
  OBVIOUS
<1> HIDE DEF LogNow
<1>10. ReadsAs(LogNow, <<>>, LogNow')
  BY <1>7, ReadsNothing
<1>11. Answers(<<>>, {})
  BY <1>1, <1>8, <1>9, <1>10 DEF Answers
<1> QED BY <1>6, <1>11 DEF Settled

LEMMA SweepSettles ==
  ASSUME LogInv, Authority!SweepOffers
  PROVE  Settled
<1> DEFINE lapsed == {o \in DOMAIN offers : ~offers[o].valid /\ ~offers[o].expire_audited}
           rows == Authority!RowsOf("role_grant_offer_expire", lapsed)
<1>1. /\ offers' = [o \in DOMAIN offers |->
                      [offers[o] EXCEPT !.expire_audited = @ \/ o \in lapsed]]
      /\ UNCHANGED <<app_role, account_status, sessions, tokens, held, invites, open_signup>>
      /\ Authority!Answer(rows, {})
  BY DEF Authority!SweepOffers, Authority!PendingOffers
<1>2. offers \in [DOMAIN offers -> OfferRecords]
  BY DEF LogInv, AuthorityInv
<1>3. lapsed \in SUBSET DOMAIN offers
  OBVIOUS
<1> HIDE DEF lapsed
<1>4. DOMAIN offers' = DOMAIN offers
  BY <1>1
<1>5. ASSUME NEW x \in DOMAIN offers
      PROVE  /\ offers'[x].from = offers[x].from /\ offers'[x].to = offers[x].to
             /\ offers'[x].role = offers[x].role
             /\ offers'[x].expire_audited <=> (offers[x].expire_audited \/ x \in lapsed)
  <2>1. offers[x] \in OfferRecords
    BY <1>2
  <2>2. offers'[x] = [offers[x] EXCEPT !.expire_audited = @ \/ x \in lapsed]
    BY <1>1
  <2> QED BY <2>1, <2>2 DEF OfferRecords
<1>6. Open(offers)' = Authority!WithoutOffers(Open(offers), lapsed)
  <2> DEFINE D == {x \in DOMAIN offers : ~offers[x].expire_audited} \ lapsed
  <2>1. {x \in DOMAIN offers' : ~offers'[x].expire_audited} = D
    BY <1>4, <1>5
  <2>2. Open(offers)' = [x \in D |-> Authority!OfferRow(offers'[x].from, offers'[x].to, offers'[x].role)]
    BY <2>1 DEF Open, Authority!OfferRow
  <2>3. \A x \in D : Authority!OfferRow(offers'[x].from, offers'[x].to, offers'[x].role)
                       = Authority!OfferRow(offers[x].from, offers[x].to, offers[x].role)
    BY <1>5
  <2>4. Open(offers)' = [x \in D |-> Authority!OfferRow(offers[x].from, offers[x].to, offers[x].role)]
    BY <2>2, <2>3
  <2> QED BY <2>4 DEF Open, Authority!WithoutOffers
<1>7. Lists'
  BY <1>1, <1>4 DEF LogInv, Lists
<1>8. Open(offers) = [x \in DOMAIN Open(offers) |-> Open(offers)[x]]
  BY OpenIsAFunction
<1>9. PICK S : rows \in Seq(S)
  BY <1>3, <1>8, SaysOffersGo DEF Ends
<1>10. ReadsAs(LogNow, rows, LogNow')
  <2>1. LogNow' = Said(account_status, tokens, held,
                       Authority!WithoutOffers(Open(offers), lapsed), invites, open_signup)
    BY <1>1, <1>6 DEF LogNow
  <2> QED BY <1>3, <1>8, <2>1, SaysOffersGo DEF Ends, LogNow
<1>11. Accounted({})
  BY <1>1, NothingTaken
<1> HIDE DEF rows, LogNow
<1>12. Len(rows) \in Nat
  BY <1>9
<1>13. Answers(rows, {})
  BY <1>1, <1>10, <1>11, <1>12 DEF Answers
<1> QED BY <1>7, <1>13 DEF Settled

\* An account goes: with its credentials, with the offers that it made, and with all that
\* is left of it when it goes for good.
LEMMA AccountEndsSettles ==
  ASSUME LogInv, NEW a \in People, NEW event \in {"account_delete", "account_purge"},
         NEW also, also \notin Tells,
         NEW ids \in SUBSET DOMAIN offers, offers' = Authority!WithoutOffers(offers, ids),
         sessions' = [sessions EXCEPT ![a] = <<>>], tokens' = [tokens EXCEPT ![a] = <<>>],
         \A b \in People \ {a} : account_status'[b] = account_status[b],
         \A b \in People \ {a} : \A r : <<b, r>> \in held => <<b, r>> \in held',
         UNCHANGED <<app_role, invites, open_signup>>,
         Authority!Replay(Said(account_status, tokens, held,
                               Authority!WithoutOffers(Open(offers), Authority!Outgoing(a)),
                               invites, open_signup),
                          Authority!Row(event, a, Unset))
           = Said(account_status', tokens', held', Authority!WithoutOffers(Open(offers), ids),
                  invites, open_signup),
         Authority!Answer(Authority!RowsOf("role_grant_offer_supersede", Authority!Outgoing(a))
                            \o <<Authority!Row(event, a, Unset), Authority!Row(also, a, Unset)>>,
                          {<<"account", a>>})
  PROVE  Settled
<1> DEFINE row == Authority!Row(event, a, Unset)
           actor == Authority!Row(also, a, Unset)
           last == <<row, actor>>
           going == Authority!Outgoing(a)
           rows == Authority!RowsOf("role_grant_offer_supersede", going) \o last
           mid == Said(account_status, tokens, held,
                       Authority!WithoutOffers(Open(offers), going), invites, open_signup)
           end == Said(account_status', tokens', held',
                       Authority!WithoutOffers(Open(offers), ids), invites, open_signup)
<1>1. /\ sessions \in [People -> Seq(SessionIds)] /\ tokens \in [People -> Seq(TokenIds)]
      /\ <<>> \in Seq(SessionIds) /\ <<>> \in Seq(TokenIds)
  BY DEF LogInv, Lists
<1>2. /\ sessions' \in [People -> Seq(SessionIds)] /\ tokens' \in [People -> Seq(TokenIds)]
      /\ \A b \in People \ {a} : sessions'[b] = sessions[b] /\ tokens'[b] = tokens[b]
  BY <1>1, ListsOfOne
<1>3. Lists'
  BY <1>2, FewerOffers DEF LogInv, Lists
<1>4. LogNow' = end
  <2>1. Open(offers') = Authority!WithoutOffers(Open(offers), ids)
    BY OpenWithout
  <2>2. Open(offers)' = Open(offers')
    BY DEF Open, Authority!OfferRow
  <2> QED BY <2>1, <2>2 DEF LogNow
<1>5. ReadsAs(mid, last, end)
  <2>1. Authority!Replay(mid, row) = end
    OBVIOUS
  <2>2. actor.event = also
    BY DEF Authority!Row
  <2> HIDE DEF mid, end, row, actor
  <2>3. Authority!Replay(end, actor) = end
    BY <2>2, SaysNothing
  <2>4. ReadsAs(mid, <<row>>, end) /\ ReadsAs(end, <<actor>>, end)
    <3>1. ReadsAs(mid, <<row>>, Authority!Replay(mid, row))
          /\ ReadsAs(end, <<actor>>, Authority!Replay(end, actor))
      BY ReadsOne
    <3> QED BY <2>1, <2>3, <3>1
  <2>5. <<row>> \in Seq({row, actor}) /\ <<actor>> \in Seq({row, actor})
        /\ <<row>> \o <<actor>> = last
    BY OneThenAnother
  <2>6. ReadsAs(mid, <<row>> \o <<actor>>, end)
    BY <2>4, <2>5, ReadsOn
  <2> QED BY <2>5, <2>6
<1>6. going \in SUBSET DOMAIN offers
  BY DEF Authority!Outgoing, Authority!PendingOffers
<1>7. Open(offers) = [x \in DOMAIN Open(offers) |-> Open(offers)[x]]
  BY OpenIsAFunction
<1>8. last \in Seq({row, actor}) /\ row \in Authority!ToSet(last)
  BY DEF Authority!ToSet
<1> HIDE DEF going, last, row
<1>9. Len(rows) \in Nat /\ row \in Authority!ToSet(rows) /\ ReadsAs(LogNow, rows, end)
  <2> HIDE DEF end
  <2>1. /\ Len(rows) \in Nat
        /\ \A r \in Authority!ToSet(last) : r \in Authority!ToSet(rows)
        /\ ReadsAs(Said(account_status, tokens, held, Open(offers), invites, open_signup), rows, end)
    BY <1>5, <1>6, <1>7, <1>8, OffersThenRows DEF Ends
  <2> QED BY <1>8, <2>1 DEF LogNow
<1>10. {<<"account", a>>} \subseteq Authority!Heard(row)
  BY HeardOfAccounts DEF row
<1>11. Accounted({<<"account", a>>})
  BY <1>2, AllOfOneAccount
<1>12. Authority!Answer(rows, {<<"account", a>>})
  BY DEF row, last, going
<1> HIDE DEF rows, LogNow, end
<1>13. Answers(rows, {<<"account", a>>})
  BY <1>4, <1>9, <1>10, <1>11, <1>12 DEF Answers
<1> QED BY <1>3, <1>13 DEF Settled

LEMMA AccountDeleteSettles ==
  ASSUME LogInv, NEW c \in Authority!Credentials, NEW a \in People, Authority!AccountDelete(c, a)
  PROVE  Settled
<1> DEFINE going == Authority!Outgoing(a)
           O == Authority!WithoutOffers(Open(offers), going)
<1>1. CASE Authority!Refuse("account_delete", a)
  BY <1>1, RefusedAnswers
<1>2. CASE ~Authority!Refuse("account_delete", a)
  <2>1. /\ account_status' = [account_status EXCEPT ![a] = "deleted"]
        /\ Authority!EndCredentials(a)
        /\ offers' = Authority!Superseded(going)
        /\ UNCHANGED <<app_role, held, invites, open_signup>>
        /\ Authority!Answer(Authority!RowsOf("role_grant_offer_supersede", going)
                              \o <<Authority!Row("account_delete", a, Unset),
                                   Authority!Row("actor_delete", a, Unset)>>,
                            {<<"account", a>>})
    BY <1>2 DEF Authority!AccountDelete
  <2>2. /\ sessions' = [sessions EXCEPT ![a] = <<>>] /\ tokens' = [tokens EXCEPT ![a] = <<>>]
        /\ offers' = Authority!WithoutOffers(offers, going)
    BY <2>1 DEF Authority!EndCredentials, Authority!Superseded
  <2>3. \A b \in People \ {a} : account_status'[b] = account_status[b]
    BY <2>1 DEF LogInv, AuthorityInv, OfOnePerson
  <2>4. Authority!Replay(Said(account_status, tokens, held, O, invites, open_signup),
                         Authority!Row("account_delete", a, Unset))
          = Said(account_status', tokens', held', O, invites, open_signup)
    <3> HIDE DEF O
    <3> QED BY <2>1, <2>2 DEF Authority!Replay, Authority!Row, Said
  <2>5. going \in SUBSET DOMAIN offers
    BY DEF Authority!Outgoing, Authority!PendingOffers
  <2>6. "actor_delete" \notin Tells
    BY DEF Tells, Ends
  <2> QED BY <2>1, <2>2, <2>3, <2>4, <2>5, <2>6, AccountEndsSettles
<1> QED BY <1>1, <1>2

LEMMA AccountPurgeSettles ==
  ASSUME LogInv, NEW c \in Authority!Credentials, NEW a \in People, Authority!AccountPurge(c, a)
  PROVE  Settled
<1> DEFINE going == Authority!Outgoing(a)
           all == Authority!OffersOf(offers, a)
           O == Authority!WithoutOffers(Open(offers), going)
<1>1. CASE Authority!Refuse("account_purge", a)
  BY <1>1, RefusedAnswers
<1>2. CASE ~Authority!Refuse("account_purge", a)
  <2>1. /\ account_status' = [account_status EXCEPT ![a] = "none"]
        /\ Authority!EndCredentials(a)
        /\ held' = {g \in held : g[1] # a}
        /\ offers' = Authority!WithoutOffers(offers, all)
        /\ UNCHANGED <<app_role, invites, open_signup>>
        /\ Authority!Answer(Authority!RowsOf("role_grant_offer_supersede", going)
                              \o <<Authority!Row("account_purge", a, Unset),
                                   Authority!Row("actor_purge", a, Unset)>>,
                            {<<"account", a>>})
    BY <1>2 DEF Authority!AccountPurge
  <2>2. sessions' = [sessions EXCEPT ![a] = <<>>] /\ tokens' = [tokens EXCEPT ![a] = <<>>]
    BY <2>1 DEF Authority!EndCredentials
  <2>3. \A b \in People \ {a} : account_status'[b] = account_status[b]
    BY <2>1 DEF LogInv, AuthorityInv, OfOnePerson
  <2>4. \A b \in People \ {a} : \A r : <<b, r>> \in held => <<b, r>> \in held'
    BY <2>1
  <2>5. Authority!WithoutOffers(O, Authority!OffersOf(O, a))
          = Authority!WithoutOffers(Open(offers), all)
    <3> DEFINE D == {x \in DOMAIN offers : ~offers[x].expire_audited}
    <3>1. DOMAIN Open(offers) = D
          /\ \A x \in D : Open(offers)[x].from = offers[x].from /\ Open(offers)[x].to = offers[x].to
      BY DEF Open, Authority!OfferRow
    <3>2. DOMAIN O = D \ going /\ \A x \in D \ going : O[x] = Open(offers)[x]
      BY <3>1 DEF Authority!WithoutOffers
    <3>3. \A x \in D : x \in all <=> (a = offers[x].from \/ a = offers[x].to)
      BY DEF Authority!OffersOf
    <3>4. \A x \in D : x \in going <=> offers[x].from = a
      BY DEF Authority!Outgoing, Authority!PendingOffers
    <3> HIDE DEF O, D, all, going
    <3>5. \A x \in D \ going : x \in Authority!OffersOf(O, a) <=> x \in all
      BY <3>1, <3>2, <3>3 DEF Authority!OffersOf
    <3>6. DOMAIN O \ Authority!OffersOf(O, a) = D \ all
      BY <3>2, <3>3, <3>4, <3>5
    <3>7. \A x \in D \ all : O[x] = Open(offers)[x]
      BY <3>2, <3>3, <3>4
    <3> QED BY <3>1, <3>6, <3>7 DEF Authority!WithoutOffers
  <2>6. Authority!Replay(Said(account_status, tokens, held, O, invites, open_signup),
                         Authority!Row("account_purge", a, Unset))
          = Said(account_status', tokens', held', Authority!WithoutOffers(Open(offers), all),
                 invites, open_signup)
    <3> HIDE DEF O
    <3> QED BY <2>1, <2>2, <2>5 DEF Authority!Replay, Authority!Row, Said
  <2>7. all \in SUBSET DOMAIN offers
    BY DEF Authority!OffersOf
  <2>8. "actor_purge" \notin Tells
    BY DEF Tells, Ends
  <2> HIDE DEF all
  <2> QED BY <2>1, <2>2, <2>3, <2>4, <2>6, <2>7, <2>8, AccountEndsSettles
<1> QED BY <1>1, <1>2

LEMMA AccountUndeleteSettles ==
  ASSUME LogInv, NEW c \in Authority!Credentials, NEW a \in People, Authority!AccountUndelete(c, a)
  PROVE  Settled
<1> DEFINE row == Authority!Row("account_undelete", a, Unset)
           actor == Authority!Row("actor_undelete", a, Unset)
           rows == <<row, actor>>
<1>1. CASE Authority!Refuse("account_undelete", a)
  BY <1>1, RefusedAnswers
<1>2. CASE ~Authority!Refuse("account_undelete", a)
  <2>1. /\ account_status[a] = "deleted"
        /\ account_status' = [account_status EXCEPT ![a] = "active"]
        /\ UNCHANGED <<app_role, sessions, tokens, held, offers, invites, open_signup>>
        /\ Authority!Answer(rows, {})
    BY <1>2 DEF Authority!AccountUndelete
  <2>2. Lists'
    BY <2>1 DEF LogInv, Lists
  <2>3. LogNow' = Said(account_status', tokens, held, Open(offers), invites, open_signup)
    <3>1. Open(offers)' = Open(offers)
      BY <2>1 DEF Open, Authority!OfferRow
    <3> QED BY <2>1, <3>1 DEF LogNow
  <2>4. Authority!Replay(LogNow, row) = LogNow'
    BY <2>1, <2>3 DEF Authority!Replay, Authority!Row, Said, LogNow
  <2>5. actor.event = "actor_undelete" /\ "actor_undelete" \notin Tells
    BY DEF Authority!Row, Tells, Ends
  <2>6. \A b \in People : account_status[b] = "active" => account_status'[b] = "active"
    BY <2>1 DEF LogInv, AuthorityInv, OfOnePerson
  <2>7. Accounted({})
    BY <2>1, <2>6, NothingTaken
  <2> HIDE DEF LogNow, row, actor
  <2>8. ReadsAs(LogNow, rows, LogNow')
    <3> DEFINE end == LogNow'
    <3>1. Authority!Replay(LogNow, row) = end
      BY <2>4
    <3> HIDE DEF end
    <3>2. Authority!Replay(end, actor) = end
      BY <2>5, SaysNothing
    <3>3. ReadsAs(LogNow, <<row>>, end) /\ ReadsAs(end, <<actor>>, end)
      <4>1. ReadsAs(LogNow, <<row>>, Authority!Replay(LogNow, row))
            /\ ReadsAs(end, <<actor>>, Authority!Replay(end, actor))
        BY ReadsOne
      <4> QED BY <3>1, <3>2, <4>1
    <3>4. <<row>> \in Seq({row, actor}) /\ <<actor>> \in Seq({row, actor})
          /\ <<row>> \o <<actor>> = rows
      BY OneThenAnother
    <3>5. ReadsAs(LogNow, <<row>> \o <<actor>>, end)
      BY <3>3, <3>4, ReadsOn
    <3> QED BY <3>4, <3>5 DEF end
  <2>9. Len(rows) \in Nat
    OBVIOUS
  <2> HIDE DEF rows
  <2>10. Answers(rows, {})
    BY <2>1, <2>7, <2>8, <2>9 DEF Answers
  <2> QED BY <2>2, <2>10 DEF Settled
<1> QED BY <1>1, <1>2

-----------------------------------------------------------------------------
LEMMA RequestsSettle ==
  ASSUME LogInv, NEW c \in Authority!Credentials, Authority!ByCredential(c)
  PROVE  Settled
<1>1. CASE \/ \E i \in [id : InviteIds, for : People] : Authority!InviteCreate(c, i)
           \/ \E id \in InviteIds : Authority!InviteDelete(c, id)
           \/ \E new_value \in BOOLEAN : Authority!AppSettingsUpdate(c, new_value)
  BY <1>1, InvitesAndSettingsSettle
<1>2. CASE \/ Authority!Logout(c) \/ Authority!PasswordChange(c) \/ Authority!SessionRevokeAll(c)
           \/ \E a \in People : \/ Authority!AdminSessionRevokeAll(c, a)
                                \/ Authority!AdminTokenRevokeAll(c, a)
  BY <1>2, CredentialsEndSettles
<1>3. CASE \E s : Authority!SessionRevoke(c, s)
  BY <1>3, SessionRevokeSettles
<1>4. CASE \E t \in TokenIds : Authority!TokenCreate(c, t)
  BY <1>4, TokenCreateSettles
<1>5. CASE \E t : Authority!TokenRevoke(c, t)
  BY <1>5, TokenRevokeSettles
<1>6. CASE \E o \in DOMAIN offers :
             \/ Authority!OfferAccept(c, o) \/ Authority!OfferDecline(c, o)
             \/ Authority!OfferRetract(c, o)
  BY <1>6, OfferAcceptSettles, OfferEndsSettles
<1>7. CASE \E role : \/ \E enabled \in BOOLEAN : Authority!SelfServiceRoleSet(c, role, enabled)
                     \/ \E a \in People : \/ Authority!RoleGrantRevoke(c, a, role)
                                          \/ Authority!RoleGrantAssign(c, a, role)
  BY <1>7, RolesSettle
<1>8. CASE \E a \in People : \E role : Authority!OfferCreate(c, a, role)
  BY <1>8, OfferCreateSettles
<1>9. CASE \E a \in People : \/ Authority!AccountDelete(c, a) \/ Authority!AccountPurge(c, a)
                             \/ Authority!AccountUndelete(c, a)
  BY <1>9, AccountDeleteSettles, AccountPurgeSettles, AccountUndeleteSettles
<1>10. QED
  BY <1>1, <1>2, <1>3, <1>4, <1>5, <1>6, <1>7, <1>8, <1>9
  DEF Authority!ByCredential, Authority!PendingOffers

LEMMA EveryStepSettles ==
  ASSUME LogInv, Authority!AuthorityNext
  PROVE  Settled
<1>1. ASSUME NEW c \in Authority!Credentials, Authority!ByCredential(c)
      PROVE  Settled
  BY <1>1, RequestsSettle
<1>2. ASSUME NEW s \in SessionIds, \/ Authority!Bootstrap(s)
                                   \/ \E a \in People : Authority!Signup(a, s) \/ Authority!Login(a, s)
      PROVE  Settled
  BY <1>2, BootstrapSettles, SignupSettles, LoginSettles
<1>3. ASSUME NEW o \in DOMAIN offers, Authority!Lapse(o)
      PROVE  Settled
  BY <1>3, LapseSettles
<1>4. QED
  BY <1>1, <1>2, <1>3, SweepSettles DEF Authority!AuthorityNext

\* The audit log tells all authority: whoever replays its rows, in any sequence of requests
\* whatever, knows the accounts, the tokens, the roles, the open offers, the invites and
\* whether signup is open; and what a request takes away is closed, by what it queued and
\* by whoever hears its rows (the handlers of auth/*_actions.ts and account_routes.ts, and
\* REVOCATION_EVENT_TYPES).
THEOREM LogTellsAndCloses == AuthorityParts => []TheLogTellsAndCloses
<1>1. PartsInit => LogInv
  <2> SUFFICES ASSUME PartsInit PROVE LogInv
    OBVIOUS
  <2>1. AuthorityInv
    BY AuthorityBegins
  <2>2. Authority!AuthorityInit
    BY DEF PartsInit
  <2>3. offers = <<>> /\ DOMAIN offers = {} /\ IsFiniteSet({})
    BY <2>2, FS_EmptySet DEF Authority!AuthorityInit
  <2>4. Lists
    <3>1. <<>> \in Seq(SessionIds) /\ <<>> \in Seq(TokenIds)
      OBVIOUS
    <3> QED BY <2>2, <2>3, <3>1 DEF Authority!AuthorityInit, Lists
  <2>5. Open(offers) = <<>>
    BY <2>3 DEF Open
  <2>6. log = LogNow
    BY <2>2, <2>5 DEF Authority!AuthorityInit, Authority!Nothing, LogNow, Said
  <2> QED BY <2>1, <2>2, <2>4, <2>6 DEF LogInv, Authority!AuthorityInit
<1>2. LogInv /\ [PartsNext]_parts_vars => LogInv'
  <2> SUFFICES ASSUME LogInv, [PartsNext]_parts_vars
               PROVE  LogInv'
    OBVIOUS
  <2>1. CASE Authority!AuthorityNext
    <3>1. AuthorityInv'
      BY <2>1, EveryStepConforms DEF LogInv
    <3>2. PICK rows, closes : Answers(rows, closes)
      BY <2>1, EveryStepSettles DEF Settled
    <3>3. Lists'
      BY <2>1, EveryStepSettles DEF Settled
    <3>4. /\ log' = LogNow'
          /\ entitled_connections' \subseteq Authority!Entitled'
          /\ entitled_streams' \subseteq Authority!Entitled'
      BY <3>2, AnswersHold
    <3> QED BY <3>1, <3>3, <3>4 DEF LogInv
  <2>2. CASE UNCHANGED authority_vars
    <3>1. AuthorityInv'
      BY <2>2, AuthorityStays DEF LogInv
    <3>2. Lists' /\ LogNow' = LogNow
      BY <2>2 DEF authority_vars, LogInv, Lists, LogNow, Open, Authority!OfferRow
    <3>3. Authority!Entitled' = Authority!Entitled
      BY <2>2 DEF authority_vars, Authority!Entitled, Authority!Active, Authority!Holds,
                  Authority!ToSet, Authority!GlobalRoles, Authority!AllRoles
    <3> QED BY <2>2, <3>1, <3>2, <3>3 DEF authority_vars, LogInv
  <2>3. QED
    BY <2>1, <2>2 DEF PartsNext, parts_vars
<1>3. LogInv => TheLogTellsAndCloses
  BY DEF LogInv, LogNow, Said, Open, TheLogTellsAndCloses, Authority!TheLogTellsAuthority,
         Authority!WhatEndsIsClosed, Authority!PendingOffers
<1>4. QED
  BY <1>1, <1>2, <1>3, PTL DEF AuthorityParts
==============================================================================
