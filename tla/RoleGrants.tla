----------------------------- MODULE RoleGrants -----------------------------
(***************************************************************************)
(* Role grants and the offers that lead to them: role_grant_queries.ts,    *)
(* role_grant_offer_queries.ts and the handlers that call them.            *)
(*                                                                         *)
(* Every mutating handler runs in one READ COMMITTED transaction, so a     *)
(* step here is one statement.  A statement sees what has committed when   *)
(* it starts; a row it writes or locks may be held by another transaction, *)
(* and then it waits, reads the row again and keeps it only if it still    *)
(* qualifies.  What a transaction writes is seen by nobody before its      *)
(* commit.  PostgreSQL ends a circle of waiting transactions by failing    *)
(* one of them (Victim).  The share locks that foreign keys take are left  *)
(* out: they make a statement wait, and nothing more.                      *)
(*                                                                         *)
(* An account has one actor here, and a "role" is a role with its scope.   *)
(* Role and account ids of requests come from the caller; the authority of *)
(* a request is read before its transaction begins, and may be gone by the *)
(* time it is used.                                                        *)
(***************************************************************************)
EXTENDS Naturals, FiniteSets

CONSTANTS
    Accounts,
    Admin,              \* the global admin role
    AppRoles,           \* roles an app declares, grantable by admins
    SelfServiceRoles,   \* those a user may take and give up alone
    ScopedRoles,        \* those bound to a scope, revoked when it goes
    Founders,           \* the accounts that hold admin at first
    Keepers,            \* those of them that hold keeper
    Requests,           \* transactions, each used for one request
    OfferIds,
    None

ASSUME GrantsAssumption ==
    /\ Admin \notin AppRoles
    /\ SelfServiceRoles \subseteq AppRoles \ ScopedRoles
    /\ ScopedRoles \subseteq AppRoles
    /\ Keepers \subseteq Founders
    /\ Founders \subseteq Accounts
    /\ Founders # {}
    /\ IsFiniteSet(Accounts)
    /\ OfferIds \subseteq Nat

VARIABLES
    account,        \* "active" or "deleted": the tombstones of account and actor
    grant,          \* the id of the unrevoked grant of an account and role, or 0
    offer,          \* the committed offers, by id
    next_grant,     \* ids of grants, which a rollback does not give back
    tx,             \* the transactions
    ended,          \* history: offers that a committed transaction had to end
    unguarded       \* history: an active admin was removed and nothing counted

grant_vars == <<account, grant, offer, next_grant, tx, ended, unguarded>>

Roles == {Admin} \cup AppRoles

\* What a transaction may hold: an offer, a grant, or an account with its actor.
OfferRow(o) == <<"offer", o>>
GrantRow(a, r) == <<"grant", a, r>>
AccountRow(a) == <<"account", a>>

\* A request and its locals, what its statements have found and locked, what its
\* transaction has written so far, and, for the properties, what it must end.
Idle ==
    [pc |-> "idle", kind |-> "none", by |-> None, to |-> None, role |-> None,
     offer |-> None, id |-> 0, skipped |-> FALSE, next |-> "commit",
     offers |-> {}, grants |-> {}, locks |-> {}, shares |-> {},
     sent |-> {}, accepted |-> {}, superseded |-> {},
     minted |-> 0, revoked |-> {}, deleted |-> {},
     doomed |-> {}]

Done == [Idle EXCEPT !.pc = "done"]

\* query_grantor_holds_global_admin, has_scoped_role and the join of the guards:
\* an unrevoked grant, on an actor and an account that are not deleted.
HoldsAdmin(a) == account[a] = "active" /\ grant[a, Admin] # 0

Pending == {o \in DOMAIN offer : offer[o].status = "pending"}

Incoming(a, r) == {o \in Pending : offer[o].to = a /\ offer[o].role = r}

Outgoing(a) == {o \in Pending : offer[o].from = a}

NewOffer(from, to, r) ==
    [from |-> from, to |-> to, role |-> r, status |-> "pending"]

Tombstoned(gone) == [a \in Accounts |-> IF a \in gone THEN "deleted" ELSE "active"]

\* A deployment that has run for a while: the founders are its admins, one
\* of them may have been deleted, and some of their offers are unanswered.
GrantsInit ==
    /\ \E gone \in SUBSET Founders :
        /\ gone # Founders
        /\ Cardinality(gone) <= 1
        /\ account = Tombstoned(gone)
    /\ grant = [s \in Accounts \X Roles |-> IF s \in Founders \X {Admin} THEN 1 ELSE 0]
    /\ \E sent \in SUBSET OfferIds :
        offer \in [sent -> {NewOffer(f, a, r) :
                                f \in Founders, a \in Accounts \ Founders, r \in Roles}]
    /\ \A o, p \in DOMAIN offer : offer[o] = offer[p] => o = p
    /\ \A o \in DOMAIN offer : account[offer[o].from] = "active"
    /\ next_grant = 2
    /\ tx = [t \in Requests |-> Idle]
    /\ ended = {}
    /\ unguarded = FALSE

------------------------------------------------------------------------------
(***************************************************************************)
(* Transactions.                                                           *)
(***************************************************************************)

\* What the statement at hand must lock for itself: the row of an UPDATE, of an
\* ON CONFLICT DO UPDATE, or the rows a FOR UPDATE or a wide UPDATE has found.
Needs(t) ==
    CASE tx[t].pc = "claim"     -> {OfferRow(tx[t].offer)}
      [] tx[t].pc = "upsert"    -> {OfferRow(o) : o \in
                                        Incoming(tx[t].to, tx[t].role) \cap Outgoing(tx[t].by)}
      [] tx[t].pc = "revoke"    -> {GrantRow(tx[t].to, tx[t].role)}
      [] tx[t].pc = "tombstone" -> {AccountRow(tx[t].to)}
      [] tx[t].pc = "counted"   -> {GrantRow(g[1], Admin) : g \in tx[t].grants}
                                       \cup {AccountRow(g[1]) : g \in tx[t].grants}
      [] tx[t].pc = "supersede" -> {OfferRow(o) : o \in tx[t].offers}
      [] tx[t].pc = "destroy"   -> {GrantRow(g[1], tx[t].role) : g \in tx[t].grants}
      [] OTHER                  -> {}

\* The grants that a transaction has written.
WrittenGrants(u) ==
    tx[u].revoked \cup (IF tx[u].minted = 0 THEN {} ELSE {<<tx[u].to, tx[u].role>>})

\* The transactions a statement waits for.  A FOR SHARE waits for a lock alone.
\* An INSERT waits for one that has changed or inserted a row with the same key.
Blockers(t) ==
    {u \in Requests \ {t} :
        \/ Needs(t) \cap (tx[u].locks \cup tx[u].shares) # {}
        \/ /\ tx[t].pc = "grantor"
           /\ grant[offer[tx[t].offer].from, Admin] # 0
           /\ GrantRow(offer[tx[t].offer].from, Admin) \in tx[u].locks
        \/ /\ tx[t].pc = "mint"
           /\ <<tx[t].to, tx[t].role>> \in WrittenGrants(u)
        \/ /\ tx[t].pc = "upsert"
           /\ ~(tx[u].sent \subseteq DOMAIN offer)
           /\ tx[u].by = tx[t].by /\ tx[u].to = tx[t].to /\ tx[u].role = tx[t].role}

At(t, pc) == tx[t].pc = pc /\ Blockers(t) = {}

Go(t, changed) == tx' = [tx EXCEPT ![t] = changed]

\* The handler throws, which rolls the transaction back.
RollBack(t) ==
    /\ tx' = [tx EXCEPT ![t] = Done]
    /\ UNCHANGED <<account, grant, offer, next_grant, ended, unguarded>>

\* The deadlock detector fails one of the transactions that wait in a circle.
Victim(t) ==
    /\ \E S \in SUBSET Requests : t \in S /\ \A u \in S : Blockers(u) \cap S # {}
    /\ RollBack(t)

Commit(t) ==
    LET granted == IF tx[t].minted = 0 THEN {} ELSE {<<tx[t].to, tx[t].role>>}
    IN  /\ tx[t].pc = "commit"
        /\ account' = [a \in Accounts |-> IF a \in tx[t].deleted THEN "deleted" ELSE account[a]]
        /\ grant' = [s \in Accounts \X Roles |->
                        IF s \in tx[t].revoked THEN 0 ELSE IF s \in granted THEN tx[t].minted ELSE grant[s]]
        /\ offer' = [o \in DOMAIN offer \cup tx[t].sent |->
                        IF o \in tx[t].sent THEN NewOffer(tx[t].by, tx[t].to, tx[t].role)
                        ELSE [offer[o] EXCEPT !.status = IF o \in tx[t].accepted THEN "accepted"
                                                         ELSE IF o \in tx[t].superseded THEN "superseded"
                                                         ELSE @]]
        /\ ended' = ended \cup tx[t].doomed
        /\ unguarded' = (unguarded \/ (tx[t].skipped /\ HoldsAdmin(tx[t].to)))
        /\ tx' = [tx EXCEPT ![t] = Done]
        /\ UNCHANGED next_grant

\* What comes to light in the request: the id of a grant, an offer, the grants of a scope.
Start(t, kind, by, to, r, pc, id, o, found) ==
    /\ tx[t].pc = "idle"
    /\ account[by] = "active"
    /\ Go(t, [Idle EXCEPT !.pc = pc, !.kind = kind, !.by = by, !.to = to, !.role = r,
                          !.id = id, !.offer = o, !.grants = found])
    /\ UNCHANGED <<account, grant, offer, next_grant, ended, unguarded>>

------------------------------------------------------------------------------
(***************************************************************************)
(* Offers: create, accept.                                                 *)
(***************************************************************************)

\* role_grant_offer_create: the default authorize, on the authority the request
\* was loaded with.  Nobody offers a role to an account of their own.
StartCreate(t, by, to, r) ==
    /\ HoldsAdmin(by)
    /\ by # to
    /\ Start(t, "create", by, to, r, "upsert", 0, None, {})

\* A pending offer of the same grantor is refreshed, else there is a new one.  The
\* bound is the number of ids: a request past it fails.
Upsert(t) ==
    LET mine == Incoming(tx[t].to, tx[t].role) \cap Outgoing(tx[t].by)
        free == {o \in OfferIds \ DOMAIN offer : \A u \in Requests : o \notin tx[u].sent}
        Write(o) ==
            /\ Go(t, [tx[t] EXCEPT !.pc = "commit", !.sent = {o}, !.locks = @ \cup {OfferRow(o)}])
            /\ UNCHANGED <<account, grant, offer, next_grant, ended, unguarded>>
    IN  /\ At(t, "upsert")
        /\ \/ \E o \in mine : Write(o)
           \/ /\ mine = {}
              /\ \E o \in free :
                    /\ \A p \in free : o <= p
                    /\ Write(o)
           \/ mine \cup free = {} /\ RollBack(t)

StartAccept(t, o) ==
    Start(t, "accept", offer[o].to, offer[o].to, offer[o].role, "claim", 0, o, {})

\* SELECT ... FOR UPDATE.  An offer that has ended is refused (an accepted one is
\* answered with its grant), and so is one that has passed its expires_at by now:
\* it stays pending, and the grantor may refresh it.
Claim(t) ==
    LET o == tx[t].offer
    IN  /\ At(t, "claim")
        /\ \/ /\ offer[o].status = "pending"
              /\ Go(t, [tx[t] EXCEPT !.locks = {OfferRow(o)},
                                     !.pc = IF tx[t].role = Admin THEN "grantor" ELSE "mint"])
              /\ UNCHANGED <<account, grant, offer, next_grant, ended, unguarded>>
           \/ RollBack(t)

\* A mutation: the grantor is read without a lock.
CheckGrantorUnlocked(t) ==
    LET from == offer[tx[t].offer].from
    IN  /\ tx[t].pc = "grantor"
        /\ IF HoldsAdmin(from)
           THEN /\ Go(t, [tx[t] EXCEPT !.pc = "mint"])
                /\ UNCHANGED <<account, grant, offer, next_grant, ended, unguarded>>
           ELSE RollBack(t)

\* An offer of admin confers it only while its grantor holds admin.  The grant
\* that says so is held FOR SHARE; the tombstones are read and not locked.
CheckGrantor(t) ==
    LET from == offer[tx[t].offer].from
    IN  /\ At(t, "grantor")
        /\ IF HoldsAdmin(from)
           THEN /\ Go(t, [tx[t] EXCEPT !.shares = {GrantRow(from, Admin)}, !.pc = "mint"])
                /\ UNCHANGED <<account, grant, offer, next_grant, ended, unguarded>>
           ELSE RollBack(t)

\* query_create_role_grant: INSERT ... ON CONFLICT DO NOTHING, or the grant there
\* is.  An accept then marks its offer, and goes on to the offer's siblings.
Mint(t) ==
    LET accepts == tx[t].kind = "accept"
        mints == grant[tx[t].to, tx[t].role] = 0
    IN  /\ At(t, "mint")
        /\ Go(t, [tx[t] EXCEPT
                    !.minted = IF mints THEN next_grant ELSE 0,
                    !.accepted = IF accepts THEN {tx[t].offer} ELSE {},
                    !.pc = IF accepts THEN "siblings" ELSE "commit",
                    !.doomed = IF accepts THEN Incoming(tx[t].to, tx[t].role) \ {tx[t].offer} ELSE {}])
        /\ next_grant' = IF mints THEN next_grant + 1 ELSE next_grant
        /\ UNCHANGED <<account, grant, offer, ended, unguarded>>

------------------------------------------------------------------------------
(***************************************************************************)
(* The cascades that end offers, each an UPDATE of all it finds pending.   *)
(***************************************************************************)

\* What each of them looks for, and what the handler does next.
Cascade(t) ==
    CASE tx[t].pc = "siblings" -> Incoming(tx[t].to, tx[t].role) \ {tx[t].offer}
      [] tx[t].pc = "incoming" -> Incoming(tx[t].to, tx[t].role)
      [] tx[t].pc = "outgoing" -> Outgoing(tx[t].to)
      [] tx[t].pc = "scope"    -> {o \in Pending : offer[o].role = tx[t].role}

FindOffers(t) ==
    /\ tx[t].pc \in {"siblings", "incoming", "outgoing", "scope"}
    /\ Go(t, [tx[t] EXCEPT !.offers = Cascade(t), !.pc = "supersede",
              !.next = IF tx[t].pc = "incoming" /\ tx[t].kind = "revoke" THEN "outgoing" ELSE "commit"])
    /\ UNCHANGED <<account, grant, offer, next_grant, ended, unguarded>>

\* A mutation: offers that another transaction holds are skipped.
SupersedeSkippingLocked(t) ==
    LET free == {o \in tx[t].offers : \A u \in Requests \ {t} : OfferRow(o) \notin tx[u].locks}
    IN  /\ tx[t].pc = "supersede"
        /\ Go(t, [tx[t] EXCEPT !.locks = @ \cup {OfferRow(o) : o \in free},
                               !.superseded = @ \cup (free \cap Pending), !.pc = tx[t].next])
        /\ UNCHANGED <<account, grant, offer, next_grant, ended, unguarded>>

Supersede(t) ==
    /\ At(t, "supersede")
    /\ Go(t, [tx[t] EXCEPT !.locks = @ \cup Needs(t),
                           !.superseded = @ \cup (tx[t].offers \cap Pending), !.pc = tx[t].next])
    /\ UNCHANGED <<account, grant, offer, next_grant, ended, unguarded>>

------------------------------------------------------------------------------
(***************************************************************************)
(* Revocations and deletions.                                              *)
(***************************************************************************)

\* role_grant_revoke: the caller is an admin and names a grant; the admin grant of
\* a keeper's account is refused.
StartRevoke(t, by, a, r) ==
    /\ HoldsAdmin(by)
    /\ grant[a, r] # 0
    /\ r = Admin => a \notin Keepers
    /\ Start(t, "revoke", by, a, r, IF r = Admin THEN "guard" ELSE "revoke",
             grant[a, r], None, {})

\* self_service_role_set with enabled: false.
StartGiveUp(t, a, r) ==
    /\ r \in SelfServiceRoles
    /\ grant[a, r] # 0
    /\ Start(t, "give_up", a, a, r, "revoke", grant[a, r], None, {})

\* account_delete, of one's own account or by an admin.
StartDelete(t, by, a) ==
    /\ by = a \/ HoldsAdmin(by)
    /\ a \notin Keepers
    /\ Start(t, "delete", by, a, Admin, "guard", 0, None, {})

\* Only the removal of an active admin is counted.
Guard(t) ==
    /\ tx[t].pc = "guard"
    /\ LET counts == HoldsAdmin(tx[t].to)
       IN  Go(t, [tx[t] EXCEPT !.skipped = ~counts,
                  !.pc = IF counts THEN "count"
                         ELSE IF tx[t].kind = "revoke" THEN "revoke" ELSE "tombstone"])
    /\ UNCHANGED <<account, grant, offer, next_grant, ended, unguarded>>

\* The SELECT ... FOR UPDATE over all active admins: what it finds ...
Count(t) ==
    /\ tx[t].pc = "count"
    /\ Go(t, [tx[t] EXCEPT !.grants = {<<a, grant[a, Admin]>> : a \in {b \in Accounts : HoldsAdmin(b)}},
                           !.pc = "counted"])
    /\ UNCHANGED <<account, grant, offer, next_grant, ended, unguarded>>

\* A mutation: the admins are counted and not locked.
CountedUnlocked(t) ==
    LET left == {a \in Accounts : HoldsAdmin(a)}
    IN  /\ tx[t].pc = "counted"
        /\ IF IF tx[t].kind = "revoke" THEN left \ {tx[t].to} # {} ELSE Cardinality(left) > 1
           THEN /\ Go(t, [tx[t] EXCEPT !.pc = IF tx[t].kind = "revoke" THEN "revoke" ELSE "tombstone"])
                /\ UNCHANGED <<account, grant, offer, next_grant, ended, unguarded>>
           ELSE RollBack(t)

\* ... and what is left of that once every row of it is locked.
Counted(t) ==
    LET left == {a \in Accounts : HoldsAdmin(a) /\ <<a, grant[a, Admin]>> \in tx[t].grants}
    IN  /\ At(t, "counted")
        /\ IF IF tx[t].kind = "revoke" THEN left \ {tx[t].to} # {} ELSE Cardinality(left) > 1
           THEN /\ Go(t, [tx[t] EXCEPT !.locks = Needs(t),
                          !.pc = IF tx[t].kind = "revoke" THEN "revoke" ELSE "tombstone"])
                /\ UNCHANGED <<account, grant, offer, next_grant, ended, unguarded>>
           ELSE RollBack(t)

\* query_revoke_role_grant, by id: a grant revoked meanwhile is not found.
RevokeGrant(t) ==
    /\ At(t, "revoke")
    /\ IF grant[tx[t].to, tx[t].role] = tx[t].id
       THEN /\ Go(t, [tx[t] EXCEPT
                        !.locks = @ \cup Needs(t), !.revoked = {<<tx[t].to, tx[t].role>>}, !.pc = "incoming",
                        !.doomed = Incoming(tx[t].to, tx[t].role)
                                    \cup (IF tx[t].kind = "revoke" THEN Outgoing(tx[t].to) ELSE {})])
            /\ UNCHANGED <<account, grant, offer, next_grant, ended, unguarded>>
       ELSE RollBack(t)

\* query_account_soft_delete and query_actor_soft_delete.
Tombstone(t) ==
    /\ At(t, "tombstone")
    /\ IF account[tx[t].to] = "active"
       THEN /\ Go(t, [tx[t] EXCEPT !.locks = @ \cup Needs(t), !.deleted = {tx[t].to},
                                   !.doomed = Outgoing(tx[t].to), !.pc = "outgoing"])
            /\ UNCHANGED <<account, grant, offer, next_grant, ended, unguarded>>
       ELSE RollBack(t)

\* query_role_grant_revoke_for_scope, which the app runs when it deletes a scope:
\* the UPDATE finds the grants of the scope, and writes those still there.
StartDestroyScope(t, by, r) ==
    /\ r \in ScopedRoles
    /\ Start(t, "destroy", by, by, r, "destroy", 0, None,
             {<<a, grant[a, r]>> : a \in {b \in Accounts : grant[b, r] # 0}})

DestroyScope(t) ==
    LET still == {g \in tx[t].grants : grant[g[1], tx[t].role] = g[2]}
    IN  /\ At(t, "destroy")
        /\ Go(t, [tx[t] EXCEPT !.locks = @ \cup Needs(t),
                               !.revoked = {<<g[1], tx[t].role>> : g \in still},
                               !.doomed = {o \in Pending : offer[o].role = tx[t].role},
                               !.pc = "scope"])
        /\ UNCHANGED <<account, grant, offer, next_grant, ended, unguarded>>

------------------------------------------------------------------------------
(***************************************************************************)
(* Grants without an offer, and requests of a single statement.            *)
(***************************************************************************)

\* role_grant_assign, to an account that is active.
StartAssign(t, by, a, r) ==
    /\ HoldsAdmin(by)
    /\ account[a] = "active"
    /\ Start(t, "assign", by, a, r, "mint", 0, None, {})

\* self_service_role_set with enabled: true.
StartTake(t, a, r) ==
    /\ r \in SelfServiceRoles
    /\ grant[a, r] = 0
    /\ Start(t, "take", a, a, r, "mint", 0, None, {})

Unheld(row) == \A u \in Requests : row \notin tx[u].locks \cup tx[u].shares

\* query_role_grant_offer_decline and _retract: an UPDATE of a pending offer.
End(o) ==
    /\ o \in Pending
    /\ Unheld(OfferRow(o))
    /\ offer' = [offer EXCEPT ![o].status = "declined"]
    /\ UNCHANGED <<account, grant, next_grant, tx, ended, unguarded>>

\* account_undelete, by an admin: the grants of the account were never revoked.
Undelete(by, a) ==
    /\ HoldsAdmin(by)
    /\ account[a] = "deleted"
    /\ Unheld(AccountRow(a))
    /\ account' = [account EXCEPT ![a] = "active"]
    /\ UNCHANGED <<grant, offer, next_grant, tx, ended, unguarded>>

StartRequest(t) ==
    \E by, a \in Accounts, r \in Roles :
        \/ StartCreate(t, by, a, r)
        \/ StartAssign(t, by, a, r)
        \/ StartRevoke(t, by, a, r)
        \/ by = a /\ (StartTake(t, a, r) \/ StartGiveUp(t, a, r) \/ StartDestroyScope(t, a, r))
        \/ r = Admin /\ StartDelete(t, by, a)

Statement(t) ==
    \/ Upsert(t) \/ Claim(t) \/ CheckGrantor(t) \/ Mint(t)
    \/ FindOffers(t) \/ Supersede(t)
    \/ Guard(t) \/ Count(t) \/ Counted(t)
    \/ RevokeGrant(t) \/ Tombstone(t) \/ DestroyScope(t)
    \/ Commit(t) \/ Victim(t)

\* All requests have been answered; an undelete may still come.
Answered == (\A t \in Requests : tx[t].pc = "done") /\ UNCHANGED grant_vars

GrantsNext ==
    \/ \E t \in Requests : StartRequest(t) \/ Statement(t)
    \/ \E t \in Requests, o \in DOMAIN offer : StartAccept(t, o)
    \/ \E o \in DOMAIN offer : End(o)
    \/ \E by, a \in Accounts : Undelete(by, a)
    \/ Answered

GrantsSpec == GrantsInit /\ [][GrantsNext]_grant_vars

------------------------------------------------------------------------------
(***************************************************************************)
(* What is promised.                                                       *)
(***************************************************************************)

\* An admin grant that comes from an offer is committed while the grantor of that
\* offer holds an unrevoked admin grant, however the revoke of it, the sibling
\* offers and the accept overlap (query_accept_offer, FOR SHARE on the grantor).
GrantedOnAuthority ==
    [][\A t \in Requests :
        (/\ tx[t].pc = "commit" /\ tx'[t].pc = "done"
         /\ tx[t].kind = "accept" /\ tx[t].role = Admin
         /\ grant'[tx[t].to, Admin] # grant[tx[t].to, Admin])
            => grant[offer[tx[t].offer].from, Admin] # 0]_grant_vars

\* An offer that was pending when a revoke, a deletion, the end of its scope or the
\* accept of a sibling came upon it is ended when that has committed: it is not
\* pending again, and no accept of it commits later (the four cascades).
EndedOffersStayEnded ==
    /\ ended \cap Pending = {}
    /\ \A t \in Requests :
        tx[t].pc = "commit" /\ tx[t].kind = "accept" => tx[t].offer \notin ended

\* Some active account holds admin, whatever admins revoke or delete each other at
\* once (query_count_active_accounts_with_global_role_for_update), unless the one
\* removed became an active admin after the guard, which is not locked, had read
\* that it was none.
OnlyAStaleGuardRemovesTheLastAdmin ==
    unguarded \/ \E a \in Accounts : HoldsAdmin(a)

\* What docs/security.md says: once a grant is revoked, every offer of its role to
\* its holder that was pending by then has been superseded.
RevokeEndsEveryPendingOffer ==
    [][\A t \in Requests, o \in DOMAIN offer :
        (/\ tx[t].pc = "commit" /\ tx'[t].pc = "done" /\ tx[t].kind = "revoke"
         /\ offer[o].to = tx[t].to /\ offer[o].role = tx[t].role)
            => offer'[o].status # "pending"]_grant_vars
=============================================================================
