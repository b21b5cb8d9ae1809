----------------------------- MODULE Onboarding -----------------------------
(***************************************************************************)
(* How accounts come to be: the bootstrap of the keeper and the signups    *)
(* that an invite or the open_signup setting lets in (bootstrap_account.ts,*)
(* bootstrap_routes.ts, signup_routes.ts, invite_queries.ts).              *)
(*                                                                         *)
(* Each request runs one READ COMMITTED transaction, a step a statement,   *)
(* between what it read before it and what is left to do after its commit; *)
(* the process may go down anywhere and come up again.  The database and   *)
(* the token file stay.  Names and emails are compared without their case, *)
(* which the values here have none of.                                     *)
(***************************************************************************)
EXTENDS Naturals, FiniteSets

CONSTANTS
    Requests,       \* each is used for one request, and names its account
    Names,          \* usernames
    Email,          \* an email, which a signup may give
    Invites,        \* ids, ordered by age
    None

InviteRows ==
    [name : Names \cup {None}, email : {Email, None}, claimed_by : Requests \cup {None}]

ASSUME NoneIsNothingElse ==
    None \notin Requests /\ None \notin Invites /\ None \notin InviteRows

VARIABLES
    account,        \* committed accounts: [name, email, by, keeper, way]
    invite,         \* committed invites, by id: None, or a row
    open_signup,
    bootstrapped,   \* bootstrap_lock
    token_file,     \* the bootstrap token is on the disk
    available,      \* bootstrap_status.available, in memory
    up,             \* the process
    req,
    was_closed      \* history: open_signup was false all along a request

onboarding_vars == <<account, invite, open_signup, bootstrapped, token_file,
                     available, up, req, was_closed>>

database == <<account, invite, open_signup, bootstrapped>>

Idle == [pc |-> "idle"]
Done == [pc |-> "done"]
Running == {r \in Requests : req[r].pc \notin {"idle", "done"}}

\* Rows locked or written by the transaction of a request and not yet committed.
LockedInvite(r) ==
    IF req[r].pc \in {"insert", "claim", "commit"} THEN req[r].invite ELSE None
Inserted(r) ==
    IF req[r].pc \in {"claim", "commit", "grant"} THEN {req[r].row} ELSE {}
HoldsBootstrapLock(r) ==
    req[r].pc \in {"insert", "grant"} /\ req[r].what = "bootstrap"

OnboardingInit ==
    /\ account = {}
    /\ invite = [i \in Invites |-> None]
    /\ open_signup = FALSE
    /\ bootstrapped = FALSE
    /\ token_file = TRUE
    /\ available = TRUE
    /\ up = TRUE
    /\ req = [r \in Requests |-> Idle]
    /\ was_closed = {}

Goes(r, record) == req' = [req EXCEPT ![r] = record]
At(r, pc) == Goes(r, [req[r] EXCEPT !.pc = pc])

------------------------------------------------------------------------------
(***************************************************************************)
(* Invites and settings, which an admin keeps.                             *)
(***************************************************************************)

Clash(one, other) ==
    \/ one.name # None /\ one.name = other.name
    \/ one.email # None /\ one.email = other.email

\* invite_create: refused for the name or email of an account, and by the indexes
\* for that of another unclaimed invite.
InviteCreate(i) ==
    /\ up
    /\ \E a \in account : a.keeper
    /\ invite[i] = None
    /\ \E name \in Names \cup {None}, email \in {Email, None} :
        LET row == [name |-> name, email |-> email, claimed_by |-> None] IN
        /\ name # None \/ email # None
        /\ ~\E a \in account : Clash(row, a)
        /\ ~\E j \in Invites :
                invite[j] # None /\ invite[j].claimed_by = None /\ Clash(row, invite[j])
        /\ invite' = [invite EXCEPT ![i] = row]
    /\ UNCHANGED <<account, open_signup, bootstrapped, token_file, available, up, req,
                   was_closed>>

\* The DELETE by id alone.
InviteDeleteAny(i) ==
    /\ up
    /\ invite[i] # None
    /\ \A r \in Requests : LockedInvite(r) # i
    /\ invite' = [invite EXCEPT ![i] = None]
    /\ UNCHANGED <<account, open_signup, bootstrapped, token_file, available, up, req,
                   was_closed>>

\* invite_delete spares an invite that was claimed, also while it waited.
InviteDelete(i) ==
    /\ up
    /\ invite[i] # None /\ invite[i].claimed_by = None
    /\ \A r \in Requests : LockedInvite(r) # i
    /\ invite' = [invite EXCEPT ![i] = None]
    /\ UNCHANGED <<account, open_signup, bootstrapped, token_file, available, up, req,
                   was_closed>>

\* app_settings_update
SetOpenSignup(open) ==
    /\ up
    /\ \E a \in account : a.keeper
    /\ open_signup' = open
    /\ was_closed' = IF open THEN was_closed \ Running ELSE was_closed
    /\ UNCHANGED <<account, invite, bootstrapped, token_file, available, up, req>>

------------------------------------------------------------------------------
(***************************************************************************)
(* Signup.                                                                 *)
(***************************************************************************)

\* The setting is read, the password hashed, and the transaction begun later.
StartSignup(r, name, email) ==
    /\ up
    /\ req[r].pc = "idle"
    /\ Goes(r, [what |-> "signup", pc |-> IF open_signup THEN "insert" ELSE "find",
                invite |-> None,
                row |-> [name |-> name, email |-> email, by |-> r, keeper |-> FALSE,
                         way |-> IF open_signup THEN "open" ELSE "invited"]])
    /\ was_closed' = IF open_signup THEN was_closed ELSE was_closed \cup {r}
    /\ UNCHANGED <<database, token_file, available, up>>

Matches(i, row) ==
    LET inv == invite[i]
    IN  /\ inv # None
        /\ inv.claimed_by = None
        /\ inv.name # None => inv.name = row.name
        /\ inv.email # None => inv.email = row.email

\* query_invite_find_unclaimed_match_for_update: the oldest match is picked ...
FindInvite(r) ==
    LET matching == {i \in Invites : Matches(i, req[r].row)}
    IN  /\ req[r].pc = "find"
        /\ IF matching = {} THEN Goes(r, Done)
           ELSE \E i \in matching :
                    /\ \A j \in matching : i <= j
                    /\ Goes(r, [req[r] EXCEPT !.pc = "lock", !.invite = i])
        /\ UNCHANGED <<database, token_file, available, up, was_closed>>

\* ... and locked, when nobody has it; it is read again, and if it no longer
\* matches, the statement has found nothing, even if a younger one would match.
LockInvite(r) ==
    /\ req[r].pc = "lock"
    /\ \A s \in Requests \ {r} : LockedInvite(s) # req[r].invite
    /\ IF Matches(req[r].invite, req[r].row) THEN At(r, "insert") ELSE Goes(r, Done)
    /\ UNCHANGED <<database, token_file, available, up, was_closed>>

\* query_create_account_with_actor, of a signup or a bootstrap: it waits for an
\* uncommitted row with the same key, and fails on a committed one.
InsertAccount(r) ==
    /\ req[r].pc = "insert"
    /\ ~\E s \in Requests \ {r} : \E row \in Inserted(s) : Clash(row, req[r].row)
    /\ IF \E a \in account : Clash(a, req[r].row) THEN Goes(r, Done)
       ELSE At(r, IF req[r].what = "bootstrap" THEN "grant"
                  ELSE IF req[r].invite = None THEN "commit" ELSE "claim")
    /\ UNCHANGED <<database, token_file, available, up, was_closed>>

\* query_invite_claim_unscoped, which finds the invite it has locked.
ClaimInvite(r) ==
    /\ req[r].pc = "claim"
    /\ IF invite[req[r].invite].claimed_by = None THEN At(r, "commit") ELSE Goes(r, Done)
    /\ UNCHANGED <<database, token_file, available, up, was_closed>>

\* The account, its claim and its session become visible together.
CommitSignup(r) ==
    /\ req[r].pc = "commit"
    /\ account' = account \cup {req[r].row}
    /\ invite' = IF req[r].invite = None THEN invite
                 ELSE [invite EXCEPT ![req[r].invite].claimed_by = r]
    /\ Goes(r, Done)
    /\ UNCHANGED <<open_signup, bootstrapped, token_file, available, up, was_closed>>

------------------------------------------------------------------------------
(***************************************************************************)
(* Bootstrap.                                                              *)
(***************************************************************************)

\* The route refuses when it knows better; else the token is read again, and a
\* wrong one is refused.
StartBootstrap(r, name) ==
    /\ up /\ available
    /\ req[r].pc = "idle"
    /\ IF token_file
       THEN /\ Goes(r, [what |-> "bootstrap", pc |-> "bootstrap_lock", invite |-> None,
                        row |-> [name |-> name, email |-> None, by |-> r, keeper |-> TRUE,
                                 way |-> "bootstrap"]])
            /\ UNCHANGED available
       ELSE available' = FALSE /\ Goes(r, Done)
    /\ UNCHANGED <<database, token_file, up, was_closed>>

\* The lock taken without its condition.
TakeBootstrapLockUnread(r) ==
    /\ req[r].pc = "bootstrap_lock"
    /\ ~\E s \in Requests \ {r} : HoldsBootstrapLock(s)
    /\ At(r, "insert")
    /\ UNCHANGED <<database, token_file, available, up, was_closed>>

\* The UPDATE of bootstrap_lock: one transaction at a time, and the next one
\* finds the flag set.
TakeBootstrapLock(r) ==
    /\ req[r].pc = "bootstrap_lock"
    /\ ~\E s \in Requests \ {r} : HoldsBootstrapLock(s)
    /\ IF bootstrapped THEN Goes(r, Done) ELSE At(r, "insert")
    /\ UNCHANGED <<database, token_file, available, up, was_closed>>

\* Both grants are inserted, and the transaction commits.
CommitBootstrap(r) ==
    /\ req[r].pc = "grant"
    /\ account' = account \cup {req[r].row}
    /\ bootstrapped' = TRUE
    /\ At(r, "delete_file")
    /\ UNCHANGED <<invite, open_signup, token_file, available, up, was_closed>>

\* After the commit the token goes.  A failure is logged and reported, and the
\* keeper is there all the same.
DeleteTokenFile(r) ==
    /\ req[r].pc = "delete_file"
    /\ token_file' \in {FALSE, token_file}
    /\ available' = FALSE
    /\ Goes(r, Done)
    /\ UNCHANGED <<database, up, was_closed>>

------------------------------------------------------------------------------
(***************************************************************************)
(* Failures.                                                               *)
(***************************************************************************)

\* A statement, the hash or the connection fails: the transaction rolls back.
Fail(r) ==
    /\ up
    /\ req[r].pc \in {"find", "lock", "insert", "claim", "commit", "bootstrap_lock", "grant"}
    /\ Goes(r, Done)
    /\ UNCHANGED <<database, token_file, available, up, was_closed>>

Crash ==
    /\ up
    /\ up' = FALSE
    /\ req' = [r \in Requests |-> IF r \in Running THEN Done ELSE req[r]]
    /\ UNCHANGED <<database, token_file, available, was_closed>>

\* check_bootstrap_status, as the server starts.
Restart ==
    /\ ~up
    /\ up' = TRUE
    /\ available' = (token_file /\ ~bootstrapped)
    /\ UNCHANGED <<database, token_file, req, was_closed>>

OnboardingNext ==
    \/ \E i \in Invites : InviteCreate(i) \/ InviteDelete(i)
    \/ \E open \in BOOLEAN : SetOpenSignup(open)
    \/ \E r \in Requests :
        \/ \E name \in Names :
            StartBootstrap(r, name) \/ \E email \in {Email, None} : StartSignup(r, name, email)
        \/ FindInvite(r) \/ LockInvite(r) \/ InsertAccount(r) \/ ClaimInvite(r)
        \/ CommitSignup(r)
        \/ TakeBootstrapLock(r) \/ CommitBootstrap(r) \/ DeleteTokenFile(r)
        \/ Fail(r)
    \/ Crash \/ Restart

OnboardingSpec == OnboardingInit /\ [][OnboardingNext]_onboarding_vars

------------------------------------------------------------------------------
(***************************************************************************)
(* Correctness.                                                            *)
(***************************************************************************)

\* Each account was let in: invited ones and claimed invites correspond one to
\* one, and what the invite names is what the account has; a signup that came
\* while signups were closed, and stayed closed, is not among the others.
EveryAccountWasLetIn ==
    /\ \A a \in account :
        a.way = "invited" =>
            \E i \in Invites : invite[i] # None /\ invite[i].claimed_by = a.by
    /\ \A i \in Invites :
        invite[i] # None /\ invite[i].claimed_by # None =>
            \E a \in account :
                /\ a.by = invite[i].claimed_by
                /\ invite[i].name \in {None, a.name} /\ invite[i].email \in {None, a.email}
    /\ \A i, j \in Invites :
        i # j /\ invite[i] # None /\ invite[j] # None /\ invite[i].claimed_by # None =>
            invite[i].claimed_by # invite[j].claimed_by
    /\ \A a \in account : a.by \in was_closed => a.way = "invited"

\* There is never a second keeper, whatever requests race, and until there is one
\* the deployment can still be bootstrapped, wherever it crashed: the token is on
\* the disk, and the route takes it.
OneKeeperOrAToken ==
    LET keepers == {a \in account : a.keeper}
    IN  /\ Cardinality(keepers) <= 1
        /\ keepers = {} => token_file /\ ~bootstrapped /\ (up => available)
=============================================================================
