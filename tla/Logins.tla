------------------------------- MODULE Logins -------------------------------
(***************************************************************************)
(* The credentials of one account and what ends them: sessions and API     *)
(* tokens, the requests that create and revoke them, the password change,  *)
(* the account's deletion and the cleanup of expired sessions              *)
(* (account_routes.ts, account_actions.ts, session_queries.ts,             *)
(* api_token_queries.ts, cleanup.ts).                                      *)
(*                                                                         *)
(* A request reads (its account's hash, or its own credential), awaits a   *)
(* password hash or not, and then runs one READ COMMITTED transaction.  A  *)
(* step is a statement: a wide DELETE first finds its rows among those     *)
(* committed, then waits for the ones another transaction is deleting, and *)
(* skips those that went.  Connections are closed after the commit.  The   *)
(* database may fail a transaction, and may commit one whose caller is     *)
(* told that it failed.                                                    *)
(*                                                                         *)
(* An id tells when a credential's transaction began, as created_at does.  *)
(* The admission of a connection is one step here, since SocketAdmission   *)
(* shows that one admitted while its credential goes does not stay.        *)
(***************************************************************************)
EXTENDS Naturals, Sequences, FiniteSets

CONSTANTS
    Requests,           \* each is used for one request
    MaxCredentials      \* max_sessions and max_tokens

VARIABLES
    password,       \* the version of the account's password
    active,         \* the account is not soft-deleted
    kind_of,        \* "session" or "token", for every id issued
    live,           \* the committed credentials
    expired,        \* those whose expires_at has passed
    connected,      \* credentials that have a connection open
    req,            \* the requests
    cleanup,        \* the pass of the cleanup
    era,            \* history: how often all credentials were revoked
    era_of,         \* history: the era whose authority made a credential
    lineage,        \* history: the requests a credential comes from
    overtaken,      \* history: requests in flight while all were being revoked
    crowded,        \* history: creators whose transactions overlapped
    unheard         \* history: credentials ended by a commit reported failed

login_vars == <<password, active, kind_of, live, expired, connected, req, cleanup,
                era, era_of, lineage, overtaken, crowded, unheard>>

Kinds == {"session", "token"}
Issued == DOMAIN kind_of

Idle == [pc |-> "idle"]
Done == [pc |-> "done"]
Resting == [pc |-> "resting", doomed |-> {}]

Unfinished == {r \in Requests : req[r] # Done}

\* The requests whose transaction has begun, with what they have written so far.
InTransaction == {r \in Requests : req[r].pc \in {"find", "remove", "commit"}}

MadeBy(r) == IF r \in InTransaction THEN req[r].made ELSE {}
DoomedBy(r) == IF r \in InTransaction THEN req[r].doomed ELSE {}

\* A credential that authenticates: middleware and bearer both want an unexpired
\* row, and the authorization phase an account that is not deleted.
Valid(c) == c \in live /\ c \notin expired /\ active

LoginsInit ==
    /\ password = 1
    /\ active = TRUE
    /\ kind_of = <<"session", "token">>
    /\ live = {1, 2}
    /\ expired = {}
    /\ connected \in SUBSET {1, 2}
    /\ req = [r \in Requests |-> Idle]
    /\ cleanup = Resting
    /\ era = 1
    /\ era_of = <<1, 1>>
    /\ lineage = <<{}, {}>>
    /\ overtaken = {}
    /\ crowded = {}
    /\ unheard = {}

histories == <<era, era_of, lineage, overtaken, crowded, unheard>>
rows == <<password, active, kind_of, live, expired>>

------------------------------------------------------------------------------
(***************************************************************************)
(* Requests begin.                                                         *)
(***************************************************************************)

\* what: the request; by: the credentials it stands on; read: the version of the
\* password it was shown; todo: what its transaction deletes, one kind at a time.
Begun(what, pc, by, todo) ==
    [what |-> what, pc |-> pc, read |-> password, era |-> era,
     from |-> UNION {lineage[c] : c \in by}, todo |-> todo,
     target |-> 0, made |-> {}, found |-> {}, doomed |-> {}, beside |-> {}]

Starts(r, record) ==
    /\ req[r].pc = "idle"
    /\ req' = [req EXCEPT ![r] = record]
    /\ UNCHANGED <<rows, connected, cleanup, histories>>

\* POST /login with the right password: the account is read, by username or
\* email, and its hash verified.  A wrong one changes nothing here.
StartLogin(r) ==
    /\ active
    /\ Starts(r, Begun("login", "insert", {}, <<"session">>))

\* POST /password: the current password is verified against the hash that the
\* authorization phase read, and the new one hashed.
StartPasswordChange(r) ==
    \E c \in live :
        /\ Valid(c)
        /\ Starts(r, Begun("change", "account", {c}, <<"session", "token">>))

\* account_token_create, by a session or a token.
StartTokenCreate(r) ==
    \E c \in live :
        /\ Valid(c)
        /\ Starts(r, [Begun("token_create", "insert", {c}, <<"token">>)
                        EXCEPT !.era = era_of[c]])

\* account_session_revoke, account_token_revoke, and the logout of a session:
\* one row of the account, by its id.
StartRevoke(r) ==
    \E c \in live, target \in Issued :
        /\ Valid(c)
        /\ Starts(r, [Begun("revoke", "find", {c}, <<kind_of[target]>>)
                        EXCEPT !.target = target])

StartLogout(r) ==
    \E c \in live :
        /\ Valid(c) /\ kind_of[c] = "session"
        /\ Starts(r, [Begun("logout", "find", {c}, <<"session">>) EXCEPT !.target = c])

\* account_session_revoke_all, and what an admin may do: all sessions, all tokens,
\* or the account itself.
StartRevokeAll(r) ==
    \E kind \in Kinds :
        /\ active
        /\ Starts(r, Begun("revoke_all", "find", {}, <<kind>>))

StartDelete(r) ==
    /\ active
    /\ Starts(r, Begun("delete", "account", {}, <<"session", "token">>))

------------------------------------------------------------------------------
(***************************************************************************)
(* Their transactions.                                                     *)
(***************************************************************************)

\* The UPDATE of the account's row waits for one that another transaction has
\* made, and reads the row again.
AccountIsHeld(r) ==
    \E s \in InTransaction \ {r} : req[s].what \in {"change", "delete"}

\* query_update_account_password compares and sets: it finds the hash that was
\* verified, or changes nothing and the request is refused.
UpdatePassword(r) ==
    /\ req[r].pc = "account" /\ req[r].what = "change"
    /\ ~AccountIsHeld(r)
    /\ req' = [req EXCEPT ![r] = IF @.read = password
                                 THEN [@ EXCEPT !.pc = "find", !.beside = Unfinished]
                                 ELSE Done]
    /\ UNCHANGED <<rows, connected, cleanup, histories>>

\* query_account_soft_delete
Tombstone(r) ==
    /\ req[r].pc = "account" /\ req[r].what = "delete"
    /\ ~AccountIsHeld(r)
    /\ req' = [req EXCEPT ![r] = IF active
                                 THEN [@ EXCEPT !.pc = "find", !.beside = Unfinished]
                                 ELSE Done]
    /\ UNCHANGED <<rows, connected, cleanup, histories>>

\* query_create_session and query_create_api_token.
Insert(r) ==
    LET id == Len(kind_of) + 1
        kind == Head(req[r].todo)
        others == {s \in InTransaction : \E c \in req[s].made : kind_of[c] = kind}
    IN  /\ req[r].pc = "insert"
        /\ kind_of' = Append(kind_of, kind)
        /\ era_of' = Append(era_of, req[r].era)
        /\ lineage' = Append(lineage, req[r].from \cup {r})
        /\ crowded' = IF others = {} THEN crowded ELSE (crowded \cup others) \cup {r}
        /\ req' = [req EXCEPT ![r].pc = "find", ![r].made = {id}]
        /\ UNCHANGED <<password, active, live, expired, connected, cleanup, era,
                       overtaken, unheard>>

\* The newest ids of a set stay, the others are over the limit.
Newest(s, n) == {c \in s : Cardinality({d \in s : d > c}) < n}

OverTheLimitByOne(r, kind) ==
    LET seen == {c \in live \cup MadeBy(r) : kind_of[c] = kind}
    IN  seen \ Newest(seen, MaxCredentials + 1)

\* query_session_enforce_limit and query_api_token_enforce_limit count what the
\* statement sees: what others have not committed is not there.
OverTheLimit(r, kind) ==
    LET seen == {c \in live \cup MadeBy(r) : kind_of[c] = kind}
    IN  seen \ Newest(seen, MaxCredentials)

\* The rows a DELETE of the request finds.
Rows(r, kind) ==
    CASE req[r].what \in {"login", "token_create"} -> OverTheLimit(r, kind)
      [] req[r].what \in {"revoke", "logout"}      -> live \cap {req[r].target}
      [] OTHER                                     -> {c \in live : kind_of[c] = kind}

Find(r) ==
    /\ req[r].pc = "find"
    /\ req' = [req EXCEPT ![r].pc = "remove", ![r].found = Rows(r, Head(req[r].todo))]
    /\ UNCHANGED <<rows, connected, cleanup, histories>>

\* A revocation of everything that stops at the first kind.
RemoveSessionsOnly(r) ==
    /\ req[r].pc = "remove"
    /\ \A s \in Requests \ {r} : req[r].found \cap DoomedBy(s) = {}
    /\ req[r].found \cap cleanup.doomed = {}
    /\ req' = [req EXCEPT
                ![r].doomed = @ \cup (req[r].found \cap (live \cup MadeBy(r))),
                ![r].pc = "commit"]
    /\ UNCHANGED <<rows, connected, cleanup, histories>>

\* The DELETE goes on when nobody else is deleting a row of it.
Remove(r) ==
    /\ req[r].pc = "remove"
    /\ \A s \in Requests \ {r} : req[r].found \cap DoomedBy(s) = {}
    /\ req[r].found \cap cleanup.doomed = {}
    /\ req' = [req EXCEPT
                ![r].doomed = @ \cup (req[r].found \cap (live \cup MadeBy(r))),
                ![r].todo = Tail(@),
                ![r].pc = IF Len(req[r].todo) = 1 THEN "commit" ELSE "find"]
    /\ UNCHANGED <<rows, connected, cleanup, histories>>

RevokesAll(r) == req[r].what \in {"change", "delete"}

\* What becomes visible with a commit.
Committed(r) ==
    /\ req[r].pc = "commit"
    /\ live' = (live \cup MadeBy(r)) \ DoomedBy(r)
    /\ password' = IF req[r].what = "change" THEN password + 1 ELSE password
    /\ active' = (active /\ req[r].what # "delete")
    /\ era' = IF RevokesAll(r) THEN era + 1 ELSE era
    /\ overtaken' = overtaken \cup {s \in req[r].beside \ {r} : req[s] # Idle}
    /\ UNCHANGED <<kind_of, expired, connected, cleanup, era_of, lineage, crowded>>

Commit(r) ==
    /\ Committed(r)
    /\ req' = [req EXCEPT ![r].pc = "close"]
    /\ UNCHANGED unheard

\* The commit is made and its answer lost: the handler throws, and its queued
\* closes are dropped with it.
CommitUnheard(r) ==
    /\ Committed(r)
    /\ req' = [req EXCEPT ![r] = Done]
    /\ unheard' = unheard \cup DoomedBy(r)

Fail(r) ==
    /\ r \in InTransaction \/ req[r].pc \in {"insert", "account"}
    /\ req' = [req EXCEPT ![r] = Done]
    /\ UNCHANGED <<rows, connected, cleanup, histories>>

\* What a request closes: the credentials evicted or revoked by id, else the
\* whole account's connections.  An admin's revocation of all tokens or of all
\* sessions is an account's close too.
Closes(r) ==
    IF req[r].what \in {"login", "token_create", "revoke"} THEN req[r].doomed ELSE Issued

Close(r) ==
    /\ req[r].pc = "close"
    /\ connected' = connected \ Closes(r)
    /\ req' = [req EXCEPT ![r] = Done]
    /\ UNCHANGED <<rows, cleanup, histories>>

------------------------------------------------------------------------------
(***************************************************************************)
(* Connections, time, the cleanup and the admin.                           *)
(***************************************************************************)

Connect(c) ==
    /\ Valid(c)
    /\ c \notin connected
    /\ connected' = connected \cup {c}
    /\ UNCHANGED <<rows, req, cleanup, histories>>

\* A session runs out; its connection has a deadline of its own, which may be late.
Expire(c) ==
    /\ c \in live \ expired
    /\ kind_of[c] = "session"
    /\ expired' = expired \cup {c}
    /\ UNCHANGED <<password, active, kind_of, live, connected, req, cleanup, histories>>

\* cleanup_expired_sessions: the rows go in a transaction of their own, and what
\* the DELETE returned is closed whatever the transaction said.
Sweep ==
    /\ cleanup = Resting
    /\ live \cap expired # {}
    /\ \A r \in Requests : expired \cap DoomedBy(r) = {}
    /\ cleanup' = [pc |-> "commit", doomed |-> live \cap expired]
    /\ UNCHANGED <<rows, connected, req, histories>>

SweepEnds(next_pc) ==
    /\ cleanup.pc = "commit"
    /\ \/ live' = live \ cleanup.doomed
       \/ UNCHANGED live
    /\ cleanup' = [cleanup EXCEPT !.pc = next_pc]
    /\ UNCHANGED <<password, active, kind_of, expired, connected, req, histories>>

\* Closing only what was seen to commit.
SweepCommitHeard ==
    \/ SweepEnds("close")
    \/ /\ cleanup.pc = "commit"
       /\ live' = live \ cleanup.doomed
       /\ cleanup' = Resting
       /\ UNCHANGED <<password, active, kind_of, expired, connected, req, histories>>

SweepCommit == SweepEnds("close")

SweepClose ==
    /\ cleanup.pc = "close"
    /\ connected' = connected \ cleanup.doomed
    /\ cleanup' = Resting
    /\ UNCHANGED <<rows, req, histories>>

\* account_undelete gives back the account, and none of its credentials.
Undelete ==
    /\ ~active
    /\ \A r \in InTransaction : req[r].what # "delete"
    /\ active' = TRUE
    /\ UNCHANGED <<password, kind_of, live, expired, connected, req, cleanup, histories>>

LoginsNext ==
    \/ \E r \in Requests :
        \/ StartLogin(r) \/ StartPasswordChange(r) \/ StartTokenCreate(r)
        \/ StartRevoke(r) \/ StartLogout(r) \/ StartRevokeAll(r) \/ StartDelete(r)
        \/ UpdatePassword(r) \/ Tombstone(r) \/ Insert(r) \/ Find(r) \/ Remove(r)
        \/ Commit(r) \/ CommitUnheard(r) \/ Fail(r) \/ Close(r)
    \/ \E c \in Issued : Connect(c) \/ Expire(c)
    \/ Sweep \/ SweepCommit \/ SweepClose
    \/ Undelete

LoginsSpec == LoginsInit /\ [][LoginsNext]_login_vars

------------------------------------------------------------------------------
(***************************************************************************)
(* Correctness.                                                            *)
(***************************************************************************)

\* A password change and a deletion end every session and token of the account.
\* What still works afterwards comes, by way of whatever credentials, from a
\* request that was in flight while their transaction ran: a login that had verified
\* the old password, or a token being created.
OnlyTheOvertakenOutlive ==
    \A c \in live : era_of[c] = era \/ lineage[c] \cap overtaken # {}

\* A credential that ended has no connection but one about to be closed, by the
\* request or the cleanup that ended it.  Only a commit reported as failed to the
\* request that made it leaves a connection behind; the cleanup does not even then.
EndedCredentialsLoseTheirConnections ==
    \A c \in connected :
        \/ c \in live \cup unheard
        \/ cleanup.pc = "close" /\ c \in cleanup.doomed
        \/ \E r \in Requests : req[r].pc = "close" /\ c \in Closes(r)

\* The limit of sessions and of tokens is passed by creators whose transactions
\* overlap, and by nothing else: those made one after another stay within it.
OnlyOverlapPassesTheLimit ==
    \A kind \in Kinds :
        Cardinality({c \in live : kind_of[c] = kind /\ lineage[c] \cap crowded = {}})
            <= MaxCredentials
=============================================================================
