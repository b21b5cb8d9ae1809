-------------------------- MODULE SocketAdmission --------------------------
(***************************************************************************)
(* A WebSocket upgrade against the revocations that race it: the admission *)
(* half of actions/ws_socket_session.ts, composed with the connection      *)
(* registry, the admission re-check of auth/resolved_auth.ts, and the      *)
(* revocation handlers, each of which commits its transaction first and    *)
(* closes by identity afterwards (actions/connection_closer.ts,            *)
(* http/pending_effects.ts).                                               *)
(*                                                                         *)
(* The server runs JavaScript, so whatever runs between two awaits is one  *)
(* action; the database answers each read of the re-check separately, and  *)
(* any commit, close, or socket event may fall between two of them.        *)
(***************************************************************************)
EXTENDS ConnectionRegistry

CONSTANTS
  Owner,      \* Owner[k]: the account session or API token k belongs to
  MaxTargets, \* bound on the distinct targets that losses of authority name
  MaxSilent,  \* bound on the losses of authority that close nothing
  MaxExpired  \* bound on the credentials that expire

Credentials == Sessions \cup Tokens

ASSUME AdmissionAssumption ==
  /\ Owner \in [Credentials -> Accounts]
  /\ \A c \in Connections :
       /\ Identity[c].session_hash # Null =>
            Owner[Identity[c].session_hash] = Identity[c].account_id
       /\ Identity[c].api_token_id # Null =>
            Owner[Identity[c].api_token_id] = Identity[c].account_id
  /\ Sessions \cap Tokens = {}
  /\ MaxTargets \in Nat /\ MaxSilent \in Nat /\ MaxExpired \in Nat

VARIABLES
  stage,       \* how far the upgrade of each connection has come
  refusal,     \* the code a failed re-check refuses with
  socket,      \* "none" before onOpen, "closed" once onClose has run
  armed,       \* connections whose credential deadline timer is running
  credentials, \* auth_session and api_token rows that exist
  expired,     \* credentials whose deadline has passed
  active,      \* accounts that, with their actors, are not tombstoned
  grants,      \* active global role grants, as <<account, role>>
  queued,      \* closes on a post-commit queue, their transaction committed
  committed,   \* history: what any loss of authority so far names
  silent       \* those of committed that queued no close

db_vars == <<credentials, expired, active, grants>>
socket_vars == <<stage, refusal, socket, armed>>
close_vars == <<queued, committed, silent>>
admission_vars == <<registry_vars, socket_vars, db_vars, close_vars>>

Rechecks == {"credential", "account", "actor", "role"}
Stages == {"none", "upgrading", "admit", "refuse", "admitted", "open", "done"}
            \cup Rechecks

AdmissionTypeOK ==
  /\ RegistryTypeOK
  /\ stage \in [Connections -> Stages]
  /\ refusal \in [Connections -> {"session_revoked", "permission_revoked",
                                  "internal_error", Null}]
  /\ socket \in [Connections -> {"none", "open", "closed"}]
  /\ armed \subseteq Connections
  /\ credentials \subseteq Credentials
  /\ expired \subseteq Credentials
  /\ active \subseteq Accounts
  /\ grants \subseteq Accounts \X Roles
  /\ queued \subseteq committed
  /\ committed \subseteq Targets
  /\ silent \subseteq committed

AdmissionInit ==
  /\ RegistryInit
  /\ stage = [c \in Connections |-> "none"]
  /\ refusal = [c \in Connections |-> Null]
  /\ socket = [c \in Connections |-> "none"]
  /\ armed = {}
  /\ credentials = Credentials
  /\ expired = {}
  /\ active = Accounts
  /\ grants = Accounts \X Roles
  /\ queued = {}
  /\ committed = {}
  /\ silent = {}

-----------------------------------------------------------------------------
(* What the gates and the re-check read.                                   *)

CredentialOf(c) == {Identity[c].session_hash, Identity[c].api_token_id} \ {Null}

\* vacuous for a daemon token, which has no row and no deadline
RowPresent(c) == CredentialOf(c) \subseteq credentials
DeadlinePassed(c) == CredentialOf(c) \cap expired # {}
AccountActive(c) == Identity[c].account_id \in active
RoleHeld(c) ==
  \/ Identity[c].required_roles = {}
  \/ \E r \in Identity[c].required_roles :
       <<Identity[c].account_id, r>> \in grants

Authorized(c) ==
  RowPresent(c) /\ ~DeadlinePassed(c) /\ AccountActive(c) /\ RoleHeld(c)

-----------------------------------------------------------------------------
(* The upgrade.                                                            *)

\* The socket's abort listener: a socket whose controller fires stops its
\* credential deadline in the same step, whoever fired it.  It runs once.
AbortListeners == armed' = armed \ (aborted' \ aborted)

StageTo(c, s) == stage' = [stage EXCEPT ![c] = s]

RefuseWith(c, code) ==
  /\ StageTo(c, "refuse")
  /\ refusal' = [refusal EXCEPT ![c] = code]

(* The middleware and the upgrade route's gates resolved the credential.   *)
PassGates(c) ==
  /\ stage[c] = "none"
  /\ Authorized(c)
  /\ StageTo(c, "upgrading")
  /\ UNCHANGED <<registry_vars, refusal, socket, armed, db_vars, close_vars>>

(* onOpen, up to the re-check's first await.  A registration that is born  *)
(* closed is dropped without a re-check.                                   *)
OnOpen(c) ==
  /\ stage[c] = "upgrading"
  /\ RegisterPending(c)
  /\ socket' = [socket EXCEPT ![c] = "open"]
  /\ StageTo(c, IF closing THEN "done" ELSE "credential")
  /\ UNCHANGED <<refusal, armed, db_vars, close_vars>>

(***************************************************************************)
(* One read of recheck_admission: it passes or refuses.  A credential past *)
(* its deadline may still have a live row, when the cookie expired first.  *)
(***************************************************************************)
ReadCredential(c) ==
  /\ stage[c] = "credential"
  /\ \/ RowPresent(c) /\ StageTo(c, "account") /\ UNCHANGED refusal
     \/ /\ ~RowPresent(c) \/ DeadlinePassed(c)
        /\ RefuseWith(c, "session_revoked")

ReadAccount(c) ==
  /\ stage[c] = "account"
  /\ IF AccountActive(c)
       THEN StageTo(c, "actor") /\ UNCHANGED refusal
       ELSE RefuseWith(c, "session_revoked")

ReadActor(c) ==
  /\ stage[c] = "actor"
  /\ IF AccountActive(c)
       THEN /\ StageTo(c, IF Identity[c].required_roles = {} THEN "admit"
                                                              ELSE "role")
            /\ UNCHANGED refusal
       ELSE RefuseWith(c, "session_revoked")

ReadRoleNotAtAll(c) ==
  /\ stage[c] = "role"
  /\ StageTo(c, "admit") /\ UNCHANGED refusal

ReadRole(c) ==
  /\ stage[c] = "role"
  /\ IF RoleHeld(c)
       THEN StageTo(c, "admit") /\ UNCHANGED refusal
       ELSE RefuseWith(c, "permission_revoked")

ReadFailsAsRevoked(c) ==
  /\ stage[c] \in Rechecks
  /\ RefuseWith(c, "session_revoked")

(* The read itself failed: never admitted unchecked. *)
ReadFails(c) ==
  /\ stage[c] \in Rechecks
  /\ RefuseWith(c, "internal_error")

Recheck(c) ==
  /\ \/ ReadCredential(c)
     \/ ReadAccount(c)
     \/ ReadActor(c)
     \/ ReadRole(c)
     \/ ReadFails(c)
  /\ UNCHANGED <<registry_vars, socket, armed, db_vars, close_vars>>

(***************************************************************************)
(* end_socket: through the registry while it holds the connection, else by *)
(* aborting and closing the socket itself.                                 *)
(***************************************************************************)
EndSocket(c, code) ==
  \/ CloseConnection(c, code)
  \/ /\ ~Registered(c)
     /\ aborted' = aborted \cup {c}
     /\ close_code' =
          IF close_code[c] = Null /\ c \notin Broken
            THEN [close_code EXCEPT ![c] = code] ELSE close_code
     /\ UNCHANGED <<entry, age, next_age, closing, pending_close_codes,
                    closing_writers>>

(* refuse_upgrade: a socket that has already ended is sent nothing more. *)
Refuse(c) ==
  /\ stage[c] = "refuse"
  /\ IF c \in aborted THEN UNCHANGED registry_vars
                      ELSE EndSocket(c, refusal[c])
  /\ StageTo(c, "done")
  /\ AbortListeners
  /\ UNCHANGED <<refusal, socket, db_vars, close_vars>>

(* The re-check passed and the registry still holds the registration. *)
AdmitUpgrade(c) ==
  /\ stage[c] = "admit"
  /\ Admit(c)
  /\ StageTo(c, "admitted")
  /\ AbortListeners
  /\ UNCHANGED <<refusal, socket, db_vars, close_vars>>

(* The re-check passed, but the registration was closed under it. *)
AdmitUpgradeRefused(c) ==
  /\ stage[c] = "admit"
  /\ AdmitRefused(c)
  /\ IF c \in aborted THEN TakePendingCloseCode(c)
                      ELSE EndSocket(c, "session_revoked")
  /\ StageTo(c, "done")
  /\ AbortListeners
  /\ UNCHANGED <<refusal, socket, db_vars, close_vars>>

(***************************************************************************)
(* open_socket goes on in the microtask after the admission: the deadline  *)
(* timer is started, or fires at once when it has already passed.          *)
(***************************************************************************)
StartDeadlineEvenIfEnded(c) ==
  /\ stage[c] = "admitted"
  /\ armed' = IF CredentialOf(c) = {} THEN armed ELSE armed \cup {c}
  /\ StageTo(c, "open")
  /\ UNCHANGED <<registry_vars, refusal, socket, db_vars, close_vars>>

StartDeadline(c) ==
  /\ stage[c] = "admitted"
  /\ IF c \notin aborted /\ DeadlinePassed(c)
       THEN EndSocket(c, "session_revoked") /\ UNCHANGED armed
       ELSE /\ armed' = IF c \in aborted \/ CredentialOf(c) = {}
                          THEN armed ELSE armed \cup {c}
            /\ UNCHANGED registry_vars
  /\ StageTo(c, "open")
  /\ UNCHANGED <<refusal, socket, db_vars, close_vars>>

-----------------------------------------------------------------------------
(* How a socket ends.                                                      *)

DeadlineFires(c) ==
  /\ c \in armed
  /\ DeadlinePassed(c)
  /\ EndSocket(c, "session_revoked")
  /\ AbortListeners
  /\ UNCHANGED <<stage, refusal, socket, db_vars, close_vars>>

(* A silent client, an oversized frame, a full pre-admission queue, ...    *)
(* A socket event or a timer is a task of its own, so it never falls       *)
(* between an admission and the microtask that follows it.                 *)
EndForOtherReason(c) ==
  /\ socket[c] = "open"
  /\ stage[c] # "admitted"
  /\ c \notin aborted
  /\ EndSocket(c, "other")
  /\ AbortListeners
  /\ UNCHANGED <<stage, refusal, socket, db_vars, close_vars>>

(* A frame to c did not fit its outbound budget, or its client stopped     *)
(* reading.                                                                *)
EndByOutboundBound(c) ==
  /\ CloseOverflowed(c) \/ DropStalled(c)
  /\ AbortListeners
  /\ UNCHANGED <<stage, refusal, socket, db_vars, close_vars>>

(* onClose: the client left, or answered the server's close. *)
OnClose(c) ==
  /\ socket[c] = "open"
  /\ stage[c] # "admitted"
  /\ socket' = [socket EXCEPT ![c] = "closed"]
  /\ Forgotten(c)
  /\ aborted' = aborted \cup {c}
  /\ AbortListeners
  /\ UNCHANGED <<age, next_age, closing, close_code, stage, refusal, db_vars,
                 close_vars>>

WriterSettled(c) ==
  /\ CloseSettled(c)
  /\ UNCHANGED <<socket_vars, db_vars, close_vars>>

(* AppServer.close, its step that ends the live connections. *)
Shutdown ==
  /\ ~closing
  /\ CloseAllConnections
  /\ AbortListeners
  /\ UNCHANGED <<stage, refusal, socket, db_vars, close_vars>>

-----------------------------------------------------------------------------
(* Losing authority.                                                       *)

SessionTarget(s) == [kind |-> "session", session_hash |-> s]
TokenTarget(k) == [kind |-> "token", api_token_id |-> k]
AccountTarget(a) == [kind |-> "account", account_id |-> a]
RoleTarget(a, r) == [kind |-> "role", account_id |-> a, role |-> r]

Named(t) == Cardinality(committed \cup {t}) <= MaxTargets

CloseQueuedNever(t) ==
  /\ Named(t)
  /\ committed' = committed \cup {t}
  /\ UNCHANGED <<queued, silent>>

(* The close of a handler's revocation, on the post-commit queue. *)
CloseQueued(t) ==
  /\ Named(t)
  /\ committed' = committed \cup {t}
  /\ queued' = queued \cup {t}
  /\ UNCHANGED silent

(***************************************************************************)
(* What docs/security.md lists under "What remains": a commit whose        *)
(* acknowledgement was lost throws, so its queued close is dropped; a role *)
(* grant that reaches its expires_at has no handler.                       *)
(***************************************************************************)
CloseLost(t) ==
  /\ Named(t)
  /\ Cardinality(silent) < MaxSilent
  /\ committed' = committed \cup {t}
  /\ silent' = silent \cup {t}
  /\ UNCHANGED queued

Committed(t) == CloseQueued(t) \/ CloseLost(t)

(* account_session_revoke, an eviction by the session cap at login, the    *)
(* sweep of an expired session.                                            *)
RevokeSession(s) ==
  /\ s \in credentials
  /\ credentials' = credentials \ {s}
  /\ Committed(SessionTarget(s))
  /\ UNCHANGED <<registry_vars, socket_vars, expired, active, grants>>

(* account_token_revoke, an eviction by the token cap at token creation. *)
RevokeToken(k) ==
  /\ k \in credentials
  /\ credentials' = credentials \ {k}
  /\ Committed(TokenTarget(k))
  /\ UNCHANGED <<registry_vars, socket_vars, expired, active, grants>>

CredentialsOf(a) == {k \in credentials : Owner[k] = a}

(* logout ends one session of the account, the revoke-alls its sessions or *)
(* its tokens, a password change both; each closes the whole account.      *)
RevokeFromAccount(a) ==
  /\ a \in active
  /\ \E gone \in {{s} : s \in CredentialsOf(a) \cap Sessions}
                   \cup {CredentialsOf(a) \cap Sessions,
                         CredentialsOf(a) \cap Tokens, CredentialsOf(a)} :
       credentials' = credentials \ gone
  /\ Committed(AccountTarget(a))
  /\ UNCHANGED <<registry_vars, socket_vars, expired, active, grants>>

DeleteAccount(a) ==
  /\ a \in active
  /\ active' = active \ {a}
  /\ credentials' = credentials \ CredentialsOf(a)
  /\ Committed(AccountTarget(a))
  /\ UNCHANGED <<registry_vars, socket_vars, expired, grants>>

UndeleteAccount(a) ==
  /\ a \notin active
  /\ active' = active \cup {a}
  /\ UNCHANGED <<registry_vars, socket_vars, credentials, expired, grants,
                 close_vars>>

(* role_grant_revoke of a global grant, self_service_role_set. *)
RevokeRole(a, r) ==
  /\ <<a, r>> \in grants
  /\ grants' = grants \ {<<a, r>>}
  /\ Committed(RoleTarget(a, r))
  /\ UNCHANGED <<registry_vars, socket_vars, credentials, expired, active>>

GrantRole(a, r) ==
  /\ <<a, r>> \notin grants
  /\ grants' = grants \cup {<<a, r>>}
  /\ UNCHANGED <<registry_vars, socket_vars, credentials, expired, active,
                 close_vars>>

Expire(k) ==
  /\ Cardinality(expired \cup {k}) <= MaxExpired
  /\ expired' = expired \cup {k}
  /\ UNCHANGED <<registry_vars, socket_vars, credentials, active, grants,
                 close_vars>>

(* A queued close runs, its revocation having committed. *)
RunClose(t) ==
  /\ t \in queued
  /\ queued' = queued \ {t}
  /\ CloseConnections(t)
  /\ AbortListeners
  /\ UNCHANGED <<stage, refusal, socket, db_vars, committed, silent>>

-----------------------------------------------------------------------------

SocketStep(c) ==
  \/ PassGates(c)
  \/ OnOpen(c)
  \/ Recheck(c)
  \/ Refuse(c)
  \/ AdmitUpgrade(c)
  \/ AdmitUpgradeRefused(c)
  \/ StartDeadline(c)
  \/ DeadlineFires(c)
  \/ EndForOtherReason(c)
  \/ EndByOutboundBound(c)
  \/ OnClose(c)
  \/ WriterSettled(c)

AuthorityStep ==
  \/ \E s \in Sessions : RevokeSession(s)
  \/ \E k \in Tokens : RevokeToken(k)
  \/ \E k \in Credentials : Expire(k)
  \/ \E a \in Accounts : \/ RevokeFromAccount(a)
                         \/ DeleteAccount(a)
                         \/ UndeleteAccount(a)
  \/ \E a \in Accounts, r \in Roles : RevokeRole(a, r) \/ GrantRole(a, r)

AdmissionNext ==
  \/ \E c \in Connections : SocketStep(c)
  \/ AuthorityStep
  \/ \E t \in Targets : RunClose(t)
  \/ Shutdown

AdmissionSafetySpec == AdmissionInit /\ [][AdmissionNext]_admission_vars

(***************************************************************************)
(* The event loop runs every continuation, the post-commit queue is        *)
(* flushed by the request that filled it, timers fire, and a socket the    *)
(* server closed reports its close: the adapter ends a close handshake the *)
(* client withholds.  Nothing is assumed of clients or of revocations.     *)
(***************************************************************************)
AdmissionFairness ==
  /\ \A c \in Connections :
       /\ WF_admission_vars(Recheck(c))
       /\ WF_admission_vars(Refuse(c))
       /\ WF_admission_vars(AdmitUpgrade(c) \/ AdmitUpgradeRefused(c))
       /\ WF_admission_vars(StartDeadline(c))
       /\ WF_admission_vars(DeadlineFires(c))
       /\ WF_admission_vars(c \in aborted /\ OnClose(c))
  /\ \A t \in Targets : WF_admission_vars(RunClose(t))

AdmissionSpec == AdmissionSafetySpec /\ AdmissionFairness
-----------------------------------------------------------------------------
(* Correctness.                                                            *)

\* Losses of authority the server knows it must still close for, and those
\* it will never close for.
OwedBy(c, targets) == \E t \in targets : Matches(c, t)

\* A passed deadline owes a close for as long as a timer will make it.
OwedByDeadline(c) == DeadlinePassed(c) /\ (c \in armed \/ stage[c] # "open")

Owed(c) == OwedBy(c, queued) \/ OwedBy(c, silent) \/ OwedByDeadline(c)

(***************************************************************************)
(* The admission guarantee.  An admitted connection still has the          *)
(* credential, the account and the role it opened with, or the revocation  *)
(* that took them is committed and its close has not run yet, or its       *)
(* deadline is about to close it.  It holds however the revocation falls   *)
(* among the gates, the registration, the reads of the re-check, and the   *)
(* admission - except for the losses that docs/security.md says close      *)
(* nothing.                                                                *)
(***************************************************************************)
AdmittedOnAuthority ==
  \A c \in Connections : entry[c] = "admitted" => Authorized(c) \/ Owed(c)

(***************************************************************************)
(* A client takes session_revoked as permanent and stops reconnecting, and *)
(* permission_revoked as the loss of a role.  So neither is ever sent for  *)
(* another reason: not for a shutdown that found the upgrade pending, not  *)
(* for a re-check that failed, not for a connection the cap closed.        *)
(***************************************************************************)
RevocationCodesAreTrue ==
  \A c \in Connections :
    /\ close_code[c] = "session_revoked" =>
         \/ DeadlinePassed(c)
         \/ \E t \in committed : t.kind # "role" /\ Matches(c, t)
    /\ close_code[c] = "permission_revoked" =>
         \E t \in committed : t.kind = "role" /\ Matches(c, t)

(***************************************************************************)
(* Once a socket's close event has been handled nothing of it is left: no  *)
(* entry, no recorded close code, no writer with a deadline, no running    *)
(* credential timer, whatever order its admission, its close and its       *)
(* revocation came in.                                                     *)
(***************************************************************************)
NothingOutlivesTheSocket ==
  \A c \in Connections :
    socket[c] = "closed" =>
      /\ ~Registered(c)
      /\ pending_close_codes[c] = Null
      /\ c \notin closing_writers
      /\ c \notin armed

(* A code that tells a client to stop is true, and nothing of a socket is  *)
(* left after its close.                                                   *)
ClosesAreTrueAndFinal == RevocationCodesAreTrue /\ NothingOutlivesTheSocket

(***************************************************************************)
(* The mechanism implements the promise.  A connection is over when it has *)
(* ended or been refused; "owed" is every close still to come.             *)
(***************************************************************************)
Abstract == INSTANCE RevocableConnections WITH
  authorized <- {c \in Connections : Authorized(c)},
  owed <- {c \in Connections : Owed(c)},
  live <- {c \in Connections : entry[c] = "admitted"},
  over <- {c \in Connections : entry[c] = "gone"}

ImplementsThePromise == Abstract!AbstractSpec

(***************************************************************************)
(* A connection whose authority is lost is closed, unless the authority    *)
(* comes back first or its loss was one that closes nothing.               *)
(***************************************************************************)
LostAuthorityIsClosed ==
  \A c \in Connections :
    (entry[c] = "admitted" /\ ~Authorized(c))
      ~> (entry[c] = "gone" \/ Authorized(c) \/ OwedBy(c, silent))

(* The shutdown ends every socket, one that opens after it included. *)
ShutdownEndsEverySocket ==
  \A c \in Connections :
    (closing /\ socket[c] = "open") ~> socket[c] = "closed"

(* Nothing is left open that was to be closed. *)
WhatIsOwedIsClosed == LostAuthorityIsClosed /\ ShutdownEndsEverySocket
=============================================================================
