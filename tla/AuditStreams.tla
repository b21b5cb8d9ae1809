---------------------------- MODULE AuditStreams ----------------------------
(***************************************************************************)
(* The audit log as a stream of server-sent events: how a stream of one    *)
(* account is opened, and what ends it (audit_log_routes.ts, the           *)
(* SseRegistry, resolved_auth.ts, sse.ts, credential_deadline.ts).         *)
(*                                                                         *)
(* The route has no transaction: each read of an opening is a snapshot of  *)
(* its own, and a revocation commits between any two of them.  The close   *)
(* of a revocation runs some time after its commit.                        *)
(***************************************************************************)
EXTENDS Naturals, FiniteSets

CONSTANTS
    Streams,        \* each is opened once
    Sessions,       \* the account's sessions, and
    Tokens,         \* its API tokens
    MaxPerScope,    \* AUDIT_LOG_SSE_MAX_PER_SCOPE
    MaxQueue        \* frames within SSE_OUTBOUND_QUEUE_BYTES

VARIABLES
    live,           \* the committed credentials
    expired,        \* sessions past their expires_at
    active,         \* the account is not deleted
    role,           \* it holds the required role
    closes,         \* what committed revocations are still to close
    unheard,        \* what revocations ended whose commit was reported as failed
    stream,
    subscribers,    \* the registry's: each with how many have registered after it
    closing         \* close_all has run

stream_vars == <<live, expired, active, role, closes, unheard, stream, subscribers,
                 closing>>
authority == <<live, expired, active, role>>

Credentials == Sessions \cup Tokens

IsOpen(s) == stream[s].pc = "open"
Over == [pc |-> "ended"]

StreamsInit ==
    /\ live = Credentials
    /\ expired = {}
    /\ active = TRUE
    /\ role = TRUE
    /\ closes = {}
    /\ unheard = {}
    /\ stream = [s \in Streams |-> [pc |-> "idle"]]
    /\ subscribers = <<>>
    /\ closing = FALSE

------------------------------------------------------------------------------
(***************************************************************************)
(* Opening.                                                                *)
(***************************************************************************)

At(s, pc) == stream' = [stream EXCEPT ![s] = IF pc = "ended" THEN Over ELSE [@ EXCEPT !.pc = pc]]
Without(gone) == [s \in DOMAIN subscribers \ gone |-> subscribers[s]]

\* The middleware finds the credential.
Authenticate(s, c) ==
    /\ stream[s].pc = "idle"
    /\ c \in live \ expired
    /\ stream' = [stream EXCEPT ![s] = [pc |-> "authorize", credential |-> c, queued |-> 0]]
    /\ UNCHANGED <<authority, closes, unheard, subscribers, closing>>

\* The authorization phase and the role guard.
Authorize(s) ==
    /\ stream[s].pc = "authorize"
    /\ At(s, IF active /\ role THEN "subscribe" ELSE "ended")
    /\ UNCHANGED <<authority, closes, unheard, subscribers, closing>>

\* subscribe_pending registers the stream before anything is read again; a registry
\* that is closing lets it in no more, and the route skips the reading.
SubscribePending(s) ==
    /\ stream[s].pc = "subscribe"
    /\ At(s, IF closing THEN "admit" ELSE "credential")
    /\ subscribers' = IF closing THEN subscribers
                      ELSE [t \in DOMAIN subscribers \cup {s} |->
                              IF t = s THEN 0 ELSE subscribers[t] + 1]
    /\ UNCHANGED <<authority, closes, unheard, closing>>

\* recheck_admission reads the credential, the account with its actor, the role.
Recheck(s, here, holds, next) ==
    /\ stream[s].pc = here
    /\ At(s, IF holds THEN next ELSE "ended")
    /\ subscribers' = IF holds THEN subscribers ELSE Without({s})
    /\ UNCHANGED <<authority, closes, unheard, closing>>

RecheckCredential(s) ==
    Recheck(s, "credential", stream[s].credential \in live \ expired, "account")
RecheckAccount(s) == Recheck(s, "account", active, "role")
RecheckRole(s) == Recheck(s, "role", role, "admit")

\* A read fails: the request fails, unless the server is shutting down.
RecheckFails(s) ==
    /\ stream[s].pc \in {"credential", "account", "role"}
    /\ At(s, IF closing THEN "admit" ELSE "ended")
    /\ subscribers' = Without({s})
    /\ UNCHANGED <<authority, closes, unheard, closing>>

\* The admitted streams of a session, and the oldest of them, which make room for one.
OpenUnder(c) == {t \in DOMAIN subscribers : IsOpen(t) /\ stream[t].credential = c}

Evicted(s) ==
    LET same == OpenUnder(stream[s].credential)
        Newer(t) == {u \in same : subscribers[u] < subscribers[t]}
    IN  IF stream[s].credential \in Sessions
        THEN {t \in same : Cardinality(Newer(t)) >= MaxPerScope - 1} ELSE {}

\* create_sse_response has written its first frame.
Opened(s) == [stream[s] EXCEPT !.pc = "open", !.queued = 1]

\* admit of a stream whose registration is gone.
AdmitUnregistered(s) ==
    /\ stream[s].pc = "admit"
    /\ stream' = [t \in Streams |-> IF t = s THEN Opened(s)
                                    ELSE IF t \in Evicted(s) THEN Over ELSE stream[t]]
    /\ subscribers' = Without(Evicted(s))
    /\ UNCHANGED <<authority, closes, unheard, closing>>

\* admit refuses a stream that a close has taken out of the registry meanwhile.
Admit(s) ==
    /\ stream[s].pc = "admit"
    /\ IF s \in DOMAIN subscribers
       THEN /\ stream' = [t \in Streams |->
                            IF t = s THEN Opened(s)
                            ELSE IF t \in Evicted(s) THEN Over ELSE stream[t]]
            /\ subscribers' = Without(Evicted(s))
       ELSE At(s, "ended") /\ UNCHANGED subscribers
    /\ UNCHANGED <<authority, closes, unheard, closing>>

------------------------------------------------------------------------------
(***************************************************************************)
(* Ending.                                                                 *)
(***************************************************************************)

\* A close or an end of streams: they leave the registry; the ones open are ended.
\* A pending one finds out at its admission.
Ended(gone) ==
    /\ stream' = [s \in Streams |-> IF s \in gone /\ IsOpen(s) THEN Over ELSE stream[s]]
    /\ subscribers' = Without(gone)

\* A revocation commits, and its close is queued; or dropped, when the request is
\* told that the commit failed.
Commits(target) ==
    /\ \/ closes' = closes \cup {target} /\ UNCHANGED unheard
       \/ unheard' = unheard \cup {target} /\ UNCHANGED closes
    /\ UNCHANGED <<expired, stream, subscribers, closing>>

Revoke(c) ==
    /\ c \in live
    /\ live' = live \ {c}
    /\ Commits(c)
    /\ UNCHANGED <<active, role>>

\* All sessions or all tokens: the close names the account.
RevokeAll(kind) ==
    /\ kind \cap live # {}
    /\ live' = live \ kind
    /\ Commits("account")
    /\ UNCHANGED <<active, role>>

DeleteAccount ==
    /\ active
    /\ active' = FALSE
    /\ live' = {}
    /\ Commits("account")
    /\ UNCHANGED role

RevokeRole ==
    /\ role
    /\ "role" \notin closes         \* bound: one at a time
    /\ role' = FALSE
    /\ Commits("role")
    /\ UNCHANGED <<live, active>>

GrantRole ==
    /\ ~role
    /\ role' = TRUE
    /\ unheard' = unheard \ {"role"}
    /\ UNCHANGED <<live, expired, active, closes, stream, subscribers, closing>>

\* What a close names: a session as a scope; a token, and the account for both its
\* own closes and those of the required role, as a group.
Named(target) ==
    {s \in DOMAIN subscribers : target \in {"account", "role", stream[s].credential}}

Close(target) ==
    /\ target \in closes
    /\ closes' = closes \ {target}
    /\ Ended(Named(target))
    /\ UNCHANGED <<authority, unheard, closing>>

CloseAll ==
    /\ ~closing
    /\ closing' = TRUE
    /\ Ended(DOMAIN subscribers)
    /\ UNCHANGED <<authority, closes, unheard>>

Expire(c) ==
    /\ c \in live \ expired
    /\ expired' = expired \cup {c}
    /\ UNCHANGED <<live, active, role, closes, unheard, stream, subscribers, closing>>

\* The credential's deadline, at the admission at once, or by a timer.
DeadlineFires(s) ==
    /\ IsOpen(s) /\ stream[s].credential \in expired
    /\ Ended({s})
    /\ UNCHANGED <<authority, closes, unheard, closing>>

Disconnect(s) ==
    /\ IsOpen(s)
    /\ Ended({s})
    /\ UNCHANGED <<authority, closes, unheard, closing>>

\* A frame for some streams, all of them by broadcast, one by its keep-alive; one
\* whose budget it does not fit is ended.
Send(to) ==
    LET full == {s \in to : stream[s].queued = MaxQueue}
    IN  /\ to # {}
        /\ stream' = [s \in Streams |->
                        IF s \in full THEN Over
                        ELSE IF s \in to THEN [stream[s] EXCEPT !.queued = @ + 1]
                        ELSE stream[s]]
        /\ subscribers' = Without(full)
        /\ UNCHANGED <<authority, closes, unheard, closing>>

Broadcast == Send({s \in Streams : IsOpen(s)})
KeepAlive(s) == IsOpen(s) /\ Send({s})

FrameWritten(s) ==
    /\ IsOpen(s) /\ stream[s].queued > 0
    /\ stream' = [stream EXCEPT ![s].queued = @ - 1]
    /\ UNCHANGED <<authority, closes, unheard, subscribers, closing>>

StreamsNext ==
    \/ \E s \in Streams :
        \/ \E c \in Credentials : Authenticate(s, c)
        \/ Authorize(s) \/ SubscribePending(s)
        \/ RecheckCredential(s) \/ RecheckAccount(s) \/ RecheckRole(s) \/ RecheckFails(s)
        \/ Admit(s)
        \/ DeadlineFires(s) \/ Disconnect(s) \/ KeepAlive(s) \/ FrameWritten(s)
    \/ \E c \in Credentials : Revoke(c)
    \/ \E c \in Sessions : Expire(c)
    \/ RevokeAll(Sessions) \/ RevokeAll(Tokens) \/ DeleteAccount
    \/ RevokeRole \/ GrantRole
    \/ \E target \in closes : Close(target)
    \/ CloseAll \/ Broadcast

StreamsSpec == StreamsInit /\ [][StreamsNext]_stream_vars

------------------------------------------------------------------------------
(***************************************************************************)
(* Correctness.                                                            *)
(***************************************************************************)

\* An open stream has its credential, its account and the role, or the close that
\* names it is still to run, whatever was revoked between two reads of its opening;
\* only a commit reported as failed leaves one behind.  No stream is open once the
\* server has closed them all, however it was being opened, and a session never
\* has more than its share.
OnlyEntitledStreamsStay ==
    /\ \A s \in Streams : IsOpen(s) =>
        /\ \/ stream[s].credential \in live /\ active /\ role
           \/ {"account", "role", stream[s].credential} \cap (closes \cup unheard) # {}
        /\ s \in DOMAIN subscribers
        /\ ~closing
    /\ \A c \in Sessions :
        Cardinality({s \in Streams : IsOpen(s) /\ stream[s].credential = c}) <= MaxPerScope
=============================================================================
