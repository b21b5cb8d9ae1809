----------------------------- MODULE MCSockets ------------------------------
(***************************************************************************)
(* The parts that a socket or a stream connects, one at a time: the frames *)
(* of a socket (SocketSession), the registry of connections, the browser's *)
(* socket client and its audit viewer, the legs and guards that every      *)
(* request passes (RequestAuth), the errors it is answered with            *)
(* (RouteErrors), and one action in the browser (ActionEvents).            *)
(***************************************************************************)
EXTENDS ConnectionRegistry, Sequences

CONSTANTS
    a1, a2, s1, t1, r1, r2, c1, c2, c3,
    Socket, MaxInFlight, MaxPeerRequests, RequestIds, MaxQueuedFrames, MaxQueuedBytes,
    FrameSizes, MaxMessageBytes, MaxRunning, MaxFrames,
    MaxQueueSize, MaxRequests, MaxSockets,
    Kind, Filters, PageLimit, FillLimit, MaxCalls,
    Routes, NarrowToken, MaxRotations, MaxChanges

VARIABLES
    part,
    registration, next_id, pending, owner, outcome, answered_on,
    phase, opener, gone, frames, queued_frames, queued_bytes, draining, pending_controllers,
    handler, revoking, cancelled, settled, dispatched, outbox,
    auto_reconnect, heartbeat_enabled, status, ws, sockets, revoked, superseded,
    reconnect_timeout, heartbeat_timer, heartbeat, requests, client_pending, client_queue,
    promise, sent_on, sends, stranded, stays_down,
    begun, visible, announced, stream_admitted, wire, calls, source, stream_status, events,
    list, gap_fill, gap_truncated, last_seq, fill_since, fetching_newest, fill_deferred,
    list_filter, stream_filter, floor, late, dropped,
    standing, keeper, current, previous, token_file, writing, write_failed, auth_req, stood,
    lapsed, changes,
    event, event_at, told, sent, answer, faithful, connected, will_reconnect,
    route, action, layer, credential, account, tx, queued, ran, threw, route_answer

Session == INSTANCE SocketSession WITH Connections <- {Socket}
Client == INSTANCE SocketClient WITH pending <- client_pending, queue <- client_queue
Viewer == INSTANCE AuditViewer WITH admitted <- stream_admitted

\* A public route, one that serves whoever comes, one for sessions, an admin's of a
\* surface, and the keeper's.
Open == [account |-> "none", actor |-> "none", role |-> "none", surface |-> FALSE,
         kinds |-> {"daemon_token", "session", "api_token"}]
Required == [Open EXCEPT !.account = "required", !.actor = "required"]
MCRoutes == {Open, [Open EXCEPT !.account = "optional", !.actor = "optional"],
             [Open EXCEPT !.account = "required", !.kinds = {"session"}],
             [Required EXCEPT !.role = "admin", !.surface = TRUE],
             [Required EXCEPT !.role = "keeper", !.kinds = {"daemon_token"}]}
Requests == INSTANCE RequestAuth WITH req <- auth_req

Calls == INSTANCE ActionEvents WITH at <- event_at, outcome <- told
Routing == INSTANCE RouteErrors WITH answer <- route_answer

ASSUME Client!ClientAssumption

\* No route registers that asks for a role and not for the actor who holds it
\* (http/auth_shape.ts).
ASSUME RoutesAssumption == \A asked \in Routes : asked.role # "none" => asked.actor = "required"

\* Two connections of one session behind a role gate, and one of the same account on an
\* API token, whose socket throws when it is closed.
OnSession == [session_hash |-> s1, account_id |-> a1, api_token_id |-> Null,
              required_roles |-> {r1}]
OnToken == [session_hash |-> Null, account_id |-> a1, api_token_id |-> t1,
            required_roles |-> {}]
MCIdentity == [c \in Connections |-> IF c = c3 THEN OnToken ELSE OnSession]

\* Two events of one kind.
MCKind == <<"a", "a">>

session_vars == <<registration, next_id, pending, owner, outcome, answered_on, phase,
                  opener, gone, frames, queued_frames, queued_bytes, draining,
                  pending_controllers, handler, revoking, cancelled, settled, dispatched,
                  outbox>>
client_vars == <<auto_reconnect, heartbeat_enabled, status, ws, sockets, revoked, superseded,
                 reconnect_timeout, heartbeat_timer, heartbeat, requests, client_pending,
                 client_queue, promise, sent_on, sends, stranded, stays_down>>
viewer_vars == <<begun, visible, announced, stream_admitted, wire, calls, source,
                 stream_status, events, list, gap_fill, gap_truncated, last_seq, fill_since,
                 fetching_newest, fill_deferred, list_filter, stream_filter, floor, late,
                 dropped>>
auth_vars == <<standing, keeper, current, previous, token_file, writing, write_failed,
               auth_req, stood, lapsed, changes>>
call_vars == <<event, event_at, told, sent, answer, faithful, connected, will_reconnect>>
error_vars == <<route, action, layer, credential, account, tx, queued, ran, threw,
                route_answer>>
sockets_vars == <<part, session_vars, registry_vars, client_vars, viewer_vars, auth_vars,
                  call_vars, error_vars>>

\* A client at rest has one of its policies, a route at rest is one of them.
SocketsInit ==
    /\ part \in {"session", "registry", "client", "viewer", "requests", "calls", "errors"}
    /\ Session!SessionInit /\ RegistryInit /\ Client!ClientInit
    /\ Viewer!ViewerInit /\ Requests!RequestInit
    /\ Calls!EventsInit
    /\ IF part = "errors" THEN Routing!ErrorsInit
       ELSE /\ route = "none" /\ action = "none" /\ layer = "none" /\ credential = "none"
            /\ account = "there" /\ tx = "none" /\ queued = FALSE /\ ran = FALSE
            /\ threw = FALSE /\ route_answer = "none"
    /\ part # "calls" => connected
    /\ part # "client" => auto_reconnect /\ heartbeat_enabled

SocketsNext ==
    \/ /\ part = "session" /\ Session!SessionNext
       /\ UNCHANGED <<part, registry_vars, client_vars, viewer_vars, auth_vars, call_vars,
                      error_vars>>
    \/ /\ part = "registry" /\ RegistryNext
       /\ UNCHANGED <<part, session_vars, client_vars, viewer_vars, auth_vars, call_vars,
                      error_vars>>
    \/ /\ part = "client" /\ Client!ClientNext
       /\ UNCHANGED <<part, session_vars, registry_vars, viewer_vars, auth_vars, call_vars,
                      error_vars>>
    \/ /\ part = "viewer" /\ Viewer!ViewerNext
       /\ UNCHANGED <<part, session_vars, registry_vars, client_vars, auth_vars, call_vars,
                      error_vars>>
    \/ /\ part = "requests" /\ Requests!RequestNext
       /\ UNCHANGED <<part, session_vars, registry_vars, client_vars, viewer_vars, call_vars,
                      error_vars>>
    \/ /\ part = "calls" /\ Calls!EventsNext
       /\ UNCHANGED <<part, session_vars, registry_vars, client_vars, viewer_vars, auth_vars,
                      error_vars>>
    \/ /\ part = "errors" /\ Routing!ErrorsNext
       /\ UNCHANGED <<part, session_vars, registry_vars, client_vars, viewer_vars, auth_vars,
                      call_vars>>

SocketsParts == SocketsInit /\ [][SocketsNext]_sockets_vars

\* SocketSession: frames are handled in order, a cancel reaches its request, and a request
\* is answered once, before the close it asked for.
FramesAreServed ==
    Session!HandledInOrder /\ Session!CancelsReachTheirRequest /\ Session!AnsweredOnce

\* SocketClient: no request is lost or sent twice, and one told to stay down does.
EveryRequestIsTracked == Client!EveryRequestIsTracked /\ Client!DownUntilAsked


\* RequestAuth: verdicts are true, and the daemon token's file lets its reader in.
VerdictsWereTrue == Requests!VerdictsWereTrue /\ Requests!FileTokenIsAccepted

\* ActionEvents: an event's data is of the type it is cast to, and the caller is told what
\* happened.
ResultsAreTrue == Calls!EventsAreOfTheirType /\ Calls!ResultsAreTrue


=============================================================================
