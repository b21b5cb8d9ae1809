---------------------------- MODULE SocketClient ----------------------------
(***************************************************************************)
(* The browser's WebSocket client (actions/socket.svelte.ts): one socket   *)
(* at a time, requests in flight on it, a queue for those made while it is *)
(* down, a reconnect timer, a heartbeat, and the close codes after which   *)
(* it stays down.                                                          *)
(*                                                                         *)
(* The application calls the client's methods when it likes.  The socket   *)
(* is external: it opens or fails, its send may throw, it may be closing   *)
(* for long before its close event.  Its events reach only the socket the  *)
(* client listens to, which is its current one.  Delays are left out.      *)
(***************************************************************************)
EXTENDS Naturals, SequencesExt

CONSTANTS
  MaxQueueSize,    \* queue.max_size
  MaxRequests,     \* bound on the requests made, heartbeats included
  MaxSockets       \* bound on the sockets created

ClientAssumption == {MaxQueueSize, MaxRequests, MaxSockets} \subseteq Nat

VARIABLES
  auto_reconnect, heartbeat_enabled,    \* the policies
  status,           \* "initial", "connecting", "connected", "reconnecting", "closed"
  ws,               \* the current socket's readyState, "none" without one
  sockets,          \* how many were created; the current one's number
  revoked, superseded,
  reconnect_timeout, heartbeat_timer,
  heartbeat,        \* the heartbeat request last made, 0 before any
  requests,         \* how many were made; the last one's id
  pending,          \* ids in flight
  queue,            \* ids not sent yet
  promise,          \* what became of each request
  sent_on,          \* history: the socket a request was sent on, 0 before
  sends,            \* history: how often the frame of a request has left
  stranded,         \* history: ids in flight on a closing socket torn down
  stays_down        \* history: closed for good until connect is called

link_vars == <<status, ws, sockets, revoked, superseded, stays_down>>
timer_vars == <<reconnect_timeout, heartbeat_timer>>
request_vars == <<heartbeat, requests, pending, queue, promise, sent_on, sends,
                  stranded>>
policy_vars == <<auto_reconnect, heartbeat_enabled>>
client_vars == <<policy_vars, link_vars, timer_vars, request_vars>>

Made == 1..requests

ClientInit ==
  /\ auto_reconnect \in BOOLEAN /\ heartbeat_enabled \in BOOLEAN
  /\ status = "initial" /\ ws = "none" /\ sockets = 0
  /\ revoked = FALSE /\ superseded = FALSE /\ stays_down = FALSE
  /\ reconnect_timeout = FALSE /\ heartbeat_timer = FALSE
  /\ heartbeat = 0 /\ requests = 0
  /\ pending = {} /\ queue = <<>> /\ promise = <<>>
  /\ sent_on = <<>> /\ sends = <<>>
  /\ stranded = {}

-----------------------------------------------------------------------------
(* What becomes of requests.                                               *)

Reject(ids) ==
  promise' = [id \in Made |-> IF id \in ids THEN "rejected" ELSE promise[id]]

ForgetPending ==
  /\ pending' = {}
  /\ UNCHANGED <<promise, queue>>

RequeuePending ==
  /\ queue' = SetToSeq(pending) \o queue
  /\ pending' = {}
  /\ UNCHANGED promise

RejectPendingOnly ==
  /\ Reject(pending)
  /\ pending' = {}
  /\ UNCHANGED queue

RejectAll ==
  /\ Reject(pending \cup ToSet(queue))
  /\ pending' = {}
  /\ queue' = <<>>

NoRequests == UNCHANGED <<pending, queue, promise>>

-----------------------------------------------------------------------------
(* Opening and tearing down.                                               *)

(***************************************************************************)
(* #teardown: the listeners go with the socket.  What is in flight is      *)
(* rejected if the socket was open or opening; a closing one is left.      *)
(***************************************************************************)
Teardown ==
  /\ stranded' = IF ws = "closing" THEN stranded \cup pending ELSE stranded
  /\ IF ws \in {"connecting", "open"} THEN RejectPendingOnly ELSE NoRequests

ScheduleReconnect ==
  /\ status' = "reconnecting"
  /\ reconnect_timeout' = TRUE

(* A new socket, or a constructor that throws. *)
NewSocket ==
  \/ /\ sockets < MaxSockets
     /\ sockets' = sockets + 1
     /\ ws' = "connecting" /\ status' = "connecting"
     /\ reconnect_timeout' = FALSE
  \/ /\ ws' = "none"
     /\ UNCHANGED sockets
     /\ IF auto_reconnect THEN ScheduleReconnect
                          ELSE status' = "closed" /\ reconnect_timeout' = FALSE

(* connect, called by the application or by the reconnect timer. *)
Connect ==
  /\ ~revoked
  /\ superseded' = FALSE
  /\ stays_down' = FALSE
  /\ heartbeat_timer' = (heartbeat_timer /\ ws = "none")
  /\ Teardown
  /\ NewSocket
  /\ UNCHANGED <<policy_vars, revoked, heartbeat, requests, sent_on, sends>>

ReconnectFires ==
  /\ reconnect_timeout
  /\ Connect

Disconnect ==
  /\ status' = "closed" /\ ws' = "none"
  /\ reconnect_timeout' = FALSE /\ heartbeat_timer' = FALSE
  /\ RejectAll
  /\ UNCHANGED <<policy_vars, sockets, revoked, superseded, stays_down,
                 heartbeat, requests, sent_on, sends, stranded>>

(* A scheduled reconnect is cancelled with the policy; the queue stays. *)
SetReconnect(auto) ==
  /\ auto_reconnect' = auto
  /\ IF reconnect_timeout /\ ~auto
       THEN status' = "closed" /\ reconnect_timeout' = FALSE
       ELSE UNCHANGED <<status, reconnect_timeout>>
  /\ UNCHANGED <<heartbeat_enabled, ws, sockets, revoked, superseded, stays_down, heartbeat_timer,
                 request_vars>>

(* When connected the timer is restarted under the new policy. *)
SetHeartbeat(enabled) ==
  /\ heartbeat_enabled' = enabled
  /\ heartbeat_timer' = (enabled /\ status = "connected")
  /\ UNCHANGED <<auto_reconnect, link_vars, reconnect_timeout, request_vars>>

CancelReconnect ==
  /\ reconnect_timeout
  /\ reconnect_timeout' = FALSE
  /\ status' = "closed"
  /\ UNCHANGED <<policy_vars, ws, sockets, revoked, superseded, stays_down,
                 heartbeat_timer, request_vars>>

-----------------------------------------------------------------------------
(* Requests.                                                               *)

NewRequest(outcome) ==
  /\ requests < MaxRequests
  /\ requests' = requests + 1
  /\ promise' = Append(promise, outcome)

(* The socket took the frame; a closing one drops it without a word. *)
RequestSent ==
  /\ status = "connected"
  /\ NewRequest("waiting")
  /\ pending' = pending \cup {requests'}
  /\ sent_on' = Append(sent_on, sockets)
  /\ sends' = Append(sends, IF ws = "open" THEN 1 ELSE 0)
  /\ UNCHANGED queue

(* Not connected, or the socket's send threw. *)
RequestQueued ==
  /\ ~revoked
  /\ Len(queue) < MaxQueueSize
  /\ NewRequest("waiting")
  /\ queue' = Append(queue, requests')
  /\ sent_on' = Append(sent_on, 0) /\ sends' = Append(sends, 0)
  /\ UNCHANGED pending

(* Revoked, the queue is full, or the call may not queue. *)
RequestRejected ==
  /\ NewRequest("rejected")
  /\ sent_on' = Append(sent_on, 0) /\ sends' = Append(sends, 0)
  /\ UNCHANGED <<pending, queue>>

Request ==
  /\ RequestSent \/ RequestQueued \/ RequestRejected
  /\ UNCHANGED <<policy_vars, link_vars, timer_vars, heartbeat, stranded>>

(* The caller's signal aborts it; one in flight is cancelled too. *)
Abort(id) ==
  /\ promise[id] = "waiting"
  /\ promise' = [promise EXCEPT ![id] = "rejected"]
  /\ pending' = pending \ {id}
  /\ queue' = RemoveFirst(queue, id)
  /\ UNCHANGED <<policy_vars, link_vars, timer_vars, heartbeat, requests,
                 sent_on, sends, stranded>>

HeartbeatInFlight == heartbeat # 0 /\ promise[heartbeat] = "waiting"

(* The tick sends a heartbeat unless one is in flight; it never queues. *)
HeartbeatTick ==
  /\ heartbeat_timer /\ status = "connected"
  /\ ~HeartbeatInFlight
  /\ RequestSent \/ RequestRejected
  /\ heartbeat' = requests'
  /\ UNCHANGED <<policy_vars, link_vars, timer_vars, stranded>>

(* Silence: the tick closes the socket, whose close event is to come. *)
HeartbeatTimeout ==
  /\ heartbeat_timer /\ status = "connected"
  /\ ws = "open"
  /\ ws' = "closing"
  /\ UNCHANGED <<policy_vars, status, sockets, revoked, superseded,
                 stays_down, timer_vars, request_vars>>

-----------------------------------------------------------------------------
(* Events of the current socket.                                           *)

(***************************************************************************)
(* open: the queue is flushed; the socket may throw on any of it, which    *)
(* rejects that request.                                                   *)
(***************************************************************************)
HandleOpen ==
  /\ ws = "connecting"
  /\ ws' = "open" /\ status' = "connected"
  /\ reconnect_timeout' = FALSE /\ heartbeat_timer' = heartbeat_enabled
  /\ \E refused \in SUBSET ToSet(queue) :
       LET taken == ToSet(queue) \ refused
       IN /\ Reject(refused)
          /\ pending' = pending \cup taken
          /\ sent_on' = [id \in Made |-> IF id \in taken THEN sockets ELSE sent_on[id]]
          /\ sends' = [id \in Made |-> IF id \in taken THEN sends[id] + 1 ELSE sends[id]]
  /\ queue' = <<>>
  /\ UNCHANGED <<policy_vars, sockets, revoked, superseded, stays_down,
                 heartbeat, requests, stranded>>

(* The peer closes, or the network fails: the close event is to come. *)
SocketCloses ==
  /\ ws = "open"
  /\ ws' = "closing"
  /\ UNCHANGED <<policy_vars, status, sockets, revoked, superseded,
                 stays_down, timer_vars, request_vars>>

Closed(from) ==
  /\ ws \in from
  /\ ws' = "none"
  /\ heartbeat_timer' = FALSE
  /\ UNCHANGED <<policy_vars, sockets, heartbeat, requests, sent_on, sends,
                 stranded>>

(* A close after which nothing reopens the socket but a call of connect. *)
ClosedForGood ==
  /\ Closed({"closing"})
  /\ status' = "closed"
  /\ reconnect_timeout' = FALSE
  /\ stays_down' = TRUE
  /\ RejectAll

HandleSessionRevoked ==
  /\ ClosedForGood
  /\ revoked' = TRUE
  /\ UNCHANGED superseded

HandleConnectionLimit ==
  /\ ClosedForGood
  /\ superseded' = TRUE
  /\ UNCHANGED revoked

PermissionRevokedAsAnyClose ==
  /\ Closed({"closing"})
  /\ RejectPendingOnly
  /\ ScheduleReconnect
  /\ stays_down' = TRUE
  /\ UNCHANGED <<revoked, superseded>>

HandlePermissionRevoked ==
  /\ ClosedForGood
  /\ UNCHANGED <<revoked, superseded>>

(* Any other code, a failure to open among them: the queue waits for the   *)
(* reconnect, if there is one.                                             *)
HandleClose ==
  /\ Closed({"connecting", "closing"})
  /\ IF auto_reconnect
       THEN RejectPendingOnly /\ ScheduleReconnect
       ELSE RejectAll /\ status' = "closed" /\ UNCHANGED reconnect_timeout
  /\ UNCHANGED <<revoked, superseded, stays_down>>

(* The server answers a request it was sent on this socket. *)
HandleMessage(id) ==
  /\ ws \in {"open", "closing"}
  /\ id \in pending /\ sent_on[id] = sockets /\ sends[id] > 0
  /\ pending' = pending \ {id}
  /\ promise' \in {[promise EXCEPT ![id] = what] : what \in {"resolved", "rejected"}}
  /\ UNCHANGED <<policy_vars, link_vars, timer_vars, heartbeat, requests,
                 queue, sent_on, sends, stranded>>

ClientNext ==
  \/ Connect
  \/ ReconnectFires
  \/ Disconnect
  \/ \E auto \in BOOLEAN : SetReconnect(auto)
  \/ \E enabled \in BOOLEAN : SetHeartbeat(enabled)
  \/ CancelReconnect
  \/ Request
  \/ \E id \in Made : Abort(id) \/ HandleMessage(id)
  \/ HeartbeatTick
  \/ HeartbeatTimeout
  \/ HandleOpen
  \/ SocketCloses
  \/ HandleSessionRevoked
  \/ HandleConnectionLimit
  \/ HandlePermissionRevoked
  \/ HandleClose

ClientSpec == ClientInit /\ [][ClientNext]_client_vars

-----------------------------------------------------------------------------
(* Correctness.                                                            *)

(***************************************************************************)
(* No caller is forgotten: a request that is unsettled is in flight or     *)
(* queued, once, and nothing settled is either.  What is in flight is so   *)
(* on the current socket, or was stranded with a closing one: no other     *)
(* close, call or timer strands a request.  The server sees a request at   *)
(* most once: what was in flight when a socket closed is rejected, not     *)
(* sent again on the next.                                                 *)
(***************************************************************************)
EveryRequestIsTracked ==
  /\ \A id \in Made :
       promise[id] = "waiting" <=> id \in pending \cup ToSet(queue)
  /\ pending \cap ToSet(queue) = {}
  /\ \A i, j \in DOMAIN queue : queue[i] = queue[j] => i = j
  /\ \A id \in pending \ stranded : ws # "none" /\ sent_on[id] = sockets
  /\ \A id \in Made : sends[id] <= 1

(***************************************************************************)
(* After a revocation, a supersession or the loss of a required role, the  *)
(* client stays closed until connect is called: two clients past the cap   *)
(* would else close each other in a loop.  Once its session is revoked it  *)
(* stays closed for good and nobody waits for it, whatever was scheduled,  *)
(* queued or in flight.                                                    *)
(***************************************************************************)
DownUntilAsked ==
  /\ stays_down \/ revoked => ws = "none" /\ ~reconnect_timeout /\ status = "closed"
  /\ revoked => ~heartbeat_timer /\ pending = {} /\ queue = <<>>

(***************************************************************************)
(* "reject any pending requests that can never resolve now" (#teardown):   *)
(* what is in flight is in flight on the current socket.                   *)
(***************************************************************************)
TornDownRequestsReject ==
  \A id \in pending : ws # "none" /\ sent_on[id] = sockets
=============================================================================
