---------------------------- MODULE PeerRequests ----------------------------
(***************************************************************************)
(* Requests of the server to a client: the pending requests of every       *)
(* connection (actions/peer_request.ts) and the registry's side of them    *)
(* (request_connection, resolve_peer_response and the drain of             *)
(* #cleanup_connection in actions/connection_registry.ts).                 *)
(*                                                                         *)
(* A request is a promise.  It is settled by the client's answer, by its   *)
(* timer, by the end of its connection, or at once.  Every operation is    *)
(* synchronous, hence one action.  A client may answer any id, on any      *)
(* connection, twice or never: ids are a counter, so it can guess one.     *)
(***************************************************************************)
EXTENDS Naturals, FiniteSets

CONSTANTS
  Connections,
  MaxInFlight,       \* max_in_flight_per_connection
  MaxPeerRequests    \* bound on the ids issued

ASSUME PeerAssumption ==
  /\ IsFiniteSet(Connections)
  /\ MaxInFlight \in Nat /\ MaxPeerRequests \in Nat

VARIABLES
  registration,    \* what the registry holds of each connection
  next_id,
  pending,         \* #pending: the unsettled ids of each connection
  owner,           \* the connection an id was issued for
  outcome,         \* what the promise of an id was resolved with: a value, an
                   \* error of the client, a timeout, connection_gone, or "none"
  answered_on      \* history: the connection whose client answered an id

peer_vars == <<next_id, pending, owner, outcome, answered_on>>

Ids == 1..MaxPeerRequests
Issued == 1..next_id

PeerInit ==
  /\ registration = [c \in Connections |-> "pending"]
  /\ next_id = 0
  /\ pending = [c \in Connections |-> {}]
  /\ owner = [id \in Issued |-> CHOOSE c \in Connections : TRUE]
  /\ outcome = [id \in Issued |-> "none"]
  /\ answered_on = [id \in Issued |-> {}]

-----------------------------------------------------------------------------
(* The pending requests.                                                   *)

(* settle: the entry and its timer go, the promise resolves. *)
SettledWith(id, what) ==
  /\ pending' = [pending EXCEPT ![owner[id]] = @ \ {id}]
  /\ outcome' = [outcome EXCEPT ![id] = what]

(* drain: with its connection, every pending request is gone. *)
DrainedOutcome(c) ==
  [id \in Issued |-> IF id \in pending[c] THEN "connection_gone" ELSE outcome[id]]

DrainSilently(c) ==
  /\ pending' = [pending EXCEPT ![c] = {}]
  /\ UNCHANGED <<outcome, next_id, owner, answered_on>>

Drain(c) ==
  /\ pending' = [pending EXCEPT ![c] = {}]
  /\ outcome' = DrainedOutcome(c)
  /\ UNCHANGED <<next_id, owner, answered_on>>

(* #cleanup_connection, the part of every way a connection ends. *)
Cleanup(c) ==
  /\ registration' = [registration EXCEPT ![c] = "gone"]
  /\ Drain(c)

-----------------------------------------------------------------------------
(* Operations of the registry.                                             *)

AdmitConnection(c) ==
  /\ registration[c] = "pending"
  /\ registration' = [registration EXCEPT ![c] = "admitted"]
  /\ UNCHANGED peer_vars

EndConnection(c) ==
  /\ registration[c] # "gone"
  /\ Cleanup(c)

MaySend(c) ==
  /\ registration[c] = "admitted"
  /\ Cardinality(pending[c]) < MaxInFlight

Issue(c, what) ==
  /\ next_id < MaxPeerRequests
  /\ next_id' = next_id + 1
  /\ owner' = [id \in Issued \cup {next_id'} |-> IF id = next_id' THEN c ELSE owner[id]]
  /\ outcome' =
       [id \in Issued \cup {next_id'} |-> IF id = next_id' THEN what ELSE outcome[id]]
  /\ answered_on' =
       [id \in Issued \cup {next_id'} |-> IF id = next_id' THEN {} ELSE answered_on[id]]

(***************************************************************************)
(* request_connection whose frame the connection's writer accepts.  One    *)
(* that is refused before an id is issued (not admitted, too many in       *)
(* flight) changes nothing.                                                *)
(***************************************************************************)
RequestConnection(c) ==
  /\ MaySend(c)
  /\ Issue(c, "none")
  /\ pending' = [pending EXCEPT ![c] = @ \cup {next_id'}]
  /\ UNCHANGED registration

(* The params are not JSON, or the socket refused the frame. *)
RequestNotAccepted(c) ==
  /\ MaySend(c)
  /\ Issue(c, "connection_gone")
  /\ UNCHANGED <<registration, pending>>

(***************************************************************************)
(* The frame overflows the connection, which ends it: the drain settles    *)
(* this request with the others, and its own settle finds nothing.         *)
(***************************************************************************)
RequestOverflows(c) ==
  /\ MaySend(c)
  /\ next_id < MaxPeerRequests
  /\ next_id' = next_id + 1
  /\ registration' = [registration EXCEPT ![c] = "gone"]
  /\ pending' = [pending EXCEPT ![c] = {}]
  /\ owner' = [id \in Issued \cup {next_id'} |-> IF id = next_id' THEN c ELSE owner[id]]
  /\ outcome' = [id \in Issued \cup {next_id'} |->
                   IF id \in pending[c] \cup {next_id'} THEN "connection_gone"
                                                       ELSE outcome[id]]
  /\ answered_on' =
       [id \in Issued \cup {next_id'} |-> IF id = next_id' THEN {} ELSE answered_on[id]]

ResolveOnAny(c, id, what) ==
  /\ registration[c] = "admitted"
  /\ id \in Issued
  /\ id \in pending[owner[id]]
  /\ SettledWith(id, what)
  /\ answered_on' = [answered_on EXCEPT ![id] = @ \cup {c}]
  /\ UNCHANGED <<registration, next_id, owner>>

(* resolve_peer_response with an id pending on this very connection. *)
ResolvePeerResponse(c, id, what) ==
  /\ registration[c] = "admitted"
  /\ id \in pending[c]
  /\ SettledWith(id, what)
  /\ answered_on' = [answered_on EXCEPT ![id] = @ \cup {c}]
  /\ UNCHANGED <<registration, next_id, owner>>

TimeoutOfASettled(id) ==
  /\ id \in Issued
  /\ SettledWith(id, "timeout")
  /\ UNCHANGED <<registration, next_id, owner, answered_on>>

PeerTimeout(id) ==
  /\ id \in Issued
  /\ id \in pending[owner[id]]
  /\ SettledWith(id, "timeout")
  /\ UNCHANGED <<registration, next_id, owner, answered_on>>

PeerNext ==
  \/ \E c \in Connections :
       \/ AdmitConnection(c)
       \/ EndConnection(c)
       \/ RequestConnection(c)
       \/ RequestNotAccepted(c)
       \/ RequestOverflows(c)
       \/ \E id \in Ids, what \in {"value", "client_error"} :
            ResolvePeerResponse(c, id, what)
  \/ \E id \in Ids : PeerTimeout(id)

PeerSpec == PeerInit /\ [][PeerNext]_<<registration, peer_vars>>

-----------------------------------------------------------------------------
(* Correctness.                                                            *)

(***************************************************************************)
(* No promise is lost and none is kept: a request is unsettled exactly     *)
(* while its connection's table holds it, hence while its timer runs, and  *)
(* only an admitted connection's table holds any.  A handler awaiting a    *)
(* client can always go on, and a connection that ended leaves nothing.    *)
(* And a client answers what its own connection was asked, whatever ids    *)
(* the clients of other connections make up.                               *)
(***************************************************************************)
AnswersStayOnTheirConnection ==
  /\ \A id \in Issued :
       /\ outcome[id] = "none" <=> id \in pending[owner[id]]
       /\ answered_on[id] \subseteq {owner[id]}
       /\ outcome[id] \in {"value", "client_error"} <=> answered_on[id] # {}
  /\ \A c \in Connections : pending[c] # {} => registration[c] = "admitted"

(* The first to settle a request wins, and nothing changes its outcome: an *)
(* answer, the timeout and the end of the connection may all be late.      *)
SettledOnce ==
  [][\A id \in Issued : outcome[id] # "none" => outcome'[id] = outcome[id]
    ]_<<registration, peer_vars>>

(* So a request is settled once, and by the client it was sent to or by    *)
(* nobody's answer.                                                        *)
SettledOnceByItsConnection == []AnswersStayOnTheirConnection /\ SettledOnce
=============================================================================
