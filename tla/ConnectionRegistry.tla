------------------------- MODULE ConnectionRegistry -------------------------
(***************************************************************************)
(* The WebSocket connection registry (actions/connection_registry.ts).     *)
(*                                                                         *)
(* A registry holds one entry per live connection, in registration order.  *)
(* An upgrade registers its connection un-admitted, re-reads its           *)
(* credential, and then asks to be admitted; a revocation closes by        *)
(* identity whatever is registered, pending or admitted; past the          *)
(* per-account cap an admission closes the account's oldest admitted       *)
(* connections; the shutdown closes everything for good.                   *)
(*                                                                         *)
(* Each operation is one synchronous run of JavaScript, hence one action.  *)
(* The specification of this module lets callers invoke the operations in  *)
(* any order; SocketAdmission composes them with the upgrade that calls    *)
(* them and the revocations that race it.  The outbound queue of a         *)
(* connection is OutboundWriter's.                                         *)
(***************************************************************************)
EXTENDS Naturals, FiniteSets

CONSTANTS
  Connections,   \* the connection ids a registry may ever hand out
  Accounts, Sessions, Tokens, Roles,
  Null,          \* an absent identity field, an absent close code, no cap
  Identity,      \* Identity[c]: the ConnectionIdentity c registers with
  Broken,        \* connections whose socket throws when it is closed
  MaxConnectionsPerAccount

IdentityRecord ==
  [session_hash : Sessions \cup {Null}, account_id : Accounts,
   api_token_id : Tokens \cup {Null}, required_roles : SUBSET Roles]

(***************************************************************************)
(* The close codes of actions/transports.ts that tell a client why.        *)
(* "other" stands for the codes a socket session picks for reasons of its  *)
(* own: heartbeat timeout, oversized message, queue overflow, failed hook. *)
(***************************************************************************)
PendingCloseCodes ==
  {"session_revoked", "permission_revoked", "going_away", "internal_error",
   "other"}

CloseCodes ==
  {"session_revoked", "permission_revoked", "going_away",
   "connection_limit", "outbound_overflow", "internal_error", "other"}

ASSUME RegistryAssumption ==
  /\ IsFiniteSet(Connections)
  /\ Identity \in [Connections -> IdentityRecord]
  /\ Broken \subseteq Connections
  /\ Null \notin Sessions \cup Tokens \cup CloseCodes
  /\ MaxConnectionsPerAccount \in (Nat \ {0}) \cup {Null}
  /\ Null \notin Nat

VARIABLES
  entry,               \* "fresh": id not handed out yet; "gone": not in the map
  age,                 \* registration order of an entry: its place in the map
  next_age,
  closing,             \* set by close_all_connections, never cleared
  pending_close_codes, \* the code a registration closed while pending got
  closing_writers,     \* closed connections whose close deadline still runs
  aborted,             \* connections whose abort controller has fired
  close_code           \* the close frame each socket was given, if any

registry_vars == <<entry, age, next_age, closing, pending_close_codes,
                   closing_writers, aborted, close_code>>

RegistryTypeOK ==
  /\ entry \in [Connections -> {"fresh", "pending", "admitted", "gone"}]
  /\ age \in [Connections -> Nat]
  /\ next_age \in Nat
  /\ closing \in BOOLEAN
  \* the cap and the outbound budget never close a pending registration
  /\ pending_close_codes \in [Connections -> PendingCloseCodes \cup {Null}]
  /\ closing_writers \subseteq Connections
  /\ aborted \subseteq Connections
  /\ close_code \in [Connections -> CloseCodes \cup {Null}]

RegistryInit ==
  /\ entry = [c \in Connections |-> "fresh"]
  /\ age = [c \in Connections |-> 0]
  /\ next_age = 1
  /\ closing = FALSE
  /\ pending_close_codes = [c \in Connections |-> Null]
  /\ closing_writers = {}
  /\ aborted = {}
  /\ close_code = [c \in Connections |-> Null]

-----------------------------------------------------------------------------
(* What a close names: connection_identity_matches.                        *)

Targets ==
  [kind : {"session"}, session_hash : Sessions]
    \cup [kind : {"token"}, api_token_id : Tokens]
    \cup [kind : {"account"}, account_id : Accounts]
    \cup [kind : {"role"}, account_id : Accounts, role : Roles]

Matches(c, t) ==
  \/ /\ t.kind = "session"
     /\ Identity[c].session_hash = t.session_hash
  \/ /\ t.kind = "token"
     /\ Identity[c].api_token_id = t.api_token_id
  \/ /\ t.kind = "account"
     /\ Identity[c].account_id = t.account_id
  \/ /\ t.kind = "role"
     /\ Identity[c].account_id = t.account_id
     /\ t.role \in Identity[c].required_roles

TargetCode(t) ==
  IF t.kind = "role" THEN "permission_revoked" ELSE "session_revoked"

Registered(c) == entry[c] \in {"pending", "admitted"}

RegisteredOf(a) ==
  {c \in Connections : Registered(c) /\ Identity[c].account_id = a}

AdmittedOf(a) ==
  {c \in Connections : entry[c] = "admitted" /\ Identity[c].account_id = a}

Older(c, d) == age[c] < age[d]

(***************************************************************************)
(* The admitted connections of account a that must go so that one more     *)
(* fits: all but the newest MaxConnectionsPerAccount - 1 of them.  The     *)
(* map iterates in registration order, so "oldest" is by registration and  *)
(* not by admission.                                                       *)
(***************************************************************************)
EvictedNewest(a) ==
  {c \in AdmittedOf(a) :
     /\ MaxConnectionsPerAccount # Null
     /\ Cardinality({d \in AdmittedOf(a) : Older(d, c)}) + 1
          >= MaxConnectionsPerAccount}

Evicted(a) ==
  {c \in AdmittedOf(a) :
     /\ MaxConnectionsPerAccount # Null
     /\ Cardinality({d \in AdmittedOf(a) : Older(c, d)}) + 1
          >= MaxConnectionsPerAccount}

(***************************************************************************)
(* What #end_connection does beside deleting the entry, to every           *)
(* connection of S: record why a pending one was closed, abort its         *)
(* controller, keep its writer until the close is settled, and hand the    *)
(* socket its close frame.  A socket's first close frame is the one it     *)
(* gets; a socket that throws gets none, and loses everything else alike.  *)
(***************************************************************************)
EndSocketsWithoutAbort(S, code) ==
  /\ pending_close_codes' =
       [c \in Connections |-> IF c \in S /\ entry[c] = "pending"
                                THEN code ELSE pending_close_codes[c]]
  /\ closing_writers' = closing_writers \cup S
  /\ close_code' =
       [c \in Connections |-> IF c \in S \ Broken /\ close_code[c] = Null
                                THEN code ELSE close_code[c]]
  /\ UNCHANGED aborted

EndSockets(S, code) ==
  /\ pending_close_codes' =
       [c \in Connections |-> IF c \in S /\ entry[c] = "pending"
                                THEN code ELSE pending_close_codes[c]]
  /\ aborted' = aborted \cup S
  /\ closing_writers' = closing_writers \cup S
  /\ close_code' =
       [c \in Connections |-> IF c \in S \ Broken /\ close_code[c] = Null
                                THEN code ELSE close_code[c]]

Removed(S) == [c \in Connections |-> IF c \in S THEN "gone" ELSE entry[c]]

EndConnections(S, code) ==
  /\ entry' = Removed(S)
  /\ EndSockets(S, code)
  /\ UNCHANGED <<age, next_age, closing>>

-----------------------------------------------------------------------------
(* Registration.                                                           *)

BornClosed(c) ==
  /\ closing
  /\ entry[c] = "fresh"
  /\ entry' = [entry EXCEPT ![c] = "gone"]
  /\ aborted' = aborted \cup {c}
  /\ close_code' =
       IF c \in Broken THEN close_code
                       ELSE [close_code EXCEPT ![c] = "going_away"]
  /\ UNCHANGED <<age, next_age, closing, pending_close_codes, closing_writers>>

Inserted(c) ==
  /\ age' = [age EXCEPT ![c] = next_age]
  /\ next_age' = next_age + 1

RegisterPending(c) ==
  \/ BornClosed(c)
  \/ /\ ~closing
     /\ entry[c] = "fresh"
     /\ entry' = [entry EXCEPT ![c] = "pending"]
     /\ Inserted(c)
     /\ UNCHANGED <<closing, pending_close_codes, closing_writers, aborted,
                    close_code>>

(***************************************************************************)
(* The entry c takes its place among the admitted; those evicted for it    *)
(* leave in the same step.                                                 *)
(***************************************************************************)
AdmittedInPlaceOf(c, S) ==
  /\ entry' = [Removed(S) EXCEPT ![c] = "admitted"]
  /\ EndSockets(S, "connection_limit")

AddConnection(c) ==
  \/ BornClosed(c)
  \/ /\ ~closing
     /\ entry[c] = "fresh"
     /\ AdmittedInPlaceOf(c, Evicted(Identity[c].account_id))
     /\ Inserted(c)
     /\ UNCHANGED closing

(* admit answers TRUE: the entry is still there.                           *)
AdmitWithoutEviction(c) ==
  /\ Registered(c)
  /\ AdmittedInPlaceOf(c, {})
  /\ UNCHANGED <<age, next_age, closing>>

Admit(c) ==
  \/ /\ entry[c] = "pending"
     /\ AdmittedInPlaceOf(c, Evicted(Identity[c].account_id))
     /\ UNCHANGED <<age, next_age, closing>>
  \/ /\ entry[c] = "admitted"
     /\ UNCHANGED registry_vars

(* admit answers FALSE, and changes nothing.                               *)
AdmitRefused(c) == ~Registered(c)

TakePendingCloseCode(c) ==
  /\ pending_close_codes' = [pending_close_codes EXCEPT ![c] = Null]
  /\ UNCHANGED <<entry, age, next_age, closing, closing_writers, aborted,
                 close_code>>

-----------------------------------------------------------------------------
(* Removal and closing.                                                    *)

Forgotten(c) ==
  /\ entry[c] # "fresh"
  /\ entry' = Removed({c})
  /\ pending_close_codes' = [pending_close_codes EXCEPT ![c] = Null]
  /\ closing_writers' = closing_writers \ {c}

RemoveConnection(c) ==
  /\ Forgotten(c)
  /\ UNCHANGED <<age, next_age, closing, aborted, close_code>>

CloseConnection(c, code) ==
  /\ Registered(c)
  /\ EndConnections({c}, code)

CloseUntilOneThrows(t) ==
  LET matched == {c \in Connections : Registered(c) /\ Matches(c, t)}
  IN EndConnections({c \in matched :
                       \A d \in matched \cap Broken : ~Older(d, c)},
                    TargetCode(t))

(***************************************************************************)
(* #close_where: every registered connection the target names, pending or  *)
(* admitted.  A socket that throws does not stop the loop.                 *)
(***************************************************************************)
CloseConnections(t) ==
  EndConnections({c \in Connections : Registered(c) /\ Matches(c, t)},
                 TargetCode(t))

CloseAllConnections ==
  LET live == {c \in Connections : Registered(c)}
  IN /\ entry' = Removed(live)
     /\ EndSockets(live, "going_away")
     /\ closing' = TRUE
     /\ UNCHANGED <<age, next_age>>

(* A frame did not fit the connection's outbound budget: #close_overflowed. *)
CloseOverflowed(c) ==
  /\ entry[c] = "admitted"
  /\ EndConnections({c}, "outbound_overflow")

(***************************************************************************)
(* The socket held unwritten bytes too long: #drop_stalled.  The writer    *)
(* has ended itself and cuts the socket, with no close frame where the     *)
(* runtime can cut one.                                                    *)
(***************************************************************************)
DropStalled(c) ==
  /\ entry[c] = "admitted"
  /\ entry' = Removed({c})
  /\ aborted' = aborted \cup {c}
  /\ \/ UNCHANGED close_code
     \/ /\ c \notin Broken
        /\ close_code' = [close_code EXCEPT ![c] = "outbound_overflow"]
  /\ UNCHANGED <<age, next_age, closing, pending_close_codes, closing_writers>>

(* The close deadline of a closed connection passed: its writer is let go. *)
CloseSettled(c) ==
  /\ c \in closing_writers
  /\ closing_writers' = closing_writers \ {c}
  /\ UNCHANGED <<entry, age, next_age, closing, pending_close_codes, aborted,
                 close_code>>

(* The codes close_connection is called with. *)
SessionCloseCodes ==
  {"session_revoked", "permission_revoked", "internal_error", "other"}

RegistryNext ==
  \/ CloseAllConnections
  \/ \E t \in Targets : CloseConnections(t)
  \/ \E c \in Connections :
       \/ RegisterPending(c)
       \/ AddConnection(c)
       \/ Admit(c)
       \/ TakePendingCloseCode(c)
       \/ RemoveConnection(c)
       \/ \E code \in SessionCloseCodes : CloseConnection(c, code)
       \/ CloseOverflowed(c)
       \/ DropStalled(c)
       \/ CloseSettled(c)

RegistrySpec == RegistryInit /\ [][RegistryNext]_registry_vars

-----------------------------------------------------------------------------
(***************************************************************************)
(* The per-account cap holds of what is admitted, whichever credentials    *)
(* the connections opened on and in whatever order they registered, were   *)
(* admitted, and left.  Pending registrations do not count.                *)
(***************************************************************************)
CapRespected ==
  MaxConnectionsPerAccount # Null =>
    \A a \in Accounts :
      Cardinality(AdmittedOf(a)) <= MaxConnectionsPerAccount

(* A connection leaves the map in this step, closed by the cap. *)
LeavesForTheCap(c) ==
  /\ entry[c] = "admitted" /\ entry'[c] = "gone"
  /\ close_code[c] = Null /\ close_code'[c] = "connection_limit"

(***************************************************************************)
(* The cap closes a connection only to make room, in the same step, for    *)
(* another connection of its account that is admitted: a registration that *)
(* is still pending, was refused, or is born closed closes nothing.  And   *)
(* it takes the oldest: no admitted connection of the account registered   *)
(* before one that is evicted is left.                                     *)
(***************************************************************************)
EvictsOldestForANewcomer ==
  [][\A c \in Connections :
       LeavesForTheCap(c) =>
         LET a == Identity[c].account_id
         IN /\ \E d \in Connections : /\ Identity[d].account_id = a
                                      /\ entry[d] # "admitted"
                                      /\ entry'[d] = "admitted"
            /\ \A d \in AdmittedOf(a) : Older(d, c) => entry'[d] = "gone"
    ]_registry_vars

(***************************************************************************)
(* No connection outlives the shutdown: once close_all_connections has run *)
(* nothing is registered, and an upgrade that arrives late is never        *)
(* inserted.                                                               *)
(***************************************************************************)
NothingRegisteredOnceClosing ==
  closing => \A c \in Connections : ~Registered(c)

(***************************************************************************)
(* A connection the registry closed is out of the map and its handlers'    *)
(* signal has fired: no socket is left registered after its close frame,   *)
(* where it would be sent to, counted, and evicted a second time.          *)
(***************************************************************************)
ClosedIsAbortedAndGone ==
  \A c \in Connections :
    close_code[c] # Null => c \in aborted /\ ~Registered(c)

=============================================================================
