---------------------------- MODULE RequestAuth -----------------------------
(***************************************************************************)
(* How a request comes to act for an account: the legs of the chain that   *)
(* read its credentials (auth/middleware.ts), the guards and the           *)
(* authorization phase of its route or action (request_context.ts,         *)
(* auth_guard_resolver.ts, perform_action.ts), and the rotation of the     *)
(* daemon token (testing/daemon_token_rotation.ts).                        *)
(*                                                                         *)
(* Each read is a step of its own: what it finds may end before the next.  *)
(* One request is followed at a time, among everything that ends or begins *)
(* around it: requests share nothing but the keeper that the daemon leg    *)
(* remembers.  A request says what it carries as the leg that looks for it *)
(* runs, and what it asks for when the chain has run.                      *)
(*                                                                         *)
(* The session is a member's, the API token and the daemon token are the   *)
(* keeper's, who is there from the bootstrap on and cannot be removed.     *)
(***************************************************************************)
EXTENDS Naturals, FiniteSets

CONSTANTS
    Routes,         \* what may be asked for: [account, actor, kinds, surface, role]
    NarrowToken,    \* the API token's scope admits no route of a surface
    MaxRotations,   \* bound: rotations of the daemon token
    MaxChanges      \* bound: changes during one request

VARIABLES
    standing,       \* what is valid now, of what can end or begin
    keeper,         \* keeper_account_id is known to the daemon leg
    current, previous, token_file, writing, write_failed,
    req,
    stood, lapsed,  \* history: what was valid, or was not, since the request began
    changes

token_vars == <<current, previous, token_file, writing, write_failed>>
request_vars == <<standing, keeper, token_vars, req, stood, lapsed, changes>>

Kinds == {"daemon_token", "session", "api_token"}
Nobody == "nobody"
Idle == [pc |-> "idle", browser |-> FALSE, token |-> 0, carried |-> {}, auth |-> Nobody,
         route |-> [account |-> "none", actor |-> "none", kinds |-> Kinds,
                    surface |-> FALSE, role |-> "none"]]

\* What a credential rests on: its row and what the request carries of it.  The bootstrap
\* makes the keeper's account, and nothing unmakes it.
RestsOn(kind) ==
    CASE kind = "daemon_token" -> {"accepted", "keeper"}
      [] kind = "session" -> {"session", "cookie"}
      [] OTHER -> {"token"}
Account(kind) == IF kind = "session" THEN "member" ELSE "keeper"
RoleGrant(kind, role) == IF kind = "session" THEN role = "admin" ELSE role = "keeper"

\* validate_daemon_token.
Accepted(token) == token \in {current, previous} /\ token # 0
StandingFor(token) == standing \cup (IF Accepted(token) THEN {"accepted"} ELSE {})

\* Facts that a request may find or miss.
Facts == {"session", "cookie", "token", "member", "admin", "keeper", "accepted"}

RequestInit ==
    /\ standing = {"session", "cookie", "member", "admin"}
    /\ keeper = FALSE
    /\ current = 1 /\ previous = 0 /\ token_file = 1
    /\ writing = FALSE /\ write_failed = FALSE
    /\ req = Idle /\ stood = {} /\ lapsed = {} /\ changes = 0

Running == req.pc \notin {"idle", "handling", "refused"}

Remember ==
    IF Running
    THEN /\ stood' = stood \cup StandingFor(req.token)'
         /\ lapsed' = lapsed \cup (Facts \ StandingFor(req.token)')
    ELSE UNCHANGED <<stood, lapsed>>

Changes ==
    /\ req.pc \notin {"handling", "refused"}
    /\ Running => changes < MaxChanges
    /\ changes' = IF Running THEN changes + 1 ELSE 0
    /\ UNCHANGED <<keeper, req>>
    /\ Remember

------------------------------------------------------------------------------
(***************************************************************************)
(* What ends and begins meanwhile.                                         *)
(***************************************************************************)

\* A revocation, an expiry, or a logout; a login makes another session.
EndCredential(fact) ==
    /\ fact \in standing \cap {"session", "cookie", "token"}
    /\ standing' = standing \ {fact}
    /\ UNCHANGED token_vars /\ Changes

Bootstrap ==
    /\ "keeper" \notin standing
    /\ standing' = standing \cup {"keeper", "token"}
    /\ UNCHANGED token_vars /\ Changes

RevokeRole ==
    /\ "admin" \in standing
    /\ standing' = standing \ {"admin"}
    /\ UNCHANGED token_vars /\ Changes

GrantRole ==
    /\ {"admin", "member"} \cap standing = {"member"}
    /\ standing' = standing \cup {"admin"}
    /\ UNCHANGED token_vars /\ Changes

\* The deletion of an account takes its sessions along, and leaves its role grants.
DeleteAccount ==
    /\ "member" \in standing
    /\ standing' = standing \ {"member", "session"}
    /\ UNCHANGED token_vars /\ Changes

UndeleteAccount ==
    /\ "member" \notin standing
    /\ standing' = standing \cup {"member"}
    /\ UNCHANGED token_vars /\ Changes

\* An interval that does not wait for the write before it.
RotateAnyway ==
    /\ current <= MaxRotations
    /\ previous' = current /\ current' = current + 1
    /\ writing' = TRUE
    /\ UNCHANGED <<standing, token_file, write_failed>> /\ Changes

\* The interval: the state moves first and the file follows; while a write is under way
\* the interval does nothing.
Rotate ==
    /\ ~writing /\ current <= MaxRotations
    /\ previous' = current /\ current' = current + 1
    /\ writing' = TRUE
    /\ UNCHANGED <<standing, token_file, write_failed>> /\ Changes

WriteTokenFile ==
    /\ writing /\ writing' = FALSE
    /\ \/ token_file' = current /\ UNCHANGED write_failed
       \/ write_failed' = TRUE /\ UNCHANGED token_file
    /\ UNCHANGED <<standing, keeper, current, previous, req, stood, lapsed, changes>>

environment == <<standing, token_vars>>

------------------------------------------------------------------------------
(***************************************************************************)
(* The legs.  Each soft-fails: the next one looks for another credential.  *)
(***************************************************************************)

Goes(pc) == req' = [req EXCEPT !.pc = pc]
Keeps == UNCHANGED <<environment, keeper, stood, lapsed, changes>>

\* The daemon leg clears what was set before it, discards the token in a browser's
\* context, and compares it with the two it knows.
DaemonLeg ==
    /\ req.pc = "idle"
    /\ \E browser \in BOOLEAN, token \in 0 .. current :
        LET carries == token # 0 /\ ~browser
        IN  /\ req' = [Idle EXCEPT
                    !.browser = browser, !.token = token,
                    !.carried = IF carries THEN {"daemon_token"} ELSE {},
                    !.auth = IF carries /\ Accepted(token) /\ keeper
                             THEN "daemon_token" ELSE Nobody,
                    !.pc = IF carries /\ Accepted(token) /\ ~keeper
                           THEN "keeper" ELSE "cookie"]
            /\ stood' = StandingFor(token)
            /\ lapsed' = Facts \ StandingFor(token)
    /\ changes' = 0
    /\ UNCHANGED <<environment, keeper>>

\* Only a keeper that was found is remembered.
ResolveKeeper ==
    /\ req.pc = "keeper"
    /\ keeper' = ("keeper" \in standing)
    /\ req' = [req EXCEPT !.pc = "cookie", !.auth = IF keeper' THEN "daemon_token" ELSE @]
    /\ UNCHANGED <<environment, stood, lapsed, changes>>

\* The signature and the deadline of the cookie, whoever has been resolved.
SessionLeg ==
    /\ req.pc = "cookie"
    /\ \E carries \in BOOLEAN :
        req' = [req EXCEPT
            !.carried = IF carries THEN @ \cup {"session"} ELSE @,
            !.pc = IF carries /\ "cookie" \in standing /\ req.auth = Nobody
                   THEN "session" ELSE "bearer"]
    /\ Keeps

RequestContextLeg ==
    /\ req.pc = "session"
    /\ req' = [req EXCEPT !.pc = "bearer",
                          !.auth = IF "session" \in standing THEN "session" ELSE @]
    /\ Keeps

\* A bearer leg that asks nobody whether a credential was resolved before it.
BearerLegUnasked ==
    /\ req.pc = "bearer"
    /\ \E carries \in {TRUE, FALSE} \ {req.browser} :
        req' = [req EXCEPT
            !.carried = IF carries THEN @ \cup {"api_token"} ELSE @,
            !.auth = IF carries /\ "token" \in standing THEN "api_token" ELSE @,
            !.pc = "routed"]
    /\ Keeps

BearerLeg ==
    /\ req.pc = "bearer"
    /\ \E carries \in {FALSE, ~req.browser /\ req.auth = Nobody} :
        req' = [req EXCEPT
            !.carried = IF carries THEN @ \cup {"api_token"} ELSE @,
            !.auth = IF carries /\ "token" \in standing THEN "api_token" ELSE @,
            !.pc = "routed"]
    /\ Keeps

------------------------------------------------------------------------------
(***************************************************************************)
(* Guards and the authorization phase.  An action's dispatcher asks for    *)
(* the kind and the scope after that phase, a route before it.             *)
(***************************************************************************)

AdmitsCredential(route) ==
    /\ "required" \in {route.account, route.actor} => req.auth # Nobody
    /\ route.kinds # Kinds => req.auth \in route.kinds
    /\ req.auth = "api_token" /\ route.surface => ~NarrowToken

Guard ==
    /\ req.pc = "routed"
    /\ \E route \in Routes :
        req' = [req EXCEPT
            !.route = route,
            !.pc = IF ~AdmitsCredential(route) THEN "refused"
                   ELSE IF {route.account, route.actor} = {"none"} \/ req.auth = Nobody
                   THEN "authorized"
                   ELSE IF route.actor = "none" THEN "account" ELSE "actors"]
    /\ Keeps

ActorsAreThere == Account(req.auth) \in standing

ResolveActingActor ==
    /\ req.pc = "actors"
    /\ Goes(IF ActorsAreThere THEN "account" ELSE "refused")
    /\ Keeps

BuildContext ==
    /\ req.pc = "account"
    /\ Goes(IF Account(req.auth) \notin standing THEN "refused"
            ELSE IF req.route.role = "none" THEN "authorized" ELSE "grants")
    /\ Keeps

RequireRole ==
    /\ req.pc = "grants"
    /\ Goes(IF RoleGrant(req.auth, req.route.role) /\ req.route.role \in standing
            THEN "authorized" ELSE "refused")
    /\ Keeps

Handle == req.pc = "authorized" /\ Goes("handling") /\ Keeps

End ==
    /\ req.pc \in {"handling", "refused"}
    /\ req' = Idle /\ stood' = {} /\ lapsed' = {} /\ changes' = 0
    /\ UNCHANGED <<environment, keeper>>

RequestNext ==
    \/ \E fact \in {"session", "cookie", "token"} : EndCredential(fact)
    \/ Bootstrap \/ RevokeRole \/ GrantRole \/ DeleteAccount \/ UndeleteAccount
    \/ Rotate \/ WriteTokenFile
    \/ DaemonLeg \/ ResolveKeeper \/ SessionLeg \/ RequestContextLeg \/ BearerLeg
    \/ Guard \/ ResolveActingActor \/ BuildContext \/ RequireRole \/ Handle \/ End

------------------------------------------------------------------------------
(***************************************************************************)
(* Correctness.                                                            *)
(***************************************************************************)

Stronger(kind) ==
    CASE kind = "daemon_token" -> {}
      [] kind = "session" -> {"daemon_token"}
      [] kind = "api_token" -> {"daemon_token", "session"}
      [] OTHER -> Kinds

ActsAsTheStrongest ==
    /\ req.auth # Nobody =>
        /\ req.auth \in req.carried /\ RestsOn(req.auth) \subseteq stood
        /\ req.browser => req.auth = "session"
    /\ \A kind \in req.carried \cap Stronger(req.auth) : RestsOn(kind) \cap lapsed # {}

HoldsTheRole(during) ==
    req.route.role # "none" =>
        RoleGrant(req.auth, req.route.role) /\ req.route.role \in during

(***************************************************************************)
(* A verdict is right, for each thing it rests on, at some moment of the   *)
(* request: who reaches a handler acts as the strongest credential they    *)
(* carried, unless it was not valid, with an account and a role that were  *)
(* there; and nobody is refused whose credential, account and role were    *)
(* all valid throughout.  A browser acts on its session alone.             *)
(***************************************************************************)
VerdictsWereTrue ==
    /\ req.pc = "handling" =>
        /\ ActsAsTheStrongest /\ AdmitsCredential(req.route)
        /\ req.auth # Nobody /\ {req.route.account, req.route.actor} # {"none"}
            => Account(req.auth) \in stood
        /\ HoldsTheRole(stood)
    /\ req.pc = "refused" =>
        /\ ActsAsTheStrongest
        /\ \/ ~AdmitsCredential(req.route)
           \/ Account(req.auth) \in lapsed
           \/ ~HoldsTheRole(Facts \ lapsed)

(* Whoever reads the token's file is let in with it, also while a rotation *)
(* is being written, unless writing it has failed.                         *)
FileTokenIsAccepted == token_file # 0 => write_failed \/ Accepted(token_file)
=============================================================================
