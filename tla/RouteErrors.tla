---------------------------- MODULE RouteErrors -----------------------------
(***************************************************************************)
(* One request through the layers of the server: the body limit, the       *)
(* origin check and the credential legs, the chain that apply_route_specs  *)
(* mounts for a route (route_spec.ts), the action that a JSON-RPC endpoint *)
(* dispatches (action_rpc.ts, perform_action.ts), and the error map that a *)
(* route publishes of it all (route_errors.ts, error_schemas.ts).          *)
(*                                                                         *)
(* A failure is its status and its code; the fields beside them are left   *)
(* out.  The account of the caller may be deleted between the layer that   *)
(* resolved the credential and the one that reads the account.             *)
(***************************************************************************)
EXTENDS Naturals, Sequences

VARIABLES
    route,          \* the route the request reached
    action,         \* on a JSON-RPC endpoint, the action it names
    layer,          \* the next layer to run
    credential,     \* the credential of the caller: "none", or one whose kind is "listed"
                    \* or "unlisted" by the guard, or one whose scope is "narrow"
    account,        \* whether its account is "there" or "gone"
    tx,             \* the transaction: "none", "open", "committed", "rolled_back" or
                    \* "unheard" of: committed, and reported as failed
    queued, ran,    \* an effect the handler queued for after the commit; whether it ran
    threw,          \* to: history, the handler or its commit threw
    answer

error_vars == <<route, action, layer, credential, account, tx, queued, ran, threw, answer>>

When(condition, codes) == IF condition THEN codes ELSE {}

------------------------------------------------------------------------------
(***************************************************************************)
(* Errors.                                                                 *)
(***************************************************************************)

RestStatus ==
    [invalid_request_body |-> 400, invalid_json_body |-> 400, invalid_route_params |-> 400,
     invalid_query_params |-> 400, invalid_content_length |-> 400, actor_required |-> 400,
     actor_not_on_account |-> 400, authentication_required |-> 401,
     insufficient_permissions |-> 403, credential_type_required |-> 403,
     token_scope_required |-> 403, forbidden_origin |-> 403, signup_conflict |-> 409,
     payload_too_large |-> 413, unsupported_content_type |-> 415,
     rate_limit_exceeded |-> 429, no_actors_on_account |-> 500, account_vanished |-> 500,
     internal_error |-> 500, service_unavailable |-> 503]
Rest(code) == [shape |-> "rest", status |-> RestStatus[code], code |-> code]

\* Each code of a JSON-RPC error with its status, in the order of the table.
RpcStatuses ==
    << <<"parse_error", 400>>, <<"invalid_request", 400>>, <<"method_not_found", 404>>,
       <<"invalid_params", 400>>, <<"internal_error", 500>>, <<"unauthenticated", 401>>,
       <<"forbidden", 403>>, <<"not_found", 404>>, <<"conflict", 409>>,
       <<"validation_error", 422>>, <<"queue_overflow", 429>>, <<"rate_limited", 429>>,
       <<"service_unavailable", 503>>, <<"timeout", 504>>, <<"request_cancelled", 499>> >>
CodeToStatus(code) ==
    RpcStatuses[CHOOSE i \in DOMAIN RpcStatuses : RpcStatuses[i][1] = code][2]
\* Of the codes of one status the last is the one it is turned into.
StatusToCode(status) ==
    LET of == {i \in DOMAIN RpcStatuses : RpcStatuses[i][2] = status}
    IN  IF of = {} THEN "internal_error"
        ELSE RpcStatuses[CHOOSE i \in of : \A j \in of : j <= i][1]
Envelope(code) == [shape |-> "envelope", status |-> CodeToStatus(code), code |-> code]

Ok(shape) == [shape |-> shape, status |-> 200, code |-> "ok"]
\* What Hono answers for a throw that nothing has caught.
PlainText == [shape |-> "text", status |-> 500, code |-> "none"]
Unanswered == [shape |-> "none", status |-> 0, code |-> "none"]

AlwaysAcceptedErrors == {Rest("internal_error"), Rest("service_unavailable")}

------------------------------------------------------------------------------
(***************************************************************************)
(* Routes, and what they declare.                                          *)
(***************************************************************************)

IsPublic(auth) == auth.account = "none" /\ auth.actor = "none"
NeedsActor(auth) == auth.actor # "none"
Demanding(auth) == "required" \in {auth.account, auth.actor}

\* The invariants of an auth shape, and the scope that a public route cannot ask for.
AuthHolds(auth) ==
    /\ auth.roles => auth.actor = "required"
    /\ auth.account = "none" =>
        auth.actor = "none" /\ ~auth.roles /\ ~auth.kinds /\ ~auth.scope

Auths == {auth \in [account : {"none", "optional", "required"},
                    actor : {"none", "optional", "required"},
                    roles : BOOLEAN, kinds : BOOLEAN, scope : BOOLEAN] : AuthHolds(auth)}

\* Who needs an actor declares acting, in a body or a query.
ActingHolds(r) == NeedsActor(r.auth) => r.input \/ r.query

\* The routes that apply_route_specs mounts.
Mounted ==
    {r \in [method : {"GET", "POST", "DELETE"}, auth : Auths,
            input : BOOLEAN, params : BOOLEAN, query : BOOLEAN,
            limited : BOOLEAN, carved : BOOLEAN, transaction : BOOLEAN,
            errors : {{}, {"signup_conflict"}}, jsonrpc : {FALSE}] :
        /\ ActingHolds(r)
        /\ r.transaction = (r.method # "GET")
        /\ r.limited <=> r.errors # {}}

\* Both routes of a JSON-RPC endpoint leave the guards, the body and the transaction to
\* the dispatcher.
Endpoints ==
    [method : {"GET", "POST"}, input : {FALSE}, params : {FALSE}, query : {FALSE},
     auth : {[account |-> "none", actor |-> "none", roles |-> FALSE, kinds |-> FALSE,
              scope |-> FALSE]},
     limited : {FALSE}, carved : BOOLEAN, transaction : {FALSE}, errors : {{}},
     jsonrpc : {TRUE}]

Actions == [auth : {auth \in Auths : ~auth.scope}, side_effects : BOOLEAN, limited : BOOLEAN]

DeriveRouteErrors(r) ==
    When(r.input /\ r.method # "GET", {"invalid_request_body", "invalid_json_body"})
    \cup When(r.params, {"invalid_route_params"})
    \cup When(r.query, {"invalid_query_params"})
    \cup When(NeedsActor(r.auth), {"actor_required", "actor_not_on_account",
                                   "no_actors_on_account", "account_vanished"})
    \cup When(Demanding(r.auth), {"authentication_required"})
    \cup When(r.auth.scope, {"token_scope_required"})
    \cup When(r.auth.kinds, {"credential_type_required"})
    \cup When(r.auth.roles, {"insufficient_permissions"})
    \cup When(r.limited, {"rate_limit_exceeded"})
    \cup When(r.method = "POST", {"unsupported_content_type"})

\* The layers that run on a route and list their errors.
MiddlewareErrors(r) ==
    {"invalid_content_length", "payload_too_large"}
    \cup When(~r.carved, {"forbidden_origin"})

\* resolve_route_error_map where it is not given the specs of the middleware.
MapOfTheRouteAlone(r) == DeriveRouteErrors(r) \cup r.errors

RouteErrorMap(r) == DeriveRouteErrors(r) \cup MiddlewareErrors(r) \cup r.errors

\* The schemas of the map at a status, one for each error.
ErrorSchemas(r, status) == {code \in RouteErrorMap(r) : RestStatus[code] = status}

\* check_route_error, which reads what is JSON at an error status.
Declared(r, a) ==
    \/ a.shape = "text" \/ a.status < 400
    \/ a.shape = "envelope" /\ r.jsonrpc
    \/ a \in AlwaysAcceptedErrors
    \/ a \in {Rest(code) : code \in ErrorSchemas(r, a.status)}

\* The failures that the type of a route's handler lets it return.
HandlerErrors(r) ==
    r.errors \cup {"internal_error", "service_unavailable"}
    \cup (DeriveRouteErrors(r) \cap
          {"authentication_required", "token_scope_required", "credential_type_required",
           "insufficient_permissions", "rate_limit_exceeded"})

ErrorsInit ==
    /\ \/ route \in Mounted /\ action = "none"
       \/ route \in Endpoints /\ action \in Actions
    /\ layer = "body_limit"
    /\ credential = "none" /\ account = "there"
    /\ tx = "none" /\ queued = FALSE /\ ran = FALSE /\ threw = FALSE
    /\ answer = Unanswered

------------------------------------------------------------------------------
(***************************************************************************)
(* The layers.                                                             *)
(***************************************************************************)

At(name) == layer = name
handler_vars == <<tx, queued, ran, threw>>

Pass(next) ==
    /\ layer' = next
    /\ UNCHANGED <<route, action, credential, account, handler_vars, answer>>
Respond(a) ==
    /\ answer' = a /\ layer' = "answered"
    /\ UNCHANGED <<route, action, credential, account, handler_vars>>
Refuse(code) == Respond(Rest(code))

\* A throw that no layer catches: a failed checkout, or another one.
Uncaught == Refuse("service_unavailable") \/ Respond(PlainText)

\* A layer that may refuse with one of these codes.
Check(name, refusals, next) ==
    At(name) /\ (Pass(next) \/ \E code \in refusals : Refuse(code))

BodyLimit == Check("body_limit", {"invalid_content_length", "payload_too_large"}, "origin")
VerifyRequestSource == Check("origin", When(~route.carved, {"forbidden_origin"}), "legs")

\* The legs refuse nobody: a credential that does not hold is none.
CredentialLegs ==
    /\ At("legs")
    /\ \/ /\ credential' \in {"none", "listed", "unlisted", "narrow"}
          /\ layer' = "content_type"
          /\ UNCHANGED <<route, action, account, handler_vars, answer>>
       \/ Uncaught

\* An admin deletes the account of the caller.
DeleteAccount ==
    /\ layer \in {"content_type", "params", "query", "guards", "authorize", "envelope",
                 "method", "perform"}
    /\ credential # "none" /\ account = "there"
    /\ account' = "gone"
    /\ UNCHANGED <<route, action, layer, credential, handler_vars, answer>>

CheckContentType ==
    Check("content_type", When(route.method = "POST", {"unsupported_content_type"}), "params")
ValidateParams == Check("params", When(route.params, {"invalid_route_params"}), "query")
ValidateQuery == Check("query", When(route.query, {"invalid_query_params"}), "guards")

\* require_auth, require_credential_types and require_token_scope, in this order.
GuardRefuses(auth) ==
    CASE (Demanding(auth) \/ auth.kinds) /\ credential = "none" -> "authentication_required"
      [] auth.kinds /\ credential = "unlisted" -> "credential_type_required"
      [] auth.scope /\ credential = "narrow" -> "token_scope_required"
      [] OTHER -> "nothing"

PreAuthorization ==
    /\ At("guards")
    /\ LET refused == GuardRefuses(route.auth)
       IN  IF refused = "nothing" THEN Pass("authorize") ELSE Refuse(refused)

\* What the authorization phase makes of a request.  One that may name an actor may name
\* another's; an account that goes takes its actors with it, before they are listed or
\* between that and the next read.
Authorizations(auth, may_name) ==
    IF IsPublic(auth) \/ credential = "none" THEN {"ok"}
    ELSE IF ~NeedsActor(auth)
    THEN {IF account = "there" THEN "ok" ELSE "account_vanished"}
    ELSE When(may_name, {"actor_not_on_account"})
         \cup When(account = "gone", {"no_actors_on_account", "account_vanished"})
         \cup When(account = "there", {"ok"} \cup When(auth.actor = "required",
                                                       {"actor_required"}))

ReadsActing(r) == r.query \/ (r.method # "GET" /\ r.input)

Authorize ==
    /\ At("authorize")
    /\ \/ \E found \in Authorizations(route.auth, ReadsActing(route)) :
            IF found = "ok" THEN Pass("roles") ELSE Refuse(found)
       \/ ~IsPublic(route.auth) /\ credential # "none" /\ Uncaught

RequireRole == Check("roles", When(route.auth.roles, {"insufficient_permissions"}), "input")

ValidateInput ==
    Check("input", When(route.method # "GET" /\ route.input,
                        {"invalid_json_body", "invalid_request_body"}),
          IF route.jsonrpc THEN "envelope" ELSE "handler")

------------------------------------------------------------------------------
(***************************************************************************)
(* The handler, of a route or of an action.                                *)
(***************************************************************************)

\* A transaction whose connection cannot be had fails before the handler runs.
Enter(transaction) ==
    /\ At("handler")
    /\ tx' = IF transaction THEN "open" ELSE "none"
    /\ queued' \in BOOLEAN
    /\ layer' = "running"
    /\ UNCHANGED <<route, action, credential, account, ran, threw, answer>>

\* The handler has returned, and what it wrote is committed.
Return(a) ==
    /\ At("running")
    /\ tx' = IF tx = "open" THEN "committed" ELSE "none"
    /\ answer' = a /\ layer' = "answered"
    /\ UNCHANGED <<route, action, credential, account, queued, ran, threw>>


\* The handler or the commit throws: what was queued for after it is taken back.
Throw(a) ==
    /\ At("running")
    /\ tx' \in IF tx = "open" THEN {"rolled_back", "unheard"} ELSE {"none"}
    /\ queued' = FALSE /\ threw' = TRUE
    /\ answer' = a /\ layer' = "answered"
    /\ UNCHANGED <<route, action, credential, account, ran>>

\* What is caught of a throw: a failed checkout, an error with a reason, anything else.
Caught(thrown) ==
    IF thrown \in route.errors \cup {"service_unavailable"} THEN Rest(thrown)
    ELSE Rest("internal_error")

\* A value that is not JSON makes the handler throw while its transaction is open; a
\* failure that is returned commits.
RouteHandler ==
    /\ ~route.jsonrpc
    /\ \/ Enter(route.transaction)
       \/ At("handler") /\ route.transaction /\ Respond(Caught("service_unavailable"))
       \/ Return(Ok("rest"))
       \/ \E code \in HandlerErrors(route) : Return(Rest(code))
       \/ \E thrown \in route.errors \cup {"service_unavailable", "anything"} :
            Throw(Caught(thrown))

------------------------------------------------------------------------------
(***************************************************************************)
(* The dispatcher of a JSON-RPC endpoint.                                  *)
(***************************************************************************)

RefuseCall(code) == Respond(Envelope(code))

\* The envelope, in the body of a POST or the query of a GET.
ReadEnvelope ==
    /\ At("envelope")
    /\ \/ RefuseCall(IF route.method = "POST" THEN "parse_error" ELSE "invalid_params")
       \/ RefuseCall("invalid_request")
       \/ Pass("method")

\* The method it names; one with side effects is not served to a GET.
FindMethod ==
    /\ At("method")
    /\ \/ RefuseCall("method_not_found")
       \/ IF route.method = "GET" /\ action.side_effects THEN RefuseCall("invalid_request")
          ELSE Pass("perform")

\* The authorization phase answers with its own status and the code of that status.
FailedAuthorization(code) ==
    [shape |-> "envelope", status |-> RestStatus[code],
     code |-> StatusToCode(RestStatus[code])]

AuthorizeCall ==
    /\ At("perform")
    /\ IF Demanding(action.auth) /\ credential = "none" THEN RefuseCall("unauthenticated")
       ELSE \/ /\ ~IsPublic(action.auth)
               /\ \E code \in {"service_unavailable", "internal_error"} : RefuseCall(code)
            \/ \E found \in Authorizations(action.auth, TRUE) :
                 IF found = "ok" THEN Pass("admit") ELSE Respond(FailedAuthorization(found))

\* The credential's kind, its scope and the role.
PostAuthorization ==
    /\ At("admit")
    /\ IF \/ action.auth.kinds /\ credential \in {"none", "unlisted"}
          \/ credential = "narrow"
       THEN RefuseCall("forbidden")
       ELSE \/ action.auth.roles /\ RefuseCall("forbidden")
            \/ Pass("limits")

\* The limiters, and the parameters.
AdmitCall ==
    /\ At("limits")
    /\ \/ action.limited /\ RefuseCall("rate_limited")
       \/ RefuseCall("invalid_params")
       \/ Pass("handler")

\* A result that is not JSON is found after its commit, and answered as an error.
Serialized == {Ok("envelope"), Envelope("internal_error")}

\* The codes that a handler or its transaction can throw, or that are made of a throw.
ThrownCodes == {RpcStatuses[i][1] : i \in DOMAIN RpcStatuses}

ActionHandler ==
    /\ route.jsonrpc
    /\ \/ Enter(action.side_effects)
       \/ At("handler") /\ action.side_effects /\ RefuseCall("service_unavailable")
       \/ \E a \in Serialized : Return(a)
       \/ \E code \in ThrownCodes : Throw(Envelope(code))

\* The queues are flushed whatever the answer.
Flush ==
    /\ At("answered")
    /\ ran' = queued /\ layer' = "done"
    /\ UNCHANGED <<route, action, credential, account, tx, queued, threw, answer>>

ErrorsNext ==
    \/ BodyLimit \/ VerifyRequestSource \/ CredentialLegs \/ DeleteAccount
    \/ CheckContentType \/ ValidateParams \/ ValidateQuery \/ PreAuthorization
    \/ Authorize \/ RequireRole \/ ValidateInput \/ RouteHandler
    \/ ReadEnvelope \/ FindMethod \/ AuthorizeCall \/ PostAuthorization \/ AdmitCall
    \/ ActionHandler \/ Flush

ErrorsSpec == ErrorsInit /\ [][ErrorsNext]_error_vars

------------------------------------------------------------------------------
\* Two answers that the map of their route does not list: an account that goes while a
\* route reads no more than the account, and a caller without a credential on a route
\* that is optional and gates its kinds.
Unlisted(r) ==
    When(~NeedsActor(r.auth) /\ ~IsPublic(r.auth), {Rest("account_vanished")})
    \cup When(r.auth.kinds /\ ~Demanding(r.auth), {Rest("authentication_required")})

\* "Whether an error response is one its route declares" (route_error_check.ts): whichever
\* layer answers, and whatever has become of the account meanwhile, the map of the route
\* lists the error, with the exceptions above; and a JSON-RPC error has the status of its
\* code.
ErrorsAreDeclared ==
    /\ Declared(route, answer) \/ answer \in Unlisted(route)
    /\ answer.shape = "envelope" /\ answer.code # "ok" =>
        answer.status = CodeToStatus(answer.code)

\* What waits for a commit runs if and only if the handler's transaction was committed and
\* known to be; who is told of success has had its transaction committed, and who is told
\* of a throw has not, unless its commit was not heard of.
EffectsFollowTheCommit ==
    layer = "done" =>
        /\ ran => ~threw /\ tx \notin {"rolled_back", "unheard"}
        /\ answer.code = "ok" => tx \in {"none", "committed"}
        /\ threw => tx # "committed"
        /\ tx = "committed" /\ answer.shape = "rest" =>
            answer.code \in {"ok"} \cup HandlerErrors(route)
=============================================================================
