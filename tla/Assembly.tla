------------------------------ MODULE Assembly ------------------------------
(***************************************************************************)
(* What create_app_server puts together of the caller's options, and the   *)
(* surface that it publishes of it: the stack of layers, the routes of the *)
(* caller and its own, the RPC and WebSocket endpoints, what is mounted    *)
(* after them.                                                             *)
(*                                                                         *)
(* A path is a sequence of segments, one of them a parameter; a pattern is *)
(* a path, or all that is under one.  A request passes what is mounted in  *)
(* its order, each layer that matches it, up to what answers.              *)
(***************************************************************************)
EXTENDS Naturals, FiniteSets, SequencesExt

CONSTANTS MaxOptions

VARIABLES
    options,    \* what the caller asks for
    asked,
    outcome,    \* "none", "refused" or "up"
    app,        \* what is mounted, in order
    surface     \* what is published

assembly_vars == <<options, asked, outcome, app, surface>>

Param == ":x"
Exactly(path) == [base |-> path, under |-> FALSE]
Under(path) == [base |-> path, under |-> TRUE]

\* '*' is all that is under the root.
AuthMiddlewarePath == Under(<<"api">>)

------------------------------------------------------------------------------
(***************************************************************************)
(* Layers.                                                                 *)
(***************************************************************************)

MiddlewareApplies(pattern, path) ==
    IF pattern.under THEN IsPrefix(pattern.base, path) ELSE pattern.base = path

\* A mutation: only one side is looked at.
MiddlewarePathsOverlapOneWay(a, b) == MiddlewareApplies(b, a.base)

MiddlewarePathsOverlap(a, b) == MiddlewareApplies(a, b.base) \/ MiddlewareApplies(b, a.base)

MiddlewareCarvesOut(layer, path) == \E c \in layer.carve_outs : MiddlewareApplies(c.pattern, path)

MiddlewareSpecApplies(layer, path) ==
    MiddlewareApplies(layer.pattern, path) /\ ~MiddlewareCarvesOut(layer, path)

\* A layer is told by its handler; its name is any.
Layer(name, pattern) == [name |-> name, pattern |-> pattern, handler |-> name, carve_outs |-> {}]

OriginCarveOutsValid ==
    \A c \in options.carve_outs :
        /\ c.reason
        /\ Param \notin Range(c.pattern.base)
        /\ ~MiddlewarePathsOverlap(c.pattern, AuthMiddlewarePath)

\* The proxy's layer and those of create_auth_middleware_specs.
Stack ==
    <<Layer("proxy", Under(<<>>)),
      [Layer("origin", Under(<<>>)) EXCEPT !.carve_outs = options.carve_outs]>>
    \o (IF options.daemon THEN <<Layer("daemon_token", AuthMiddlewarePath)>> ELSE <<>>)
    \o [i \in 1..3 |-> Layer(<<"session", "request_context", "bearer_auth">>[i], AuthMiddlewarePath)]

\* transform_middleware: what the caller makes of the stack.
Transformed ==
    LET t == options.transform
        i == IF t.at <= Len(Stack) THEN t.at ELSE Len(Stack)
    IN  CASE t.kind = "none" -> Stack
          [] t.kind = "drop" -> RemoveAt(Stack, i)
          [] t.kind = "twice" -> Append(Stack, Stack[i])
          [] t.kind = "last" -> Append(RemoveAt(Stack, i), Stack[i])
          [] t.kind = "move" -> [Stack EXCEPT ![i].pattern = Under(<<"a">>)]
          [] t.kind = "wrap" -> [Stack EXCEPT ![i].handler = "wrapped"]
          [] t.kind = "add" -> InsertAt(Stack, i, Layer("added", Under(<<"api">>)))

\* A mutation: whoever bears the name of a layer is taken for it, wherever it is mounted.
MiddlewareStackMountedByName(layers) ==
    \A i \in DOMAIN Stack : \E k \in DOMAIN layers : layers[k].name = Stack[i].name

MiddlewareStackMounted(layers) ==
    LET places(i) == {k \in DOMAIN layers : layers[k].handler = Stack[i].handler}
    IN  \A i \in DOMAIN Stack :
            \E k \in places(i) :
                /\ places(i) = {k}
                /\ layers[k].pattern = Stack[i].pattern
                /\ i > 1 => \A j \in places(i - 1) : j < k

BodyLimit == IF options.body_limit THEN <<Layer("body_limit", Under(<<>>))>> ELSE <<>>

PostRouteMiddleware == IF options.post THEN <<Layer("post_route", Under(<<>>))>> ELSE <<>>

------------------------------------------------------------------------------
(***************************************************************************)
(* Routes and endpoints.                                                   *)
(***************************************************************************)

Auth(account, actor, roles, credential_types) ==
    [account |-> account, actor |-> actor, roles |-> roles, credential_types |-> credential_types]

Open == Auth("none", "none", {}, {})

Route(method, path, auth, reads, mints) ==
    [method |-> method, path |-> path, auth |-> auth,
     reads_credential |-> reads, mints_credential |-> mints]

RouteAuthHolds(auth) ==
    /\ auth.roles # {} => auth.actor = "required"
    /\ auth.account = "none" => auth.actor = "none"
    /\ auth = Auth("none", "none", auth.roles, auth.credential_types) =>
        auth.roles = {} /\ auth.credential_types = {}

InAuthScope(path) == MiddlewareApplies(AuthMiddlewarePath, path)

\* A mutation: a route that mints one is not looked at.
CredentialRouteInScopeIfRead(route) ==
    route.auth.account # "none" \/ route.reads_credential => InAuthScope(route.path)

CredentialRouteInScope(route) ==
    route.auth.account # "none" \/ route.reads_credential \/ route.mints_credential =>
        InAuthScope(route.path)

\* Relative specs, under the caller's prefix.
PrefixRouteSpecs(prefix, path) == prefix \o path

BootstrapRoutes ==
    IF options.bootstrap = {} THEN <<>>
    ELSE LET prefix == CHOOSE p \in options.bootstrap : TRUE
         IN  <<Route("POST", PrefixRouteSpecs(prefix, <<"bootstrap">>), Open, FALSE, TRUE)>>

RpcRoutes ==
    FoldLeft(LAMBDA routes, endpoint :
                routes \o <<Route("POST", endpoint.path, Open, TRUE, FALSE),
                            Route("GET", endpoint.path, Open, TRUE, FALSE)>>,
             <<>>, options.rpc_endpoints)

SurfaceRoutes == <<Route("GET", <<"api", "surface">>, Auth("required", "none", {}, {}), FALSE, FALSE)>>

RouteSpecs == options.routes \o BootstrapRoutes \o RpcRoutes \o SurfaceRoutes

Method(name, kind, handled) == [name |-> name, kind |-> kind, handled |-> handled]

ProtocolActions ==
    {Method("heartbeat", "request_response", TRUE), Method("cancel", "remote_notification", FALSE)}

OfferCreate == Method("role_grant_offer_create", "request_response", TRUE)

ToWsActions(actions) ==
    ProtocolActions \cup actions
    \cup (IF OfferCreate \in actions THEN {Method("role_grant_offer_received", "remote_notification", FALSE)}
          ELSE {})

\* An endpoint without actions takes those of the only RPC endpoint, one without origins
\* those of the server.
ResolveWsEndpoint(endpoint) ==
    [path |-> endpoint.path,
     actions |-> IF endpoint.actions = {} THEN ToWsActions(options.rpc_endpoints[1].actions)
                 ELSE endpoint.actions,
     origins |-> IF endpoint.origins = "server" THEN options.origins ELSE endpoint.origins]

WsEndpoints == [i \in DOMAIN options.ws_endpoints |-> ResolveWsEndpoint(options.ws_endpoints[i])]

\* The action map of an endpoint.
CompileActionRegistry(actions) == {a \in actions : a.kind = "request_response" /\ a.handled}

\* An empty list lets no page in; a wildcard is opted in to.
OriginsAdmitted(origins) == origins # "none" /\ (origins = "wild" => options.wildcards)

------------------------------------------------------------------------------
(***************************************************************************)
(* The checks of an assembly, in the order of the code; each one throws.   *)
(***************************************************************************)

StackHolds ==
    /\ OriginsAdmitted(options.origins)
    /\ OriginCarveOutsValid
    /\ options.transform.kind # "none" => MiddlewareStackMounted(Transformed)

EndpointsHold ==
    /\ \A i \in DOMAIN BootstrapRoutes : InAuthScope(BootstrapRoutes[i].path)
    /\ \A i \in DOMAIN options.rpc_endpoints : InAuthScope(options.rpc_endpoints[i].path)
    /\ \A i \in DOMAIN options.ws_endpoints :
        options.ws_endpoints[i].actions = {} => Len(options.rpc_endpoints) = 1
    /\ options.ws_endpoints # <<>> =>
        /\ options.upgrade
        /\ \A i \in DOMAIN options.ws_endpoints : InAuthScope(options.ws_endpoints[i].path)

RoutesHold == \A i \in DOMAIN RouteSpecs : CredentialRouteInScope(RouteSpecs[i])

WsEndpointsHold ==
    \A i \in DOMAIN WsEndpoints :
        /\ \A j \in DOMAIN WsEndpoints : WsEndpoints[j].path = WsEndpoints[i].path => j = i
        /\ ~\E r \in Range(RouteSpecs) : r.method = "GET" /\ r.path = WsEndpoints[i].path
        /\ OriginsAdmitted(WsEndpoints[i].origins)

\* apply_route_specs.
RouteSpecsHold ==
    \A i \in DOMAIN RouteSpecs :
        /\ RouteAuthHolds(RouteSpecs[i].auth)
        /\ \A j \in 1..i - 1 : RouteSpecs[j].method # RouteSpecs[i].method
                               \/ RouteSpecs[j].path # RouteSpecs[i].path

------------------------------------------------------------------------------
(***************************************************************************)
(* What is published, and what is mounted.                                 *)
(***************************************************************************)

RateLimiterSlots == {"login", "signup"}

\* Of a limiter: one that is made, none in a test, or what the caller passes.
ResolveRateLimiter(slot) ==
    IF options.limiters[slot] # "default" THEN options.limiters[slot]
    ELSE IF options.limiters_off THEN "null" ELSE "made"

ConfigDiagnostics ==
    options.weak_cookies
    \cup (IF options.limiters_off THEN {"limiters_off"}
          ELSE {slot \in RateLimiterSlots : ResolveRateLimiter(slot) = "null"})
    \cup (IF options.body_limit THEN {} ELSE {"body_limit"})

\* A mutation: what the caller put around the stack is not listed.
SurfaceMiddlewareOfTheStack == BodyLimit \o Stack \o PostRouteMiddleware

SurfaceMiddleware == BodyLimit \o Transformed \o PostRouteMiddleware

Names(layers) == [i \in DOMAIN layers |-> layers[i].name]

GenerateAppSurface ==
    [middleware |-> SurfaceMiddleware,
     routes |-> [i \in DOMAIN RouteSpecs |->
        [method |-> RouteSpecs[i].method, path |-> RouteSpecs[i].path, auth |-> RouteSpecs[i].auth,
         applicable_middleware |->
            Names(SelectSeq(SurfaceMiddleware, LAMBDA m : MiddlewareSpecApplies(m, RouteSpecs[i].path)))]],
     ws_endpoints |-> [i \in DOMAIN WsEndpoints |->
        [path |-> WsEndpoints[i].path, origins |-> WsEndpoints[i].origins,
         methods |-> {a \in WsEndpoints[i].actions : a.kind # "local_call"}]],
     diagnostics |-> ConfigDiagnostics]

Mount(type, spec) == [type |-> type, spec |-> spec]

MountAll(type, specs) == [i \in DOMAIN specs |-> Mount(type, specs[i])]

\* create_static_middleware: a file, and a page of the client for what is not under /api.
StaticServing == IF options.static THEN <<Mount("file", "file"), Mount("fallback", "fallback")>> ELSE <<>>

Assembled ==
    MountAll("layer", BodyLimit) \o MountAll("layer", Transformed)
    \o MountAll("route", RouteSpecs)
    \o MountAll("ws", WsEndpoints)
    \o MountAll("layer", PostRouteMiddleware)
    \o StaticServing

Assemble ==
    /\ outcome = "none"
    /\ UNCHANGED <<options, asked>>
    /\ IF StackHolds /\ EndpointsHold /\ RoutesHold /\ WsEndpointsHold /\ RouteSpecsHold
       THEN outcome' = "up" /\ app' = Assembled /\ surface' = GenerateAppSurface
       ELSE outcome' = "refused" /\ UNCHANGED <<app, surface>>

------------------------------------------------------------------------------
(***************************************************************************)
(* The bucket of a route in the summary of a surface.                      *)
(***************************************************************************)

CategorizeRouteAuth(auth) ==
    CASE auth.account = "none" /\ auth.actor = "none" -> "none"
      [] "daemon_token" \in auth.credential_types -> "keeper"
      [] auth.roles # {} -> "role"
      [] auth.credential_types # {} -> "credential"
      [] auth.account = "required" -> "authenticated"
      [] auth.account = "optional" \/ auth.actor = "optional" -> "optional"
      [] OTHER -> "other"

\* check_action_auth_pre_authorization and require_credential_types: who needs an account.
Demanding(auth) ==
    auth.account = "required" \/ auth.actor = "required" \/ auth.credential_types # {}

------------------------------------------------------------------------------
(***************************************************************************)
(* The router.                                                             *)
(***************************************************************************)

PathMatches(template, path) ==
    /\ Len(template) = Len(path)
    /\ \A i \in DOMAIN path : template[i] \in {path[i], Param}

Answers(mounted, request) ==
    CASE mounted.type = "layer" -> FALSE
      [] mounted.type = "route" ->
            mounted.spec.method = request.method /\ PathMatches(mounted.spec.path, request.path)
      [] mounted.type = "ws" -> request.upgrade /\ PathMatches(mounted.spec.path, request.path)
      [] mounted.type = "file" -> request.path = <<"a">>
      [] mounted.type = "fallback" -> ~IsPrefix(<<"api">>, request.path)

\* Where the request is answered; 0 if it is not.
Answering(request) ==
    LET places == {i \in DOMAIN app : Answers(app[i], request)}
    IN  IF places = {} THEN 0 ELSE CHOOSE i \in places : \A j \in places : i <= j

\* The layers that it passes before, in their order, but for those that carve it out.
Passed(request) ==
    LET layers == SelectSeq(SubSeq(app, 1, Answering(request) - 1),
                    LAMBDA m : m.type = "layer" /\ MiddlewareSpecApplies(m.spec, request.path))
    IN  [i \in DOMAIN layers |-> layers[i].spec.name]

------------------------------------------------------------------------------
(***************************************************************************)
(* What may be asked for.                                                  *)
(***************************************************************************)

RoutePaths == {<<"api", "a">>, <<"api", Param>>, <<"hooks", "a">>, <<"hooks", Param>>, <<Param, "a">>}

CallerRoutes ==
    {Route(method, path, Open, FALSE, mints) :
        method \in {"GET", "POST"}, path \in RoutePaths, mints \in BOOLEAN}
    \cup {Route("GET", path, Open, TRUE, FALSE) : path \in RoutePaths}
    \cup {Route("POST", path, auth, FALSE, FALSE) :
            path \in {<<"api", "a">>, <<"hooks", "a">>},
            auth \in {Auth("optional", "none", {}, {}), Auth("required", "required", {"admin"}, {}),
                      Auth("required", "none", {}, {"session"}), Auth("optional", "none", {}, {"session"}),
                      Auth("required", "none", {}, {"daemon_token"}), Auth("required", "none", {"admin"}, {}),
                      Auth("none", "optional", {}, {}), Auth("none", "none", {}, {"session"})}}

Act == Method("act", "request_response", TRUE)

EndpointPaths == {<<"api">>, <<"api", "a">>, <<"hooks", "a">>}

RpcEndpoints == [path : EndpointPaths, actions : {{Act, OfferCreate}, {Method("heartbeat", "request_response", TRUE)}}]

CallerWsEndpoints ==
    [path : EndpointPaths, origins : {"server", "none", "wild", "listed"},
     actions : {{}, {Act, Method("draw", "local_call", FALSE), Method("told", "request_response", FALSE)}}]

CarveOuts ==
    [pattern : {Under(<<"hooks">>), Exactly(<<"hooks", "a">>), Under(<<>>), Exactly(<<"api">>),
                Under(<<"api", "a">>), Exactly(<<"hooks", Param>>)},
     reason : BOOLEAN]

Transforms == [kind : {"drop", "twice", "last", "move", "wrap", "add"}, at : 1..6]

BootstrapPrefixes == {<<"api", "account">>, <<"hooks">>, <<>>}

AssemblyInit ==
    /\ options = [routes |-> <<>>, bootstrap |-> {}, rpc_endpoints |-> <<>>, ws_endpoints |-> <<>>,
                  carve_outs |-> {}, transform |-> [kind |-> "none", at |-> 1],
                  daemon |-> FALSE, upgrade |-> TRUE, origins |-> "listed", wildcards |-> FALSE,
                  body_limit |-> TRUE, post |-> FALSE, static |-> FALSE,
                  limiters |-> [slot \in RateLimiterSlots |-> "default"], limiters_off |-> FALSE,
                  weak_cookies |-> {}]
    /\ asked = 0
    /\ outcome = "none" /\ app = <<>> /\ surface = <<>>

Ask ==
    /\ outcome = "none" /\ asked < MaxOptions
    /\ asked' = asked + 1
    /\ \/ \E r \in CallerRoutes : options' = [options EXCEPT !.routes = Append(@, r)]
       \/ \E e \in RpcEndpoints : options' = [options EXCEPT !.rpc_endpoints = Append(@, e)]
       \/ \E e \in CallerWsEndpoints : options' = [options EXCEPT !.ws_endpoints = Append(@, e)]
       \/ \E c \in CarveOuts : options' = [options EXCEPT !.carve_outs = @ \cup {c}]
       \/ \E t \in Transforms : options' = [options EXCEPT !.transform = t]
       \/ \E p \in BootstrapPrefixes : options' = [options EXCEPT !.bootstrap = {p}]
       \/ \E o \in {"wild", "none"} : options' = [options EXCEPT !.origins = o]
       \/ options' = [options EXCEPT !.wildcards = TRUE]
       \/ options' = [options EXCEPT !.upgrade = FALSE]
       \/ options' = [options EXCEPT !.daemon = TRUE]
       \/ options' = [options EXCEPT !.body_limit = FALSE]
       \/ options' = [options EXCEPT !.post = TRUE, !.static = TRUE]
       \/ options' = [options EXCEPT !.limiters_off = TRUE]
       \/ \E slot \in RateLimiterSlots, l \in {"null", "own"} : options' = [options EXCEPT !.limiters[slot] = l]
       \/ options' = [options EXCEPT !.weak_cookies = {"insecure"}]
    /\ UNCHANGED <<outcome, app, surface>>

AssemblyNext == Ask \/ Assemble

AssemblySpec == AssemblyInit /\ [][AssemblyNext]_assembly_vars

------------------------------------------------------------------------------

Requests ==
    LET paths == {<<>>, <<"a">>, <<"api">>, <<"api", "a">>, <<"api", "b">>, <<"api", "account", "bootstrap">>,
                  <<"hooks", "a">>, <<"hooks", "b">>, <<"hooks", "bootstrap">>, <<"b", "a">>}
    IN  [method : {"GET", "POST"}, path : paths, upgrade : {FALSE}]
        \cup [method : {"GET"}, path : paths, upgrade : {TRUE}]

\* A request is answered by the first published route that it matches, else by the
\* published socket endpoint, which serves the published methods that have a handler, else
\* by nothing that is published; and a route that names its path passes just the layers
\* that its entry lists, in that order.  One with a parameter passes those, and may pass
\* more, but for an origin check that carves the path out.  (What comes after the routes is
\* listed for them and never met.)
SurfaceIsWhatIsServed ==
    outcome = "up" =>
        \A request \in Requests :
            LET i == Answering(request)
                published == {k \in DOMAIN surface.routes :
                    surface.routes[k].method = request.method /\ PathMatches(surface.routes[k].path, request.path)}
                sockets == {k \in DOMAIN surface.ws_endpoints :
                    request.upgrade /\ surface.ws_endpoints[k].path = request.path}
            IN  CASE published # {} ->
                        LET first == surface.routes[CHOOSE k \in published : \A l \in published : k <= l]
                            listed == SelectSeq(first.applicable_middleware, LAMBDA name : name # "post_route")
                        IN  /\ i # 0 /\ app[i].type = "route"
                            /\ app[i].spec.path = first.path /\ app[i].spec.auth = first.auth
                            /\ IF Param \notin Range(first.path) THEN Passed(request) = listed
                               ELSE LET due == SelectSeq(listed, LAMBDA name : name # "origin")
                                    IN  SelectSeq(Passed(request), LAMBDA name : name \in Range(due)) = due
                  [] published = {} /\ sockets # {} ->
                        /\ i # 0 /\ app[i].type = "ws"
                        /\ \A k \in sockets :
                            /\ surface.ws_endpoints[k].origins = app[i].spec.origins
                            /\ CompileActionRegistry(surface.ws_endpoints[k].methods) =
                                    CompileActionRegistry(app[i].spec.actions)
                  [] OTHER -> /\ i # 0 => app[i].type \in {"file", "fallback"}
                              /\ IsPrefix(<<"api">>, request.path) => i = 0

\* Whatever the caller lets create_app_server make: before a socket, and before a route
\* that needs, reads or mints a credential, a request has passed each layer of the stack,
\* once and in order, the origin check among them.
CredentialsAreChecked ==
    outcome = "up" =>
        \A request \in Requests :
            LET i == Answering(request)
                stack == Names(Stack)
            IN  /\ i # 0
                /\ \/ app[i].type = "ws"
                   \/ /\ app[i].type = "route"
                      /\ \/ app[i].spec.auth.account # "none"
                         \/ app[i].spec.reads_credential
                         \/ app[i].spec.mints_credential
                => SelectSeq(Passed(request), LAMBDA name : name \in Range(stack)) = stack

\* A route that lets in who has no account is not counted as one that keeps them out, and
\* each limiter that is off, each weak cookie and a missing limit of bodies is warned of.
SummaryIsTrue ==
    outcome = "up" =>
        /\ \A k \in DOMAIN surface.routes :
            LET auth == surface.routes[k].auth
            IN  ~Demanding(auth) => CategorizeRouteAuth(auth) \in {"none", "optional"}
        /\ \A slot \in RateLimiterSlots :
            ResolveRateLimiter(slot) = "null" => surface.diagnostics \cap {slot, "limiters_off"} # {}
        /\ options.weak_cookies # {} \/ ~options.body_limit => surface.diagnostics # {}

=============================================================================
