------------------------------- MODULE XAccel -------------------------------
(***************************************************************************)
(* The check of the nginx config that serves facts: server/x_accel.ts.     *)
(*                                                                         *)
(* The server answers a fact with a redirect below a prefix, and nginx     *)
(* serves the file.  create_x_accel_config reads the config first, and     *)
(* throws if it does not find it safe.  Here an operator edits a safe      *)
(* config, and what the check accepts is held against what nginx does      *)
(* with a request.                                                         *)
(*                                                                         *)
(* A config is the body of one server block, parsed: how it is cut into    *)
(* words is left out, with the parse errors.  A path is a sequence of      *)
(* symbols, a regex matches the paths that its text occurs in.             *)
(***************************************************************************)
EXTENDS Naturals, FiniteSets, SequencesExt

CONSTANTS MaxEdits

VARIABLES
    facts_location,     \* the prefix of the redirects, as the caller names it
    config,             \* the directives of the server block
    edits

nginx_vars == <<facts_location, config, edits>>

Directive(name, args, path, block) ==
    [name |-> name, args |-> args, path |-> path, block |-> block]

Simple(name, args) == Directive(name, args, <<>>, {})

Location(modifier, path, block) == Directive("location", <<modifier>>, path, block)

IsBlock(d) == d.name \in {"location", "if"}

Modifier(d) == d.args[1]

Root == <<"/">>
Prefix == <<"/", "f">>

FactSecurityHeaders == {"X-Content-Type-Options", "Content-Security-Policy"}

FactSecurityHeaderDirectives ==
    {Simple("add_header", <<name, "required">>) : name \in FactSecurityHeaders}

\* The location of the module's example.
Example ==
    {Location("prefix_no_regex", Append(Prefix, "/"),
              FactSecurityHeaderDirectives \cup {Simple("internal", <<>>)})}

------------------------------------------------------------------------------
(***************************************************************************)
(* The check.                                                              *)
(***************************************************************************)

TrimTrailingSlashes(path) ==
    SubSeq(path, 1, CHOOSE n \in 0..Len(path) :
                        /\ n = 0 \/ path[n] # "/"
                        /\ \A k \in n + 1..Len(path) : path[k] = "/")

Lower(path) == [k \in DOMAIN path |-> IF path[k] = "F" THEN "f" ELSE path[k]]

Includes(text, part) == part \in SubSeqs(text)

PathIsUnder(path, prefix) ==
    LET trimmed == TrimTrailingSlashes(path)
    IN  \/ trimmed = prefix
        \/ IsPrefix(prefix, trimmed) /\ trimmed[Len(prefix) + 1] = "/"

PrefixTypes == {"prefix", "prefix_no_regex"}

ServesPrefix(d, prefix) ==
    d.name = "location" /\ Modifier(d) \in PrefixTypes /\ PathIsUnder(d.path, prefix)

\* The directives at any depth, each with the name of the block around it.
Nodes ==
    LET below(d) == {<<e, d.name>> : e \in d.block}
        upper == {<<d, "server">> : d \in config}
        middle == UNION {below(d) : d \in config}
    IN  upper \cup middle \cup UNION {below(n[1]) : n \in middle}

\* Another add_header of a required one, in whatever case.
OverridesHeader(d) ==
    d.name = "add_header" /\ d.args[1] \in FactSecurityHeaders /\ d \notin FactSecurityHeaderDirectives

\* A mutation: a plain prefix location is as good as one that keeps the regexes out.
FactsLocationHoldsPlain(d, parent) ==
    /\ parent = "server"
    /\ Simple("internal", <<>>) \in d.block
    /\ FactSecurityHeaderDirectives \subseteq d.block
    /\ \A e \in d.block : ~OverridesHeader(e) /\ ~IsBlock(e) /\ e.name # "include"

FactsLocationHolds(d, parent) ==
    /\ Modifier(d) = "prefix_no_regex"
    /\ parent = "server"
    /\ Simple("internal", <<>>) \in d.block
    /\ FactSecurityHeaderDirectives \subseteq d.block
    /\ \A e \in d.block : ~OverridesHeader(e) /\ ~IsBlock(e) /\ e.name # "include"

LocationHolds(d, parent, prefix) ==
    CASE Modifier(d) \in PrefixTypes -> PathIsUnder(d.path, prefix) => FactsLocationHolds(d, parent)
      [] Modifier(d) = "exact" -> ~PathIsUnder(d.path, prefix)
      [] Modifier(d) = "regex" -> ~Includes(d.path, prefix)
      [] Modifier(d) = "regex_caseless" -> ~Includes(Lower(d.path), Lower(prefix))
      [] OTHER -> TRUE

\* Nothing names the prefix but the locations that serve it, and what is in them.
PrefixMentionsHold(prefix) ==
    LET shown(ds) == ds \cup UNION {d.block : d \in {e \in ds : IsBlock(e) /\ ~ServesPrefix(e, prefix)}}
    IN  \A d \in shown(shown(config)) : d.name # "location" => ~Includes(d.path, prefix)

\* ssi is off, and nothing rewrites headers in a block that the facts location is in or is.
ModulesHold(prefix) ==
    LET reached(ds) == ds \cup UNION {d.block : d \in {e \in ds : e.name = "if" \/ ServesPrefix(e, prefix)}}
    IN  /\ \A n \in Nodes : n[1].name = "ssi" => n[1].args = <<"off">>
        /\ \A d \in reached(reached(config)) : d.name \notin {"more_set_headers", "more_clear_headers"}

ValidateFactsInternalLocation ==
    LET prefix == TrimTrailingSlashes(facts_location)
        locations == {n \in Nodes : n[1].name = "location"}
    IN  /\ Head(facts_location) = "/" /\ prefix # <<>>
        /\ Len(facts_location) = Len(prefix) + 1
        /\ \A n \in locations : LocationHolds(n[1], n[2], prefix)
        /\ PrefixMentionsHold(prefix)
        /\ ModulesHold(prefix)
        /\ \E n \in locations : /\ Modifier(n[1]) \in PrefixTypes
                                /\ n[1].path \in {prefix, Append(prefix, "/")}

------------------------------------------------------------------------------
(***************************************************************************)
(* What nginx does.                                                        *)
(***************************************************************************)

LocationsOf(ds, modifiers) == {d \in ds : d.name = "location" /\ Modifier(d) \in modifiers}

Exact(ds, path) == {d \in LocationsOf(ds, {"exact"}) : d.path = path}

\* The regexes are tried in their order, which the set does not tell: each may be first.
Matching(ds, path) ==
    {d \in LocationsOf(ds, {"regex"}) : Includes(path, d.path)}
    \cup {d \in LocationsOf(ds, {"regex_caseless"}) : Includes(Lower(path), Lower(d.path))}

Longest(ds, path) ==
    LET prefixes == {d \in LocationsOf(ds, PrefixTypes) : IsPrefix(d.path, path)}
    IN  {d \in prefixes : \A e \in prefixes : Len(e.path) <= Len(d.path)}

\* The locations that may answer a path, in a block that holds no block: the exact
\* one, or a regex unless the longest prefix forbids it, or the longest prefix.
Decided(ds, path) ==
    IF Exact(ds, path) # {} THEN Exact(ds, path)
    ELSE IF \E d \in Longest(ds, path) : Modifier(d) = "prefix_no_regex" THEN {}
    ELSE Matching(ds, path)

\* The same for the server: a location within the longest one goes before its own
\* regexes only if it is exact or a regex itself.
Selected(path) ==
    LET longest == Longest(config, path)
        inner == UNION {d.block : d \in longest}
    IN  IF Exact(config, path) # {} THEN Exact(config, path)
        ELSE IF Decided(inner, path) # {} THEN Decided(inner, path)
        ELSE IF Decided(config, path) # {} THEN Decided(config, path)
        ELSE IF Longest(inner, path) # {} THEN Longest(inner, path)
        ELSE longest

\* What an answer from a location goes through.
InEffect(d) == config \cup d.block \cup UNION {e.block : e \in {x \in d.block \cup config : x.name = "if"}}

\* Where the server's redirects point, and what a browser may ask for.
Targets == {facts_location \o rest : rest \in {<<"a">>, <<"x", "/", "a">>}}

RequestPaths == Targets \cup {Root, Append(Root, "x"), Append(Prefix, "x")}

------------------------------------------------------------------------------
(***************************************************************************)
(* The operator's edits.                                                   *)
(***************************************************************************)

\* A word that names the prefix, and one that does not.
Rewrites == {Directive("rewrite", <<>>, path, {}) : path \in {Append(Root, "x"), Append(Prefix, "/")}}

Simples ==
    {Simple("internal", <<>>), Simple("ssi", <<"on">>), Simple("ssi", <<"off">>),
     Simple("include", <<>>), Simple("more_set_headers", <<>>),
     Simple("add_header", <<"X-Content-Type-Options", "other">>),
     Simple("add_header", <<"X-Other", "other">>)}
    \cup FactSecurityHeaderDirectives \cup Rewrites

Locations ==
    {Location(modifier, path, {}) :
        modifier \in PrefixTypes \cup {"exact"},
        path \in {Root, Prefix, Append(Prefix, "/"), Prefix \o <<"/", "a">>, Append(Prefix, "x")}}
    \cup {Location(modifier, path, {}) :
        modifier \in {"regex", "regex_caseless"}, path \in {<<"a">>, <<"/", "F">>, Prefix}}

Blocks == Locations \cup {Directive("if", <<>>, <<>>, {})}

NginxInit ==
    /\ facts_location \in {Prefix, Append(Prefix, "/"), Prefix \o <<"/", "/">>, Root}
    /\ config = Example
    /\ edits = 0

Edited(before, after) == config' = (config \ {before}) \cup after

Edit ==
    /\ edits < MaxEdits
    /\ edits' = edits + 1
    /\ UNCHANGED facts_location
    /\ \/ \E d \in Simples \cup Blocks : config' = config \cup {d}
       \/ \E d \in config : config' = config \ {d}
       \/ \E d \in config :
            /\ IsBlock(d)
            /\ \/ \E e \in Simples \cup Blocks : Edited(d, {[d EXCEPT !.block = @ \cup {e}]})
               \/ \E e \in d.block : Edited(d, {[d EXCEPT !.block = @ \ {e}]})
               \/ \E e \in d.block, x \in Simples :
                    /\ IsBlock(e)
                    /\ Edited(d, {[d EXCEPT !.block = (@ \ {e}) \cup {[e EXCEPT !.block = @ \cup {x}]}]})
       \/ \E d \in config, modifier \in PrefixTypes \cup {"exact"} :
            d.name = "location" /\ Edited(d, {[d EXCEPT !.args = <<modifier>>]})

NginxSpec == NginxInit /\ [][Edit]_nginx_vars

------------------------------------------------------------------------------

\* What the check accepts: every path that the server redirects to is answered by a
\* location, whatever other locations there are, that none but a redirect reaches and
\* that sets each of the hardening headers, once and for good; and no request that a
\* browser sends is redirected there by the config, nor is its answer put together
\* from there.
FactsAreReachedByRedirect ==
    ValidateFactsInternalLocation =>
        /\ \A path \in Targets :
            /\ Selected(path) # {}
            /\ \A d \in Selected(path) :
                /\ Simple("internal", <<>>) \in d.block
                /\ FactSecurityHeaderDirectives \subseteq d.block
                /\ \A e \in InEffect(d) :
                    e.name # "more_set_headers" /\ ~(e \in d.block /\ OverridesHeader(e))
        /\ \A path \in RequestPaths \ Targets : \A d \in Selected(path) : \A e \in InEffect(d) :
            /\ e \in Rewrites => ~IsPrefix(Append(Prefix, "/"), e.path) \/ ServesPrefix(d, Prefix)
            /\ e.name = "ssi" => e.args = <<"off">>

\* Of all that is tried, the example is accepted, at its own prefix alone.
TheExampleIsAccepted ==
    edits = 0 => (ValidateFactsInternalLocation <=> facts_location = Append(Prefix, "/"))

=============================================================================
