--------------------------- MODULE AllowedOrigins ---------------------------
(***************************************************************************)
(* Which pages may call: http/origin.ts, http/origin_wildcard.ts.          *)
(*                                                                         *)
(* An operator lists the origins whose pages may call.  The server refuses *)
(* to boot on an entry that is not written as a browser writes an origin,  *)
(* and on a wildcard that is not asked for.  Then browsers send requests   *)
(* from the pages they show.                                               *)
(*                                                                         *)
(* A host is a sequence of labels, or an IPv6 address in brackets, of      *)
(* which only its spelling counts.  A label is a name, a number in some    *)
(* spelling, or a wildcard; the alphabet of a name is left out, but for    *)
(* one label with a character that no host has.                            *)
(***************************************************************************)
EXTENDS Naturals, Sequences

VARIABLES
    entries,        \* the operator's list
    opted_in,       \* whether wildcards are asked for
    server,         \* "stopped", "refused" or "up"
    patterns,       \* what it runs with
    answered        \* of the last request: its origin, whether its path is carved out, the answer

origin_vars == <<entries, opted_in, server, patterns, answered>>

NoPort == "none"
NoHeader == [scheme |-> "none"]

NumberLabels == {"1", "01", "256", "0x1"}
Octets == {"1"}

Lower(text) == IF text = "A" THEN "a" ELSE IF text = "HTTP" THEN "http" ELSE text

DefaultPort(scheme) == IF scheme = "https" THEN "443" ELSE "80"

V6(spelling, after) == [labels |-> <<>>, spelling |-> spelling, after |-> after]
Named(labels) == [labels |-> labels, spelling |-> "none", after |-> "nothing"]

IsV6(host) == host.labels = <<>> /\ host.spelling \notin {"none", "bare"}

------------------------------------------------------------------------------
(***************************************************************************)
(* The server: the list.                                                   *)
(***************************************************************************)

Refused == [refused |-> TRUE]

\* The URL parser gives the address back as it is written.
IsIpv6OriginForm(host) == host.spelling = "canonical"

\* A mutation: a number is looked for in the last label as it stands, a trailing dot and all.
IsCanonicalIpv4OrNameDotted(labels) ==
    labels[Len(labels)] \in NumberLabels =>
        Len(labels) = 4 /\ \A i \in DOMAIN labels : labels[i] \in Octets \cup {"*"}

IsCanonicalIpv4OrName(labels) ==
    LET last == IF labels[Len(labels)] = "" THEN labels[Len(labels) - 1] ELSE labels[Len(labels)]
    IN  last \in NumberLabels =>
            Len(labels) = 4 /\ \A i \in DOMAIN labels : labels[i] \in Octets \cup {"*"}

HostHolds(host) ==
    IF IsV6(host) THEN IsIpv6OriginForm(host) /\ host.after = "nothing"
    ELSE /\ host.labels # <<>>
         /\ \A i \in DOMAIN host.labels : host.labels[i] \notin {"*a", "a%"}
         /\ IsCanonicalIpv4OrName(host.labels)

PortHolds(entry) ==
    \/ entry.port \in {NoPort, "*"}
    \/ entry.port \notin {"08080", "70000", DefaultPort(Lower(entry.scheme))}

ParseOriginPattern(entry) ==
    IF /\ Lower(entry.scheme) \in {"http", "https"} /\ entry.extra = "nothing"
       /\ HostHolds(entry.host) /\ PortHolds(entry)
    THEN [scheme |-> Lower(entry.scheme),
          host |-> [entry.host EXCEPT !.labels = [i \in DOMAIN entry.host.labels |-> Lower(entry.host.labels[i])]],
          port |-> entry.port]
    ELSE Refused

\* An entry names any of several origins with its port, or with a label of its host.
OriginWildcardKind(pattern) ==
    (IF pattern.port = "*" THEN {"port"} ELSE {})
    \cup (IF \E i \in DOMAIN pattern.host.labels : pattern.host.labels[i] = "*" THEN {"host"} ELSE {})

AdmitOriginWildcards(parsed, allowed) ==
    allowed \/ \A pattern \in parsed : OriginWildcardKind(pattern) = {}

ParseAllowedOrigins(list) == {ParseOriginPattern(entry) : entry \in list}

\* validate_server_env, and create_app_server after it.
Boot ==
    /\ server = "stopped"
    /\ LET parsed == ParseAllowedOrigins(entries)
       IN  IF parsed = {} \/ Refused \in parsed \/ ~AdmitOriginWildcards(parsed, opted_in)
           THEN server' = "refused" /\ UNCHANGED patterns
           ELSE server' = "up" /\ patterns' = parsed
    /\ UNCHANGED <<entries, opted_in, answered>>

------------------------------------------------------------------------------
(***************************************************************************)
(* The server: a request.                                                  *)
(***************************************************************************)

LabelsMatch(labels, texts) ==
    /\ Len(labels) = Len(texts)
    /\ \A i \in DOMAIN labels : labels[i] = texts[i] \/ (labels[i] = "*" /\ texts[i] # "")

\* The regex of a pattern: a wildcard label is one label, a wildcard port any or none.
MatchesPattern(origin, pattern) ==
    /\ origin.scheme = pattern.scheme
    /\ IF IsV6(pattern.host) THEN origin.host = pattern.host
       ELSE ~IsV6(origin.host) /\ LabelsMatch(pattern.host.labels, origin.host.labels)
    /\ pattern.port = "*" \/ origin.port = pattern.port

ShouldAllowOrigin(origin) == origin.scheme # "null" /\ \E p \in patterns : MatchesPattern(origin, p)

VerifyRequestSource(origin, carved_out) ==
    carved_out \/ origin = NoHeader \/ ShouldAllowOrigin(origin)

------------------------------------------------------------------------------
(***************************************************************************)
(* The browser: how a URL is written as an origin.                         *)
(***************************************************************************)

\* A host that ends in a number is an IPv4 address, written as four octets.  Where the
\* address is another than the number says is told apart, no more.
HostAsSent(host) ==
    IF host.labels = <<>> THEN [host EXCEPT !.spelling = "canonical", !.after = "nothing"]
    ELSE LET labels == [i \in DOMAIN host.labels |-> Lower(host.labels[i])]
             name == IF labels[Len(labels)] = "" THEN SubSeq(labels, 1, Len(labels) - 1) ELSE labels
         IN  IF name[Len(name)] \notin NumberLabels THEN Named(labels)
             ELSE IF Len(name) = 4 /\ \A i \in DOMAIN name : name[i] \in Octets THEN Named(name)
             ELSE Named(<<"1", "1", "1", "256">>)

OriginAsSent(url) ==
    [scheme |-> Lower(url.scheme), host |-> HostAsSent(url.host),
     port |-> IF url.port = DefaultPort(Lower(url.scheme)) THEN NoPort ELSE url.port]

Hosts ==
    {Named(labels) : labels \in
        {<<"a">>, <<"A">>, <<"a", "">>, <<"b", "a">>, <<"*", "a">>, <<"*">>, <<"*a", "a">>, <<"a%">>,
         <<"b", "b", "a">>, <<"1", "1", "1", "1">>, <<"*", "1", "1", "1">>, <<"*", "*", "*", "*">>,
         <<"1">>, <<"1", "">>, <<"1", "1", "1", "01">>, <<"1", "1", "1", "256">>, <<"b", "0x1">>}}
    \cup {V6("canonical", "nothing"), V6("padded", "nothing"), V6("canonical", "junk"), V6("bare", "nothing")}

Url(scheme, host, port, extra) == [scheme |-> scheme, host |-> host, port |-> port, extra |-> extra]

Entries ==
    {Url(scheme, host, port, "nothing") :
        scheme \in {"https", "HTTP", "ftp"}, host \in Hosts,
        port \in {NoPort, "*", "443", "8080", "08080"}}
    \cup {Url("https", Named(<<"a">>), "70000", "nothing"), Url("http", Named(<<"a">>), "80", "nothing"),
          Url("https", Named(<<"a">>), NoPort, "path"), Url("https", Named(<<"a">>), NoPort, "userinfo")}

PageHosts ==
    {Named(labels) : labels \in
        {<<"a">>, <<"a", "">>, <<"b", "a">>, <<"b", "b", "a">>, <<"1", "1", "1", "1">>, <<"1", "">>}}
    \cup {V6("padded", "nothing")}

Pages ==
    {Url(scheme, host, port, "nothing") :
        scheme \in {"http", "https"}, host \in PageHosts, port \in {NoPort, "443", "8080"}}

Nothing == [origin |-> NoHeader, carved_out |-> FALSE, admitted |-> TRUE]

\* A request has the origin of its page, or "null" where that is opaque, or none.
Request ==
    /\ server = "up" /\ answered = Nothing
    /\ \E origin \in {OriginAsSent(page) : page \in Pages} \cup {[scheme |-> "null"], NoHeader},
          carved_out \in BOOLEAN :
        answered' = [origin |-> origin, carved_out |-> carved_out,
                     admitted |-> VerifyRequestSource(origin, carved_out)]
    /\ UNCHANGED <<entries, opted_in, server, patterns>>

OriginsInit ==
    /\ \E entry \in Entries :
        entries \in {{}, {entry}, {entry, Url("https", Named(<<"b", "a">>), NoPort, "nothing")}}
    /\ opted_in \in BOOLEAN
    /\ server = "stopped" /\ patterns = {}
    /\ answered = Nothing

OriginsNext == Boot \/ Request

OriginsSpec == OriginsInit /\ [][OriginsNext]_origin_vars

------------------------------------------------------------------------------

IsWild(entry) == entry.port = "*" \/ \E i \in DOMAIN entry.host.labels : entry.host.labels[i] = "*"

HostIsNamed(written, host) ==
    IF \E i \in DOMAIN written.labels : written.labels[i] = "*"
    THEN /\ Len(host.labels) = Len(written.labels)
         /\ \A i \in DOMAIN host.labels : Lower(written.labels[i]) \in {"*", host.labels[i]}
    ELSE host = HostAsSent(written)

Filled(entry, label) ==
    [entry EXCEPT !.port = IF @ = "*" THEN NoPort ELSE @,
                  !.host.labels = [i \in DOMAIN @ |-> IF @[i] = "*" THEN label ELSE @[i]]]

\* The server runs only with entries that some page can meet: an exact one is what a
\* browser writes of it, and a wildcard is there only if it is asked for.  A page gets in
\* if and only if its origin is that of an exact entry, or has the scheme, the number of
\* labels and the other labels and the port of a wild one; a request that no page sent, or
\* that is to a path that is carved out, is not checked.
OnlyListedPagesGetIn ==
    server = "up" =>
        /\ \A e \in entries :
            /\ IsWild(e) => opted_in
            /\ \E label \in {"b", "1"} :
                MatchesPattern(OriginAsSent(Filled(e, label)), ParseOriginPattern(e))
        /\ answered.admitted <=>
            \/ answered.carved_out \/ answered.origin = NoHeader
            \/ \E e \in entries : ~IsWild(e) /\ answered.origin = OriginAsSent(e)
            \/ \E e \in entries :
                /\ IsWild(e) /\ answered.origin.scheme = Lower(e.scheme)
                /\ e.port \in {"*", answered.origin.port}
                /\ HostIsNamed(e.host, answered.origin.host)

=============================================================================
