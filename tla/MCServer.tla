------------------------------ MODULE MCServer ------------------------------
(***************************************************************************)
(* The parts of the server that are checked apart from one another, one at *)
(* a time: requests to clients, the rate limiter, logins and credentials,  *)
(* signup and bootstrap, audit rows and their listeners, audit streams,    *)
(* cells, a fact and its file, the boots that migrate the database, the    *)
(* edits of the front server's config, the address a request came from,    *)
(* the pages that may send one, and the cookies of the sessions.  Signup   *)
(* and bootstrap keep their own names here, the others have an instance.   *)
(***************************************************************************)
EXTENDS Onboarding, Sequences, TLC

CONSTANTS
    p1, p2, p3,
    Connections, MaxInFlight, MaxPeerRequests,
    Callers, Keys, MaxAttempts, Window, MaxWait, MaxKeys, MaxStamps,
    LoginRequests, MaxCredentials,
    AuditRequests, Listeners, Throwing, Leaving, Late, MaxRows,
    Streams, Sessions, Tokens, MaxPerScope, MaxQueue,
    CellRequests, Actors, Admins, Founder, Members, Stewards, Cells, Facts, Ops, MaxAsks,
    FactActors, MaxPuts,
    Processes, Baselines, Builds, MaxBoots,
    MaxEdits, MaxHops,
    Browsers, SessionAge, MaxTime, MaxKey

\* A limit of sessions or tokens leaves room for one.
ASSUME SomeCredentials == MaxCredentials \in Nat \ {0}

\* A session may have a stream, and no credential is called what the role is.
ASSUME StreamsAssumption ==
    MaxPerScope \in Nat \ {0} /\ "role" \notin Sessions \cup Tokens

\* A build lists the names of its migrations.
ASSUME BuildsAssumption == Builds \in [Processes -> Seq(STRING)]

\* There is a first key, and a session lives for some time.
ASSUME CookiesAssumption == MaxKey \in Nat \ {0} /\ SessionAge \in Nat

\* The founder is one of the actors, the root and a contribution to it have cells, and
\* what is asked for is an operation.
ASSUME CellsAssumption ==
    /\ Founder \in Actors /\ "none" \notin Actors
    /\ {1, 2} \subseteq Cells /\ 0 \notin Cells
    /\ Ops \subseteq {"create", "update", "clone", "moderate", "link", "unlink", "grant",
                      "revoke", "delete"}

VARIABLES
    part,
    registration, next_id, pending, owner, outcome, answered_on,
    attempts, waiters, call,
    password, active, kind_of, live, expired, connected, login, cleanup, era, era_of,
    lineage, overtaken, crowded, unheard,
    audited, rows, listeners, heard, fresh,
    stream_live, stream_expired, stream_active, role, closes, stream_unheard, stream,
    subscribers, closing,
    cell, grant, grants_made, links, held, cell_req, asked, seen,
    row, row_recent, file, temp, holder, named, put, puts, naming, spills, reaper, read,
    kept, raced,
    tracker, taken, promoted, boot, boots,
    facts_location, config, edits,
    trusted_proxies, path, forwarded_for, vouched, found,
    entries, opted_in, server, patterns, answered,
    now, env_keys, ring, signed_last, hasty, cookie, row_expires

Peers == INSTANCE PeerRequests
Limiter == INSTANCE RateLimiter
\* The limits of a limiter are numbers, and it has room for a key.
ASSUME LimiterBounds == Limiter!LimiterAssumption

Credentials == INSTANCE Logins WITH Requests <- LoginRequests, req <- login
Delivery == INSTANCE AuditDelivery WITH Requests <- AuditRequests, req <- audited
Feeds == INSTANCE AuditStreams
            WITH live <- stream_live, expired <- stream_expired, active <- stream_active,
                 unheard <- stream_unheard
Contents == INSTANCE Cells WITH Requests <- CellRequests, req <- cell_req
Store == INSTANCE Facts WITH Actors <- FactActors

\* The build before, the one after it, one from another branch, and the baseline of the
\* first.
MCBuilds == [p \in Processes |->
    CASE p = "new" -> <<"m1", "m2">>
      [] p = "fork" -> <<"m1", "x2">>
      [] OTHER -> <<"m1">>]
Boots == INSTANCE Migrations WITH Code <- Builds
Nginx == INSTANCE XAccel
Addresses == INSTANCE ClientIp
Origins == INSTANCE AllowedOrigins
Cookies == INSTANCE SessionCookies

\* Two of the requests of each part, and of the callers, are interchangeable.
ServerSymmetry == Permutations({p1, p2})

peer_vars == <<registration, next_id, pending, owner, outcome, answered_on>>
limiter_vars == <<attempts, waiters, call>>
login_vars == <<password, active, kind_of, live, expired, connected, login, cleanup, era,
                era_of, lineage, overtaken, crowded, unheard>>
audit_vars == <<audited, rows, listeners, heard, fresh>>
stream_vars == <<stream_live, stream_expired, stream_active, role, closes, stream_unheard,
                 stream, subscribers, closing>>
cell_vars == <<cell, grant, grants_made, links, held, cell_req, asked, seen>>
fact_vars == <<row, row_recent, file, temp, holder, named, put, puts, naming, spills,
               reaper, read, kept, raced>>
migration_vars == <<tracker, taken, promoted, boot, boots>>
nginx_vars == <<facts_location, config, edits>>
client_vars == <<trusted_proxies, path, forwarded_for, vouched, found>>
origin_vars == <<entries, opted_in, server, patterns, answered>>
cookie_vars == <<now, env_keys, ring, signed_last, hasty, cookie, row_expires>>
edge_vars == <<nginx_vars, client_vars, origin_vars, cookie_vars>>
server_vars == <<part, peer_vars, limiter_vars, login_vars, onboarding_vars, audit_vars,
                 stream_vars, cell_vars, fact_vars, migration_vars, edge_vars>>

\* A part at rest has one of its initial states.
ServerInit ==
    /\ part \in {"peers", "limiter", "logins", "signups", "delivery", "streams", "cells",
                "facts", "migrations", "nginx", "clients", "origins", "cookies"}
    /\ Peers!PeerInit /\ Limiter!Init /\ Credentials!LoginsInit /\ OnboardingInit
    /\ Delivery!AuditInit /\ Feeds!StreamsInit /\ Contents!CellsInit
    /\ Store!FactsInit /\ Boots!MigrationsInit
    /\ part # "logins" => connected = {}
    /\ part # "facts" => row = "none" /\ spills
    /\ part # "cells" =>
        /\ cell[1].visibility = "private" /\ cell[2] = Contents!Unborn
        /\ \A p \in Contents!Principals : grant[1][p] = Contents!NoGrant
    /\ IF part = "nginx" THEN Nginx!NginxInit
       ELSE facts_location = Nginx!Prefix /\ config = {} /\ edits = 0
    /\ IF part = "clients" THEN Addresses!ClientInit
       ELSE trusted_proxies = {} /\ path = <<>> /\ forwarded_for = <<>> /\ vouched = TRUE /\ found = {}
    /\ IF part = "origins" THEN Origins!OriginsInit
       ELSE /\ entries = {} /\ opted_in = FALSE /\ server = "stopped" /\ patterns = {}
            /\ answered = Origins!Nothing
    /\ Cookies!CookiesInit

ServerNext ==
    \/ /\ part = "peers" /\ Peers!PeerNext
       /\ UNCHANGED <<part, limiter_vars, login_vars, onboarding_vars, audit_vars,
                       stream_vars, cell_vars, fact_vars, migration_vars, edge_vars>>
    \/ /\ part = "limiter" /\ Limiter!Next
       /\ UNCHANGED <<part, peer_vars, login_vars, onboarding_vars, audit_vars, stream_vars,
                       cell_vars, fact_vars, migration_vars, edge_vars>>
    \/ /\ part = "logins" /\ Credentials!LoginsNext
       /\ UNCHANGED <<part, peer_vars, limiter_vars, onboarding_vars, audit_vars, stream_vars,
                       cell_vars, fact_vars, migration_vars, edge_vars>>
    \/ /\ part = "signups" /\ OnboardingNext
       /\ UNCHANGED <<part, peer_vars, limiter_vars, login_vars, audit_vars, stream_vars,
                       cell_vars, fact_vars, migration_vars, edge_vars>>
    \/ /\ part = "delivery" /\ Delivery!AuditNext
       /\ UNCHANGED <<part, peer_vars, limiter_vars, login_vars, onboarding_vars, stream_vars,
                       cell_vars, fact_vars, migration_vars, edge_vars>>
    \/ /\ part = "streams" /\ Feeds!StreamsNext
       /\ UNCHANGED <<part, peer_vars, limiter_vars, login_vars, onboarding_vars, audit_vars,
                       cell_vars, fact_vars, migration_vars, edge_vars>>
    \/ /\ part = "cells" /\ Contents!CellsNext
       /\ UNCHANGED <<part, peer_vars, limiter_vars, login_vars, onboarding_vars, audit_vars,
                       stream_vars, fact_vars, migration_vars, edge_vars>>
    \/ /\ part = "facts" /\ Store!FactsNext
       /\ UNCHANGED <<part, peer_vars, limiter_vars, login_vars, onboarding_vars, audit_vars,
                       stream_vars, cell_vars, migration_vars, edge_vars>>
    \/ /\ part = "migrations" /\ Boots!MigrationsNext
       /\ UNCHANGED <<part, peer_vars, limiter_vars, login_vars, onboarding_vars, audit_vars,
                       stream_vars, cell_vars, fact_vars, edge_vars>>
    \/ /\ part = "nginx" /\ Nginx!Edit
       /\ UNCHANGED <<part, peer_vars, limiter_vars, login_vars, onboarding_vars, audit_vars,
                       stream_vars, cell_vars, fact_vars, migration_vars, client_vars, origin_vars,
                       cookie_vars>>
    \/ /\ part = "clients" /\ Addresses!ClientNext
       /\ UNCHANGED <<part, peer_vars, limiter_vars, login_vars, onboarding_vars, audit_vars,
                       stream_vars, cell_vars, fact_vars, migration_vars, nginx_vars, origin_vars,
                       cookie_vars>>
    \/ /\ part = "origins" /\ Origins!OriginsNext
       /\ UNCHANGED <<part, peer_vars, limiter_vars, login_vars, onboarding_vars, audit_vars,
                       stream_vars, cell_vars, fact_vars, migration_vars, nginx_vars, client_vars,
                       cookie_vars>>
    \/ /\ part = "cookies" /\ Cookies!CookiesNext
       /\ UNCHANGED <<part, peer_vars, limiter_vars, login_vars, onboarding_vars, audit_vars,
                       stream_vars, cell_vars, fact_vars, migration_vars, nginx_vars, client_vars,
                       origin_vars>>

ServerParts == ServerInit /\ [][ServerNext]_server_vars

\* PeerRequests: what is unsettled is pending on its connection and answered only there,
\* and a request settles once.
SettledOnceByItsConnection == Peers!SettledOnceByItsConnection

\* RateLimiter: the cap holds with exact counters, and a slot that frees is announced.
AttemptsAreCapped == Limiter!AttemptsAreCapped
FreedSlotWakes == Limiter!FreedSlotWakes

\* Logins: nothing outlives the loss of its account's trust but what the loss overtook, and
\* the connections of what ended are closed.
CredentialsEndWithTheTrust ==
    /\ Credentials!OnlyTheOvertakenOutlive
    /\ Credentials!EndedCredentialsLoseTheirConnections

\* Logins: what may exceed the cap of credentials.
OnlyOverlapPassesTheLimit == Credentials!OnlyOverlapPassesTheLimit

\* Onboarding: an account is let in once, and the first keeper is the only one.
AccountsWereLetIn == EveryAccountWasLetIn /\ OneKeeperOrAToken

\* AuditDelivery: each listener hears each committed row once.
AnnouncedOnceIfCommitted == Delivery!AnnouncedOnceIfCommitted

\* AuditStreams: a stream whose credential or role ended is closed.
OnlyEntitledStreamsStay == Feeds!OnlyEntitledStreamsStay

\* Cells: references and links name what their actor saw, and a rejection is final.
NoOneNamesWhatTheyNeverSaw == Contents!NoOneNamesWhatTheyNeverSaw
RejectedStaysRejected == Contents!RejectedStaysRejected

\* Facts: what was put or named lately is there with its bytes.
RecentFactsAreKept == Store!RecentFactsAreKept

\* Migrations: the schema is what its tracker says, under whoever serves.
SchemaIsWhatWasRecorded == Boots!SchemaIsWhatWasRecorded

\* XAccel: a config that the check accepts reaches the facts by a redirect alone, and the
\* example is accepted.
FactsAreServedInternally ==
    part = "nginx" => Nginx!FactsAreReachedByRedirect /\ Nginx!TheExampleIsAccepted

\* ClientIp, AllowedOrigins: a request counts for the client that sent it, and a page's is
\* answered only if the page is listed.
RequestsAreToldApart ==
    /\ part = "clients" => Addresses!ClientsAreToldApart
    /\ part = "origins" => Origins!OnlyListedPagesGetIn

\* SessionCookies: a rotation of the keys signs no one out, and no cookie outlives its row.
SessionsLastAsLongAsTheyShould == Cookies!SessionsLastAsLongAsTheyShould

=============================================================================
