----------------------------- MODULE Lifecycle ------------------------------
(***************************************************************************)
(* What a server acquires while it is assembled and lets go of when its    *)
(* assembly fails or it closes (server/app_server.ts), on a backend that   *)
(* may host several (server/app_backend.ts), with the cleanup schedule     *)
(* (periodic.ts, auth/cleanup.ts) and the one closer of the backend's live *)
(* connections (actions/connection_closer.ts).                             *)
(*                                                                         *)
(* An assembly runs without interruption between its two awaits, and may   *)
(* throw before or after any acquisition.                                  *)
(***************************************************************************)
EXTENDS Naturals, Sequences, SequencesExt, FiniteSets

CONSTANTS
    Servers,        \* assemblies on the one backend, each attempted once
    Mounts,         \* the registries of a server's WebSocket endpoints, in order
    Audited,        \* servers with an audit stream, whose registry has the server's name
    Swept,          \* servers with a cleanup schedule
    Added,          \* registries the consumer added to the closer by hand
    Limiters,       \* the rate limiters a server builds, in order
    Stuck,          \* limiters whose release throws
    Throwing,       \* registries whose close throws
    MaxOpened       \* connections opened

Registries == Added \cup (UNION {Range(Mounts[s]) : s \in Servers}) \cup Audited

LifecycleAssumption ==
    /\ MaxOpened \in Nat
    /\ Audited \subseteq Servers /\ Swept \subseteq Servers
    /\ Audited \cap (Added \cup UNION {Range(Mounts[s]) : s \in Servers}) = {}

VARIABLES
    hosted,         \* the backend's close does nothing: it is for its host to end
    database,       \* "none", "open" or "closed"
    assembly,       \* where each server is
    releases,       \* what each server will let go of, in the order it was acquired
    members,        \* how many additions of each registry the closer counts
    listeners,      \* the audit listeners, by server and kind
    ticking,        \* the built limiters whose timer runs, by server
    closing,        \* registries that refuse what registers
    live,           \* registries with a live connection
    pass,           \* of each schedule: a pass runs, its timer is set, it is due, stopped
    opened

acquired_vars == <<releases, members, listeners, ticking>>
lifecycle_vars == <<hosted, database, assembly, acquired_vars, closing, live, pass, opened>>

NoSchedule == [running |-> FALSE, timer |-> FALSE, due |-> FALSE, stopped |-> FALSE]

LifecycleInit ==
    /\ database = "none" /\ hosted \in BOOLEAN
    /\ assembly = [s \in Servers |-> "none"]
    /\ releases = [s \in Servers |-> <<>>]
    /\ members = [r \in Registries |-> IF r \in Added THEN 1 ELSE 0]
    /\ listeners = {} /\ ticking = {} /\ closing = {} /\ live = {}
    /\ pass = [s \in Servers |-> NoSchedule]
    /\ opened = 0

-----------------------------------------------------------------------------
\* The backend opens its database and migrates it; when that fails it closes it again.
CreateBackend ==
    /\ database = "none"
    /\ database' \in {"open", "closed"}
    /\ UNCHANGED <<hosted, assembly, acquired_vars, closing, live, pass, opened>>

\* What is acquired before the first await, and after the last.
Acquisition(kind, name) == [kind |-> kind, name |-> name]
AtFirst(s) ==
    [i \in 1..Len(Limiters) |-> Acquisition("limiter", Limiters[i])] \o
    IF s \in Audited
    THEN <<Acquisition("member", s), Acquisition("listener", "stream")>>
    ELSE <<>>
AtLast(s) ==
    IF s \in Audited \/ Mounts[s] # <<>>
    THEN <<Acquisition("listener", "guard")>> \o
         [i \in 1..Len(Mounts[s]) |-> Acquisition("member", Mounts[s][i])]
    ELSE <<>>

Named(acquired, kind, name) ==
    Cardinality({i \in DOMAIN acquired : acquired[i] = Acquisition(kind, name)})
NamesOf(acquired, kind) == {a.name : a \in {b \in Range(acquired) : b.kind = kind}}

\* Each acquisition pushes its release.
Acquire(s, acquired) ==
    /\ releases' = [releases EXCEPT ![s] = @ \o acquired]
    /\ members' = [r \in Registries |-> members[r] + Named(acquired, "member", r)]
    /\ listeners' = listeners \cup ({s} \X NamesOf(acquired, "listener"))
    /\ ticking' = ticking \cup ({s} \X NamesOf(acquired, "limiter"))

\* A run of the assembly acquires all it is to, and goes on to next, or throws on the way.
Assemble(s, stage, wanted, next) ==
    /\ assembly[s] = stage
    /\ \E n \in 0..Len(wanted), throws \in BOOLEAN :
        /\ n < Len(wanted) => throws
        /\ Acquire(s, SubSeq(wanted, 1, n))
        /\ assembly' = [assembly EXCEPT ![s] = IF throws THEN "failing" ELSE next]
    /\ UNCHANGED <<hosted, database, closing, live, opened>>

BeginAssembly(s) ==
    /\ database = "open"
    /\ Assemble(s, "none", AtFirst(s), "middleware")
    /\ UNCHANGED pass

\* The bootstrap status is read from the database, if the bootstrap is live.
MiddlewareBuilt(s) ==
    /\ assembly[s] = "middleware"
    /\ assembly' \in {[assembly EXCEPT ![s] = next] : next \in {"bootstrap", "failing"}}
    /\ UNCHANGED <<hosted, database, acquired_vars, closing, live, pass, opened>>

\* The schedule is started last and runs its first pass at once.
StartPass == [running |-> TRUE, timer |-> TRUE, due |-> FALSE, stopped |-> FALSE]
FinishAssembly(s) ==
    /\ Assemble(s, "bootstrap", AtLast(s), "up")
    /\ pass' = IF assembly'[s] = "up" /\ s \in Swept
               THEN [pass EXCEPT ![s] = StartPass]
               ELSE pass

\* The releases run last acquired first, and one that throws spares the rest.
Done(s) == {i \in DOMAIN releases[s] : ~(releases[s][i].kind = "limiter"
                                         /\ releases[s][i].name \in Stuck)}
\* A fan-out of releases that stops at the first that throws.
RunReleasesUntilOneThrows(s) ==
    LET stuck == {i \in DOMAIN releases[s] : i \notin Done(s)}
        done == [i \in {j \in DOMAIN releases[s] : \A k \in stuck : k < j} |-> releases[s][i]]
    IN /\ releases' = [releases EXCEPT ![s] = <<>>]
       /\ members' = [r \in Registries |-> members[r] - Named(done, "member", r)]
       /\ listeners' = listeners \ ({s} \X NamesOf(done, "listener"))
       /\ ticking' = ticking \ ({s} \X NamesOf(done, "limiter"))

RunReleases(s) ==
    LET done == [i \in Done(s) |-> releases[s][i]]
    IN /\ releases' = [releases EXCEPT ![s] = <<>>]
       /\ members' = [r \in Registries |-> members[r] - Named(done, "member", r)]
       /\ listeners' = listeners \ ({s} \X NamesOf(done, "listener"))
       /\ ticking' = ticking \ ({s} \X NamesOf(done, "limiter"))

FailAssembly(s) ==
    /\ assembly[s] = "failing"
    /\ RunReleases(s)
    /\ assembly' = [assembly EXCEPT ![s] = "failed"]
    /\ UNCHANGED <<hosted, database, closing, live, pass, opened>>

-----------------------------------------------------------------------------
\* The schedule.  The next pass starts when the interval is over and the last pass is too.
TimerFires(s) ==
    /\ pass[s].timer
    /\ pass' = [pass EXCEPT ![s] = IF @.running THEN [@ EXCEPT !.timer = FALSE, !.due = TRUE]
                                                ELSE StartPass]
    /\ UNCHANGED <<hosted, database, assembly, acquired_vars, closing, live, opened>>

\* A pass that is over starts the next one although the schedule was stopped.
PassEndsAndStartsAgain(s) ==
    /\ pass[s].running
    /\ pass' = [pass EXCEPT ![s] = IF @.due THEN StartPass ELSE [@ EXCEPT !.running = FALSE]]
    /\ UNCHANGED <<hosted, database, assembly, acquired_vars, closing, live, opened>>

\* A pass that fails is logged.
PassEnds(s) ==
    /\ pass[s].running
    /\ pass' = [pass EXCEPT ![s] = IF @.due /\ ~@.stopped THEN StartPass
                                                          ELSE [@ EXCEPT !.running = FALSE]]
    /\ UNCHANGED <<hosted, database, assembly, acquired_vars, closing, live, opened>>

\* A client of a server that is up, or not yet out of reach, connects.
Connect(s, r) ==
    /\ opened < MaxOpened
    /\ assembly[s] \in {"up", "stopping", "ending", "closed"}
    /\ r \in Range(Mounts[s]) \cup (Audited \cap {s})
    /\ opened' = opened + 1
    /\ live' = IF r \in closing THEN live ELSE live \cup {r}
    /\ UNCHANGED <<hosted, database, assembly, acquired_vars, closing, pass>>

-----------------------------------------------------------------------------
\* The shutdown, which every call of close shares: the schedule is stopped and its pass
\* waited for,
Close(s) ==
    /\ assembly[s] = "up"
    /\ assembly' = [assembly EXCEPT ![s] = "stopping"]
    /\ pass' = IF s \in Swept
               THEN [pass EXCEPT ![s].stopped = TRUE, ![s].timer = FALSE]
               ELSE pass
    /\ UNCHANGED <<hosted, database, acquired_vars, closing, live, opened>>

\* every member closes what it has, those after one that throws too, and what the assembly
\* acquired is released;
Reached == {r \in Registries : members[r] > 0}
CloseAllConnections ==
    /\ closing' = closing \cup Reached
    /\ live' = live \ (Reached \ Throwing)

ShutDown(s) ==
    /\ assembly[s] = "stopping" /\ ~pass[s].running
    /\ CloseAllConnections
    /\ RunReleases(s)
    /\ assembly' = [assembly EXCEPT ![s] = "ending"]
    /\ UNCHANGED <<hosted, database, pass, opened>>

\* and the backend closes its database, unless that is its host's to do.
CloseBackend(s) ==
    /\ assembly[s] = "ending"
    /\ assembly' = [assembly EXCEPT ![s] = "closed"]
    /\ database' = IF hosted THEN database ELSE "closed"
    /\ UNCHANGED <<hosted, acquired_vars, closing, live, pass, opened>>

LifecycleNext ==
    \/ CreateBackend
    \/ \E s \in Servers :
        \/ BeginAssembly(s) \/ MiddlewareBuilt(s) \/ FinishAssembly(s) \/ FailAssembly(s)
        \/ TimerFires(s) \/ PassEnds(s)
        \/ \E r \in Registries : Connect(s, r)
        \/ Close(s) \/ ShutDown(s) \/ CloseBackend(s)

\* The event loop runs what a close waits for: a pass of the schedule, whose queries end,
\* and then the close itself.  Nothing is assumed of the assembly or of clients.
LifecycleSpec ==
    /\ LifecycleInit /\ [][LifecycleNext]_lifecycle_vars
    /\ \A s \in Servers :
        /\ WF_lifecycle_vars(PassEnds(s))
        /\ WF_lifecycle_vars(ShutDown(s))
        /\ WF_lifecycle_vars(CloseBackend(s))

-----------------------------------------------------------------------------
Gone == {s \in Servers : assembly[s] \in {"failed", "ending", "closed"}}
Up == {s \in Servers : assembly[s] = "up"}

\* A server that is up is reached by every revocation: each registry it mounted and its
\* stream are members of the closer, and its listeners hear the audit rows, whatever other
\* servers on the backend failed or closed in the meantime.
UpIsReached ==
    \A s \in Up :
        /\ Range(Mounts[s]) \cup (Audited \cap {s}) \subseteq Reached
        /\ s \in Audited => {<<s, "stream">>, <<s, "guard">>} \subseteq listeners
        /\ Mounts[s] # <<>> => <<s, "guard">> \in listeners

\* A server that failed or closed has left nothing: no listener, no timer but of a limiter
\* that would not stop, no addition to the closer beyond those of others and the
\* consumer's, and no pass of its schedule.
NothingIsLeft ==
    /\ \A s \in Gone :
        /\ ~\E l \in listeners : l[1] = s
        /\ \A t \in ticking : t[1] = s => t[2] \in Stuck
        /\ s \notin Reached
        /\ ~pass[s].running /\ ~pass[s].timer
    /\ (\A s \in Servers : s \in Gone \/ releases[s] = <<>>) => Reached = Added

\* What closed leaves no live connection where its close did not throw.
ClosedIsOver ==
    \A s \in Servers : assembly[s] \in {"ending", "closed"} =>
        \A r \in (Range(Mounts[s]) \cup (Audited \cap {s})) \ Throwing : r \notin live

\* A close ends: it waits for the pass that runs and for no other.
EveryCloseEnds == \A s \in Servers : assembly[s] = "stopping" ~> assembly[s] = "closed"

\* What a server acquired is there as long as it is up and gone with it, and a server that
\* is to close does.
AcquiredWhileUp == [](UpIsReached /\ NothingIsLeft /\ ClosedIsOver) /\ EveryCloseEnds
=============================================================================
