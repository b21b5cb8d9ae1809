------------------------------- MODULE MCFair -------------------------------
(***************************************************************************)
(* Four parts that do not interact, each with the fairness the event loop  *)
(* gives it: the frames of a socket (SocketSession), a connection's        *)
(* outbound writer, the rate limiter, and the start and shutdown of        *)
(* servers; and two of which only safety is asked, so that they need none: *)
(* the readers of cells, and what a server is assembled of.  A behaviour   *)
(* is one of one part.                                                     *)
(***************************************************************************)
EXTENDS SocketSession

CONSTANTS
    Payloads, Overhead, MaxBytes, HighWater, MaxPushes,
    Callers, Keys, MaxAttempts, Window, MaxWait, MaxKeys, MaxStamps,
    Servers, Added, Stuck, Raising, MaxOpened,
    Children, MaxKey, Walkers, BundleLimit, PageLimit, MaxChanges,
    MaxOptions

VARIABLES
    part,
    can_terminate, state, waiting, outbound_bytes, outbound_frames, pump_pending, poll_timer,
    stall_timer, close_timer, handed_since_stall_start, buffer, socket, pushed, sent, covered,
    seen,
    attempts, waiters, call,
    hosted, database, assembly, releases, members, server_listeners, ticking,
    server_closing, live, pass, opened,
    relation, cell, grants, links, changes, walk, shown, steady, sighted,
    options, asked, server_outcome, app, surface

Writer == INSTANCE OutboundWriter
            WITH FrameSizes <- Payloads, MaxFrames <- MaxPushes,
                 queued_bytes <- outbound_bytes, queued_frames <- outbound_frames
Limiter == INSTANCE RateLimiter

ASSUME WriterAssumption == Writer!OutboundAssumption
ASSUME Limiter!LimiterAssumption

\* A server that mounts one registry twice, and one that mounts it beside one of the
\* consumer's.
MountsOf == [s \in Servers |-> IF s = "s1" THEN <<"r1", "r1">> ELSE <<"r1", "r2">>]
Fleet == INSTANCE Lifecycle
            WITH Mounts <- MountsOf, Limiters <- <<"l1", "l2">>, Audited <- Servers,
                 Swept <- Servers, Throwing <- Raising, listeners <- server_listeners,
                 closing <- server_closing
ASSUME FleetAssumption == Fleet!LifecycleAssumption

Reads == INSTANCE CellReads
ASSUME ReadsAssumption ==
    /\ {1, 2} \subseteq Children /\ Children \subseteq Nat \ {Reads!Parent}
    /\ MaxKey \in Nat /\ BundleLimit \in Nat /\ PageLimit \in Nat \ {0}
    /\ Walkers \subseteq Reads!Viewers

Options == INSTANCE Assembly WITH outcome <- server_outcome

writer_vars == <<can_terminate, state, waiting, outbound_bytes, outbound_frames, pump_pending,
                 poll_timer, stall_timer, close_timer, handed_since_stall_start, buffer,
                 socket, pushed, sent, covered, seen>>
limiter_vars == <<attempts, waiters, call>>
fleet_vars == <<hosted, database, assembly, releases, members, server_listeners, ticking,
                server_closing, live, pass, opened>>
reads_vars == <<relation, cell, grants, links, changes, walk, shown, steady, sighted>>
options_vars == <<options, asked, server_outcome, app, surface>>
fair_vars == <<part, all_vars, writer_vars, limiter_vars, fleet_vars, reads_vars, options_vars>>

\* Where the initial state is a choice, one of its values stands for the part at rest.
FairInit ==
    /\ part \in {"session", "writer", "limiter", "fleet", "reads", "options"}
    /\ SessionInit /\ Writer!OutboundInit /\ Limiter!Init
    /\ Fleet!LifecycleInit /\ Reads!ReadsInit /\ Options!AssemblyInit
    /\ part # "writer" => can_terminate
    /\ part # "fleet" => hosted
    /\ part # "reads" => /\ relation = "items" /\ cell[2] = Reads!Row("public", "approved")
                         /\ grants[2] = {} /\ links[1] = 1

FairNext ==
    \/ /\ part = "session" /\ SessionNext
       /\ UNCHANGED <<part, writer_vars, limiter_vars, fleet_vars, reads_vars, options_vars>>
    \/ /\ part = "writer" /\ Writer!OutboundNext
       /\ UNCHANGED <<part, all_vars, limiter_vars, fleet_vars, reads_vars, options_vars>>
    \/ /\ part = "limiter" /\ Limiter!Next
       /\ UNCHANGED <<part, all_vars, writer_vars, fleet_vars, reads_vars, options_vars>>
    \/ /\ part = "fleet" /\ Fleet!LifecycleNext
       /\ UNCHANGED <<part, all_vars, writer_vars, limiter_vars, reads_vars, options_vars>>
    \/ /\ part = "reads" /\ Reads!ReadsNext
       /\ UNCHANGED <<part, all_vars, writer_vars, limiter_vars, fleet_vars, options_vars>>
    \/ /\ part = "options" /\ Options!AssemblyNext
       /\ UNCHANGED <<part, all_vars, writer_vars, limiter_vars, fleet_vars, reads_vars>>

\* The fairness of SessionSpec, of OutboundSpec, of RateLimiter's FairSpec and of
\* LifecycleSpec, each for the behaviours of its part.
FairParts ==
    /\ FairInit /\ [][FairNext]_fair_vars
    /\ WF_all_vars(part = "session" /\ OpenerNext)
    /\ WF_all_vars(part = "session" /\ DrainNext)
    /\ \A id \in Ids : WF_all_vars(part = "session" /\ DeadlinePasses(id))
    /\ \A n \in 1..MaxFrames :
        /\ WF_all_vars(part = "session" /\ n \in Numbers /\ HandlerHears(n))
        /\ WF_all_vars(part = "session" /\ n \in Numbers
                                    /\ \E committed \in BOOLEAN : HandlerReturns(n, committed))
        /\ WF_all_vars(part = "session" /\ n \in Numbers /\ FlushDone(n))
    /\ WF_writer_vars(part = "writer" /\ Writer!Pump /\ UNCHANGED can_terminate)
    /\ WF_writer_vars(part = "writer" /\ Writer!PollFires /\ UNCHANGED can_terminate)
    /\ WF_writer_vars(part = "writer" /\ Writer!Stall /\ UNCHANGED can_terminate)
    /\ WF_writer_vars(part = "writer" /\ Writer!CloseDeadline /\ UNCHANGED can_terminate)
    /\ WF_limiter_vars(part = "limiter" /\ Limiter!Tick)
    /\ \A c \in Callers :
        /\ WF_limiter_vars(part = "limiter" /\ Limiter!Resume(c))
        /\ WF_limiter_vars(part = "limiter" /\ Limiter!WaitTimeout(c))
        /\ WF_limiter_vars(part = "limiter" /\ Limiter!GiveUp(c))
    /\ \A s \in Servers :
        /\ WF_fleet_vars(part = "fleet" /\ Fleet!PassEnds(s))
        /\ WF_fleet_vars(part = "fleet" /\ Fleet!ShutDown(s))
        /\ WF_fleet_vars(part = "fleet" /\ Fleet!CloseBackend(s))

\* The properties of the parts, under the names they have there.  OutboundWriter states
\* these three: the order and the bound of what waits, that a reader is not dropped, and
\* that no frame stays.
OrderedAndBounded == Writer!OrderedAndBounded
DroppedOnlyIfUnread == Writer!DroppedOnlyIfUnread
NoFrameIsHeldForever == Writer!NoFrameIsHeldForever

\* RateLimiter states that a call that waits for a slot ends.
EveryWaitEnds == Limiter!EveryWaitEnds

\* Lifecycle states that what a server acquired is there as long as it is up and gone with
\* it, and that a close ends.
AcquiredWhileUp == Fleet!AcquiredWhileUp

\* CellReads: the lists show what a get does, and a walk misses nothing that stayed.
ReadersSeeWhatTheyMay ==
    part = "reads" => Reads!ListsShowWhatGetShows /\ Reads!WalksShowWhatIsThere

\* Assembly: the surface is what is served, and what touches a credential has passed the
\* stack.
AssembledAsPublished ==
    part = "options" =>
        Options!SurfaceIsWhatIsServed /\ Options!CredentialsAreChecked /\ Options!SummaryIsTrue
=============================================================================
