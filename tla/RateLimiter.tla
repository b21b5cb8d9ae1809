----------------------------- MODULE RateLimiter -----------------------------
(***************************************************************************)
(* The sliding-window limiter of rate_limiter.ts: attempts recorded per    *)
(* key, attempts reserved and still in flight, and the callers of reserve  *)
(* that wait for one of those to settle.                                   *)
(*                                                                         *)
(* The limiter itself never awaits; its callers do, between a reservation  *)
(* and its settling, and inside reserve, parked until a waker, a timer or  *)
(* an abort resolves the promise.  What the promise resolves is acted on   *)
(* in a later step, when the key may have changed again.                   *)
(*                                                                         *)
(* Timestamps are kept as ages, so that time passes without a bound: a     *)
(* stamp as old as the window is outside it, however old it is.            *)
(***************************************************************************)
EXTENDS Naturals, Sequences, FiniteSets

CONSTANTS
  Callers,        \* requests, each at most once in the limiter at a time
  Keys,
  MaxAttempts,    \* max_attempts
  Window,         \* window_ms, in ticks
  MaxWait,        \* max_wait_ms, in ticks
  MaxKeys,        \* max_keys; Cardinality(Keys) stands for null, no eviction
  MaxStamps       \* bound: record is not called on a key with this many

LimiterAssumption ==
  /\ IsFiniteSet(Callers) /\ IsFiniteSet(Keys)
  /\ MaxAttempts \in Nat /\ Window \in Nat /\ MaxWait \in Nat /\ MaxStamps \in Nat
  /\ MaxKeys \in Nat \ {0}

VARIABLES
  attempts,    \* #attempts, an ordered map: entries, least recently used first
  waiters,     \* #waiters: the count kept for each key, 0 for no slot
  call         \* where each caller is

vars == <<attempts, waiters, call>>

(* Entries are objects, told apart by identity.                            *)
Ids == 1..(Cardinality(Callers) + Cardinality(Keys))

(* A stamp remembers, for the properties only, whether a reservation of    *)
(* its entry became it ("reserved") or record wrote it ("direct").         *)

Idle == [at |-> "idle"]

IsHolding(c) == call[c].at = "holding"
IsWaiting(c) == call[c].at \in {"parked", "woken", "giving_up"}
WaitingOn(k) == {c \in Callers : IsWaiting(c) /\ call[c].key = k}

Init ==
  /\ attempts = <<>>
  /\ waiters = [k \in Keys |-> 0]
  /\ call = [c \in Callers |-> Idle]

-----------------------------------------------------------------------------
(* The map of entries.                                                     *)

Has(s, k) == \E i \in 1..Len(s) : s[i].key = k
EntryOf(s, k) == s[CHOOSE i \in 1..Len(s) : s[i].key = k]

(* filter: what stands in these places, in its order.                      *)
Keeping(s, places) ==
  LET kept[n \in 0..Len(s)] ==
        IF n = 0 THEN <<>>
        ELSE IF n \in places THEN Append(kept[n - 1], s[n]) ELSE kept[n - 1]
  IN  kept[Len(s)]

Without(s, k) == Keeping(s, {i \in 1..Len(s) : s[i].key # k})

(* get and set of the LruMap move an entry to the recent end; one entry    *)
(* too many drops the other end.                                           *)
Put(s, e) ==
  LET t == Append(Without(s, e.key), e)
  IN  IF Len(t) > MaxKeys THEN Tail(t) ELSE t

Touch(s, k) == IF Has(s, k) THEN Put(s, EntryOf(s, k)) ELSE s

FreshId ==
  LET used == {attempts[i].id : i \in 1..Len(attempts)}
                \cup {call[c].id : c \in {d \in Callers : IsHolding(d)}}
  IN  CHOOSE i \in Ids : i \notin used /\ \A j \in Ids \ used : i <= j

Active(stamps) == Keeping(stamps, {i \in 1..Len(stamps) : stamps[i].age < Window})
Pruned(e) == [e EXCEPT !.stamps = Active(@)]
EntryIsIdle(e) == e.stamps = <<>> /\ e.in_flight = 0

Stamped(e, how) ==
  [Pruned(e) EXCEPT !.stamps = Append(@, [age |-> 0, how |-> how])]

(* What #load leaves in the map, and how it finds the key.                 *)
Loaded(k) ==
  IF MaxAttempts = 0 \/ ~Has(attempts, k) THEN attempts
  ELSE LET e == Pruned(EntryOf(attempts, k))
       IN  IF EntryIsIdle(e) THEN Without(attempts, k) ELSE Put(attempts, e)

LoadIgnoringInFlight(k) ==
  LET s == Loaded(k)
  IN  IF MaxAttempts = 0 THEN "recorded"
      ELSE IF ~Has(s, k) THEN "free"
      ELSE IF Len(EntryOf(s, k).stamps) >= MaxAttempts THEN "recorded"
      ELSE "free"

Load(k) ==
  LET s == Loaded(k)
  IN  IF MaxAttempts = 0 THEN "recorded"
      ELSE IF ~Has(s, k) THEN "free"
      ELSE IF Len(EntryOf(s, k).stamps) >= MaxAttempts THEN "recorded"
      ELSE IF Len(EntryOf(s, k).stamps) + EntryOf(s, k).in_flight < MaxAttempts
        THEN "free"
      ELSE "in_flight"

-----------------------------------------------------------------------------
(* Parts of the operations.                                                *)

(* #wake: every waker of the key runs.                                     *)
Woken(k) ==
  [c \in Callers |->
     IF call[c].at = "parked" /\ call[c].key = k THEN [call[c] EXCEPT !.at = "woken"]
     ELSE call[c]]

Wake(k) == call' = Woken(k)

(* #leave *)
Leave(c) == waiters' = [waiters EXCEPT ![call[c].key] = @ - 1]

(* #admit, on a key already found free.                                    *)
Admit(c, k) ==
  LET s == Loaded(k)
      e == IF Has(s, k) THEN EntryOf(s, k)
           ELSE [key |-> k, id |-> FreshId, stamps |-> <<>>, in_flight |-> 0]
  IN  /\ attempts' = Put(s, [e EXCEPT !.in_flight = @ + 1])
      /\ call' = [call EXCEPT ![c] = [at |-> "holding", key |-> k, id |-> e.id]]

Refused(c) == call' = [call EXCEPT ![c] = Idle]

Park(c, k, left, aborted) ==
  call' = [call EXCEPT ![c] =
    [at |-> "parked", key |-> k, left |-> left, aborted |-> aborted]]

-----------------------------------------------------------------------------
(* Operations.                                                             *)

Check(k) ==
  /\ attempts' = Loaded(k)
  /\ UNCHANGED <<waiters, call>>

(* try_reserve: refused at once when the key is not free.                  *)
TryReserve(c, k) ==
  /\ call[c] = Idle
  /\ Load(k) = "free"
  /\ Admit(c, k)
  /\ UNCHANGED waiters

(* The first turn of reserve.                                              *)
MayPark(k) == waiters[k] < MaxAttempts

Reserve(c, k) ==
  /\ call[c] = Idle
  /\ CASE Load(k) = "free" -> Admit(c, k) /\ UNCHANGED waiters
       [] Load(k) = "in_flight" /\ MayPark(k) /\ MaxWait > 0 ->
            /\ waiters' = [waiters EXCEPT ![k] = @ + 1]
            /\ Park(c, k, MaxWait, FALSE)
            /\ attempts' = Loaded(k)
       [] OTHER -> attempts' = Loaded(k) /\ UNCHANGED <<waiters, call>>

(* A woken caller decides again, on what the key holds by now.             *)
ResumeWithANewDeadline(c) ==
  /\ call[c].at = "woken"
  /\ LET k == call[c].key
     IN  CASE Load(k) = "free" -> Leave(c) /\ Admit(c, k)
           [] Load(k) = "in_flight" /\ ~call[c].aborted ->
                /\ Park(c, k, MaxWait, FALSE)
                /\ attempts' = Loaded(k)
                /\ UNCHANGED waiters
           [] OTHER -> Leave(c) /\ Refused(c) /\ attempts' = Loaded(k)

Resume(c) ==
  /\ call[c].at = "woken"
  /\ LET k == call[c].key
     IN  CASE Load(k) = "free" -> Leave(c) /\ Admit(c, k)
           [] Load(k) = "in_flight" /\ call[c].left > 0 /\ ~call[c].aborted ->
                /\ Park(c, k, call[c].left, FALSE)
                /\ attempts' = Loaded(k)
                /\ UNCHANGED waiters
           [] OTHER -> Leave(c) /\ Refused(c) /\ attempts' = Loaded(k)

(* The wait's timer fires, or its signal aborts; a promise that a waker    *)
(* has already resolved keeps its value.                                   *)
WaitTimeout(c) ==
  /\ call[c].at = "parked" /\ call[c].left = 0
  /\ call' = [call EXCEPT ![c].at = "giving_up"]
  /\ UNCHANGED <<attempts, waiters>>

Abort(c) ==
  /\ call[c].at \in {"parked", "woken"} /\ ~call[c].aborted
  /\ call' = [call EXCEPT ![c].aborted = TRUE,
                          ![c].at = IF @ = "parked" THEN "giving_up" ELSE @]
  /\ UNCHANGED <<attempts, waiters>>

GiveUp(c) ==
  /\ call[c].at = "giving_up"
  /\ Leave(c)
  /\ Refused(c)
  /\ UNCHANGED attempts

(* record: counts on whatever entry the key holds.                         *)
Recorded(k, how) ==
  IF Has(attempts, k) THEN Put(attempts, Stamped(EntryOf(attempts, k), how))
  ELSE Put(attempts, Stamped([key |-> k, id |-> FreshId, stamps |-> <<>>,
                              in_flight |-> 0], how))

Record(k) ==
  /\ Has(attempts, k) => Len(EntryOf(attempts, k).stamps) < MaxStamps
  /\ attempts' = Recorded(k, "direct")
  /\ Wake(k)
  /\ UNCHANGED waiters

(* #settle, of a reservation released or recorded.                         *)
Settled(c, k, keeps) ==
  LET e == EntryOf(attempts, k)
      given_back == [e EXCEPT !.in_flight = IF @ > 0 THEN @ - 1 ELSE 0]
  IN  IF keeps THEN Put(attempts, Stamped(given_back, "reserved"))
      ELSE IF EntryIsIdle(given_back) THEN Without(attempts, k)
      ELSE Put(attempts, given_back)

IsCurrentByKey(c) == Has(attempts, call[c].key)

IsCurrent(c) ==
  LET k == call[c].key
  IN  Has(attempts, k) /\ EntryOf(attempts, k).id = call[c].id

Settle(c, keeps) ==
  /\ IsHolding(c)
  /\ LET k == call[c].key
     IN  /\ attempts' =
              IF IsCurrent(c) THEN Settled(c, k, keeps)
              ELSE IF keeps THEN Recorded(k, "direct")
              ELSE Touch(attempts, k)
         /\ call' = [Woken(k) EXCEPT ![c] = Idle]
  /\ UNCHANGED waiters

(* reset: forgives what was recorded, not what is in flight.               *)
Forgiven(k) ==
  IF Has(attempts, k) /\ EntryOf(attempts, k).in_flight > 0
  THEN Put(attempts, [EntryOf(attempts, k) EXCEPT !.stamps = <<>>])
  ELSE Without(attempts, k)

ResetQuietly(k) ==
  /\ attempts' = Forgiven(k)
  /\ UNCHANGED <<waiters, call>>

Reset(k) ==
  /\ attempts' = Forgiven(k)
  /\ Wake(k)
  /\ UNCHANGED waiters

Cleanup ==
  /\ LET s == [i \in 1..Len(attempts) |-> Pruned(attempts[i])]
     IN  attempts' = Keeping(s, {i \in 1..Len(s) : ~EntryIsIdle(s[i])})
  /\ UNCHANGED <<waiters, call>>

(* Time passes: for the stamps and for the timers of the waits.            *)
Older(t) == IF t.age < Window THEN [t EXCEPT !.age = @ + 1] ELSE t
Aged(e) == [e EXCEPT !.stamps = [i \in 1..Len(@) |-> Older(@[i])]]

Tick ==
  /\ attempts' = [i \in 1..Len(attempts) |-> Aged(attempts[i])]
  /\ call' = [c \in Callers |->
                IF IsWaiting(c) /\ call[c].left > 0
                THEN [call[c] EXCEPT !.left = @ - 1] ELSE call[c]]
  /\ UNCHANGED waiters

Next ==
  \/ \E k \in Keys : Check(k) \/ Record(k) \/ Reset(k)
  \/ \E c \in Callers :
       \/ \E k \in Keys : TryReserve(c, k) \/ Reserve(c, k)
       \/ \E keeps \in BOOLEAN : Settle(c, keeps)
       \/ Resume(c) \/ WaitTimeout(c) \/ Abort(c) \/ GiveUp(c)
  \/ Cleanup
  \/ Tick

Spec == Init /\ [][Next]_vars

(* Time passes, a timer that is due fires, and a resolved promise is acted *)
(* on.  Nothing makes a caller settle its reservation.                     *)
FairSpec ==
  /\ Spec
  /\ WF_vars(Tick)
  /\ \A c \in Callers :
       WF_vars(Resume(c)) /\ WF_vars(WaitTimeout(c)) /\ WF_vars(GiveUp(c))

-----------------------------------------------------------------------------
(* Properties.                                                             *)

HoldersOf(e) == {c \in Callers : IsHolding(c) /\ call[c].id = e.id}

LiveReserved(e) ==
  {i \in 1..Len(e.stamps) : e.stamps[i].how = "reserved" /\ e.stamps[i].age < Window}

(* "No burst of concurrent requests gets more than max_attempts past the   *)
(* limiter between them": those in flight and those recorded within the    *)
(* window never exceed it together, whatever record adds to them.  The two *)
(* counters they rest on are exact.  An entry's count in flight is that of *)
(* its unsettled reservations: it does not drift up (a slot lost for the   *)
(* life of the process) or down (a slot too many), though its key was      *)
(* evicted and used anew in between.  A key's waiter count is that of the  *)
(* calls waiting on it, by whatever path others left.                      *)
AttemptsAreCapped ==
  /\ \A i \in 1..Len(attempts) :
       /\ Cardinality(LiveReserved(attempts[i])) + attempts[i].in_flight <= MaxAttempts
       /\ attempts[i].in_flight = Cardinality(HoldersOf(attempts[i]))
  /\ \A k \in Keys : waiters[k] = Cardinality(WaitingOn(k))

Evicts(k) ==
  /\ Has(attempts, k) /\ EntryOf(attempts, k).in_flight > 0
  /\ ~Has(attempts', k)

(* A slot that opens while callers are parked on the key wakes them, so    *)
(* that they do not sleep into their timeout beside it.  Only time and an  *)
(* eviction open a slot unannounced.                                       *)
FreedSlotWakes ==
  [][\A k \in Keys :
       Load(k) = "in_flight" /\ Load(k)' = "free" =>
         \/ Tick \/ Evicts(k)
         \/ \A c \in Callers : call'[c].at = "parked" => call'[c].key # k]_vars

(* A call that waits ends, admitted or refused, though it may lose the     *)
(* race for every slot that frees and nobody need settle.                  *)
EveryWaitEnds == \A c \in Callers : IsWaiting(c) ~> ~IsWaiting(c)

=============================================================================
