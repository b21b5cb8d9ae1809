--------------------------- MODULE AuditDelivery ----------------------------
(***************************************************************************)
(* A request, its effects and the audit rows it announces: perform_action  *)
(* and the route handler (perform_action.ts, route_spec.ts), the queues of *)
(* effects that outlive its handler (pending_effects.ts) and the emitter   *)
(* that writes rows and tells listeners of them (audit_emitter.ts).        *)
(*                                                                         *)
(* A success row emitted in a transaction is written in it.  Every other   *)
(* row is written through the pool while the handler goes on, and its      *)
(* write may fail, or land and be reported as failed.  The fan-out of a    *)
(* row, and the run through the queued effects, are synchronous: one step. *)
(***************************************************************************)
EXTENDS Naturals, Sequences, FiniteSets

CONSTANTS
    Requests,       \* each is used for one request
    Listeners,      \* registrations
    Throwing,       \* listeners that throw when they are called
    Leaving,        \* listeners that are removed, by themselves as they are called or
                    \* by another
    Late,           \* listeners that are registered while the server runs
    MaxRows         \* bound: rows emitted in all

VARIABLES
    req,
    rows,           \* every row emitted: by whom, how far its write is, and
                    \* to: history, who was registered
    listeners,      \* the registrations: a throw of one stops no other, so their order
                    \* tells nobody anything
    heard,          \* how often a listener was called with a row
    fresh           \* registrations yet to be made

audit_vars == <<req, rows, listeners, heard, fresh>>

\* An effect that is not the announcement of a row, and may throw as it runs.
ThrowingEffect == 0

Row == DOMAIN rows
RowsOf(r) == {i \in Row : rows[i].by = r}

AuditInit ==
    /\ req = [r \in Requests |->
                [pc |-> "received", tx |-> FALSE, queue |-> {}, awaiting |-> {},
                 failed |-> FALSE]]
    /\ rows = <<>>
    /\ listeners = Listeners \ Late
    /\ heard = <<>>
    /\ fresh = Late

------------------------------------------------------------------------------
(***************************************************************************)
(* The way to the handler, and the handler.                                *)
(***************************************************************************)

\* A request is refused before its handler by its content type, its parameters,
\* the authentication it lacks, the authorization phase, a role, scope or
\* credential type, a limiter or its body; it leaves nothing behind.
Refuse(r) ==
    /\ req[r].pc = "received"
    /\ req' = [req EXCEPT ![r].pc = "done"]
    /\ UNCHANGED <<rows, listeners, heard, fresh>>

\* An action with side effects, and a route other than a GET, runs in a transaction.
Enter(r, tx) ==
    /\ req[r].pc = "received"
    /\ req' = [req EXCEPT ![r].pc = "handler", ![r].tx = tx]
    /\ UNCHANGED <<rows, listeners, heard, fresh>>

Emitted(r, outcome, at) ==
    /\ rows' = Append(rows, [by |-> r, outcome |-> outcome, at |-> at,
                             to |-> listeners])
    /\ heard' = Append(heard, [l \in Listeners |-> 0])

\* base_emit of a failure: a pool write that no rollback reaches.
EmitFailure(r) ==
    /\ req[r].pc = "handler" /\ Len(rows) < MaxRows
    /\ Emitted(r, "failure", "writing")
    /\ UNCHANGED <<req, listeners, fresh>>

\* base_emit of a success: its announcement waits in the queue.
EmitSuccess(r) ==
    /\ req[r].pc = "handler" /\ Len(rows) < MaxRows
    /\ Emitted(r, "success", IF req[r].tx THEN "transaction" ELSE "writing")
    /\ req' = [req EXCEPT ![r].queue = @ \cup {Len(rows) + 1}]
    /\ UNCHANGED <<listeners, fresh>>

\* emit_after_commit, of a connection close that will fail.
QueueEffect(r) ==
    /\ req[r].pc = "handler" /\ ThrowingEffect \notin req[r].queue
    /\ req' = [req EXCEPT ![r].queue = @ \cup {ThrowingEffect}]
    /\ UNCHANGED <<rows, listeners, heard, fresh>>

\* What the transaction wrote comes to be, or never was.
Settle(r, at) ==
    rows' = [i \in Row |-> IF rows[i].by = r /\ rows[i].at = "transaction"
                           THEN [rows[i] EXCEPT !.at = at] ELSE rows[i]]

\* The handler's result is returned after the transaction committed.
Return(r) ==
    /\ req[r].pc = "handler"
    /\ Settle(r, "written")
    /\ req' = [req EXCEPT ![r].pc = "flush"]
    /\ UNCHANGED <<listeners, heard, fresh>>

\* The handler or the INSERT of a row throws, or the commit fails, or it is made
\* and reported as failed: dispatch_with_post_commit_rollback takes out of the
\* queue what the handler put there.
Throw(r) ==
    /\ req[r].pc = "handler"
    /\ \E at \in {"gone", "unheard"} : Settle(r, at)
    /\ req' = [req EXCEPT ![r].pc = "flush", ![r].queue = {}, ![r].failed = TRUE]
    /\ UNCHANGED <<listeners, heard, fresh>>

------------------------------------------------------------------------------
(***************************************************************************)
(* Announcing.                                                             *)
(***************************************************************************)

\* Who is called for a row, and who is left registered: every listener of the
\* moment, though one throws and another removes itself.
Called == listeners
Remaining == listeners \ Leaving

\* notify without a catch for each listener: nobody after one that throws is called.
AnnouncedUnguarded(announced) ==
    \E called \in SUBSET listeners :
        /\ Cardinality(called \cap Throwing) <= 1
        /\ called \cap Throwing = {} => called = listeners
        /\ heard' = [i \in Row |-> [l \in Listeners |->
                        IF i \in announced /\ l \in called
                        THEN heard[i][l] + 1 ELSE heard[i][l]]]
        /\ listeners' = IF announced = {} THEN listeners ELSE Remaining
        /\ UNCHANGED fresh

\* notify of some rows in a row: a listener that leaves hears only the first.
Announced(announced) ==
    LET first(i) == \A j \in announced : i <= j
    IN  /\ heard' = [i \in Row |-> [l \in Listeners |->
                        IF i \in announced /\ l \in Called /\ (first(i) \/ l \notin Leaving)
                        THEN heard[i][l] + 1 ELSE heard[i][l]]]
        /\ listeners' = IF announced = {} THEN listeners ELSE Remaining
        /\ UNCHANGED fresh

\* flush_post_commit_effects calls every queued effect, whichever throw: a row of
\* the transaction is announced, and one still being written is waited for.
Flush(r) ==
    LET queued == req[r].queue \ {ThrowingEffect}
    IN  /\ req[r].pc = "flush"
        /\ Announced({i \in queued : req[r].tx})
        /\ req' = [req EXCEPT ![r].pc = "flushing", ![r].queue = {},
                              ![r].awaiting = {i \in queued : ~req[r].tx}]
        /\ UNCHANGED rows

\* The pool write of a row lands, or fails; the emitter is told that it landed,
\* or that it did not.  It swallows the failure, which settles the effect.
WriteLands(i) ==
    /\ rows[i].at = "writing"
    /\ rows' = [rows EXCEPT ![i].at = "landed"]
    /\ UNCHANGED <<req, listeners, heard, fresh>>

WriteFails(i) ==
    /\ rows[i].at \in {"writing", "landed"}
    /\ rows' = [rows EXCEPT ![i].at = IF @ = "landed" THEN "unheard" ELSE "gone"]
    /\ UNCHANGED <<req, listeners, heard, fresh>>

\* A failure row is announced as soon as it is written; a success row by the queued
\* effect that waits for it.
WriteHeard(i) ==
    LET r == rows[i].by
        now == rows[i].outcome = "failure" \/ i \in req[r].awaiting
    IN  /\ rows[i].at = "landed"
        /\ rows' = [rows EXCEPT ![i].at = "written"]
        /\ Announced(IF now THEN {i} ELSE {})
        /\ req' = [req EXCEPT ![r].awaiting = @ \ {i}]

\* A success row that was written before the queue was run.
AnnounceAwaited(r) ==
    \E i \in req[r].awaiting :
        /\ rows[i].at \in {"written", "gone", "unheard"}
        /\ Announced(IF rows[i].at = "written" THEN {i} ELSE {})
        /\ req' = [req EXCEPT ![r].awaiting = @ \ {i}]
        /\ UNCHANGED rows

\* flush_request_effects ends when all of them have settled.
Flushed(r) ==
    /\ req[r].pc = "flushing"
    /\ req[r].awaiting = {}
    /\ \A i \in RowsOf(r) : rows[i].at \notin {"writing", "landed"}
    /\ req' = [req EXCEPT ![r].pc = "done"]
    /\ UNCHANGED <<rows, listeners, heard, fresh>>

\* A server's remover is called, or a listener is registered.
RemoveListener(l) ==
    /\ l \in listeners \cap Leaving
    /\ listeners' = listeners \ {l}
    /\ UNCHANGED <<req, rows, heard, fresh>>

AddListener(l) ==
    /\ l \in fresh
    /\ fresh' = fresh \ {l}
    /\ listeners' = listeners \cup {l}
    /\ UNCHANGED <<req, rows, heard>>

AuditNext ==
    \/ \E r \in Requests :
        \/ Refuse(r) \/ Enter(r, TRUE) \/ Enter(r, FALSE)
        \/ EmitFailure(r) \/ EmitSuccess(r) \/ QueueEffect(r)
        \/ Return(r) \/ Throw(r)
        \/ Flush(r) \/ AnnounceAwaited(r) \/ Flushed(r)
    \/ \E i \in Row : WriteLands(i) \/ WriteFails(i) \/ WriteHeard(i)
    \/ \E l \in Listeners : RemoveListener(l) \/ AddListener(l)

AuditSpec == AuditInit /\ [][AuditNext]_audit_vars

------------------------------------------------------------------------------
(***************************************************************************)
(* Correctness.                                                            *)
(***************************************************************************)

\* A row is announced to nobody who has heard it, and never when it was rolled
\* back.  Once the flush of its request is over, nothing is still being written,
\* and everybody registered since the row was emitted has heard it, whoever throws
\* or leaves meanwhile: a failure row when its write was seen to succeed, a success row when
\* its handler returned as well.
AnnouncedOnceIfCommitted ==
    \A i \in Row :
        LET of == req[rows[i].by] IN
        /\ \A l \in Listeners :
            heard[i][l] <= 1 /\ (heard[i][l] = 1 => rows[i].at = "written")
        /\ of.pc = "done" =>
            /\ rows[i].at \notin {"transaction", "writing", "landed"}
            /\ rows[i].at = "written" /\ (rows[i].outcome = "failure" \/ ~of.failed) =>
                \A l \in rows[i].to \cap listeners : heard[i][l] = 1
=============================================================================
