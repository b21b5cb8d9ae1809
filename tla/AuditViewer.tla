----------------------------- MODULE AuditViewer ----------------------------
(***************************************************************************)
(* The browser's view of the audit log (audit_log_state.svelte.ts): a page *)
(* that is fetched, the events a stream pushes, and the gap fill that      *)
(* catches up with what was missed before each (re)opening of the stream.  *)
(*                                                                         *)
(* The server commits events, announces each to the open streams later,    *)
(* and answers a query from what is committed at one moment; the answer    *)
(* arrives at another.  An event's seq is taken before its commit, so that *)
(* commits need not come in the order of their seqs.                       *)
(***************************************************************************)
EXTENDS AsyncSlots, Sequences, FiniteSets, SequencesExt

CONSTANTS
    Kind,           \* the kind of each event, by seq: what a filter tells apart
    Filters,        \* "all" or a kind
    PageLimit,      \* rows of a page
    FillLimit,      \* AUDIT_LOG_LIST_LIMIT_MAX
    MaxCalls        \* bound: queries out at once

VARIABLES
    begun,          \* seqs taken
    visible,        \* events committed
    announced,      \* events announced
    admitted,       \* the server has a stream open
    wire,           \* what it sent and the browser has not handled
    calls,          \* the queries that are out, by id
    source,         \* the EventSource exists
    stream_status,
    events,         \* the list shown
    list,           \* the slots of the page
    gap_fill,       \* and of the catch-up
    gap_truncated,
    last_seq,       \* the highest seq the list covers, or Unknown
    fill_since,     \* what the next gap fill owes from, or Unknown
    fetching_newest,
    fill_deferred,
    list_filter,
    stream_filter,
    floor,          \* history: from where the newest page covers the log, or Unknown
    late,           \* history: events committed or announced after a higher seq
    dropped         \* history: events the stream brought while the list had another filter

server == <<begun, visible, announced, late, dropped>>
anchors == <<last_seq, fill_since, fetching_newest, fill_deferred>>
viewer_vars == <<server, admitted, wire, calls, source, stream_status, events, list,
                 gap_fill, gap_truncated, anchors, list_filter, stream_filter, floor>>

MaxEvents == Len(Kind)
Unknown == MaxEvents + 1
CallIds == 1 .. MaxCalls
Free == {id \in CallIds : calls[id].state = "free"}
NextId == CHOOSE id \in Free : \A j \in Free : id <= j
Opening == 0     \* on the wire: the stream's response has begun
NoQuery == [state |-> "free"]

Matches(e, filter) == filter = "all" \/ Kind[e] = filter
Higher(m, n) == IF m > n THEN m ELSE n
NewestFirst(s) == SetToSortSeq(s, >)
MaxSeq(s) == IF s = {} THEN 0 ELSE CHOOSE e \in s : \A d \in s : d <= e

ViewerInit ==
    /\ begun = 0 /\ visible = {} /\ announced = {} /\ late = {} /\ dropped = {}
    /\ admitted = FALSE /\ wire = <<>>
    /\ calls = [id \in CallIds |-> NoQuery]
    /\ source = FALSE /\ stream_status = "off"
    /\ events = <<>>
    /\ list = FreshSlot /\ gap_fill = FreshSlot /\ gap_truncated = FALSE
    /\ last_seq = Unknown /\ fill_since = Unknown
    /\ fetching_newest = FALSE /\ fill_deferred = FALSE
    /\ list_filter = "all" /\ stream_filter = "all"
    /\ floor = Unknown

------------------------------------------------------------------------------
(***************************************************************************)
(* The server.                                                             *)
(***************************************************************************)

browser == <<calls, source, stream_status, events, list, gap_fill, gap_truncated,
             anchors, list_filter, stream_filter, floor>>

Begin ==
    /\ begun < MaxEvents
    /\ begun' = begun + 1
    /\ UNCHANGED <<visible, announced, late, dropped, admitted, wire, browser>>

CommitEvent(e) ==
    /\ e \in (1 .. begun) \ visible
    /\ visible' = visible \cup {e}
    /\ late' = IF MaxSeq(visible) > e THEN late \cup {e} ELSE late
    /\ UNCHANGED <<begun, announced, dropped, admitted, wire, browser>>

\* broadcast sends every event to every stream: the filter is the browser's.
Announce(e) ==
    /\ e \in visible \ announced
    /\ announced' = announced \cup {e}
    /\ wire' = IF admitted THEN Append(wire, e) ELSE wire
    /\ late' = IF MaxSeq(announced) > e THEN late \cup {e} ELSE late
    /\ UNCHANGED <<begun, visible, dropped, admitted, browser>>

AdmitStream ==
    /\ source /\ stream_status = "connecting" /\ ~admitted
    /\ admitted' = TRUE
    /\ wire' = <<Opening>>
    /\ UNCHANGED <<server, browser>>

\* query_audit_log_list: the newest rows that match, after since_seq, from the offset.
Rows(call) ==
    LET matching == NewestFirst({e \in visible : Matches(e, call.filter) /\ e > call.since})
        upto == call.offset + call.limit
    IN  SubSeq(matching, call.offset + 1, IF upto > Len(matching) THEN Len(matching) ELSE upto)

Answer(id) ==
    /\ calls[id].state = "sent"
    /\ calls' = [calls EXCEPT ![id] = [state |-> "answered", what |-> @.what, filter |-> @.filter,
                                       since |-> @.since, offset |-> @.offset,
                                       limit |-> @.limit, rows |-> Rows(@)]]
    /\ UNCHANGED <<server, admitted, wire, source, stream_status, events, list, gap_fill,
                   gap_truncated, anchors, list_filter, stream_filter, floor>>

------------------------------------------------------------------------------
(***************************************************************************)
(* Fetching a page.                                                        *)
(***************************************************************************)

Query(what, filter, since, offset, limit) ==
    [state |-> "sent", what |-> what, filter |-> filter, since |-> since,
     offset |-> offset, limit |-> limit]

\* fetch: of the newest page it stops the gap fill, which its query covers.
Fetch(filter, newest) ==
    /\ Free # {}
    /\ calls' = [calls EXCEPT ![NextId] =
                    Query("page", filter, 0, IF newest THEN 0 ELSE PageLimit, PageLimit)]
    /\ gap_fill' = IF newest THEN Abort(gap_fill) ELSE gap_fill
    /\ fetching_newest' = newest
    /\ list' = Run(list, NextId)
    /\ UNCHANGED <<server, admitted, wire, source, stream_status, events, gap_truncated,
                   last_seq, fill_since, fill_deferred, list_filter, stream_filter, floor>>

\* Its answer replaces the list, but for newer rows that the stream brought; it runs
\* the gap fill of an opening that was left to it.
FetchCommits(id) ==
    LET call == calls[id]
        newest == call.offset = 0
        page == Range(call.rows)
        fetched == MaxSeq(page)
        live == IF newest /\ source
                THEN SelectSeq(events, LAMBDA e : e > fetched /\ Matches(e, call.filter))
                ELSE <<>>
        stream_matches == source /\ call.filter = stream_filter
        deferred == newest /\ stream_matches /\ fill_deferred
        fills == deferred /\ stream_status = "open"
    IN  /\ call.state = "answered" /\ call.what = "page" /\ ~Aborted(list, id)
        /\ events' = live \o call.rows
        /\ list' = Succeeded(list)
        /\ list_filter' = call.filter
        /\ gap_truncated' = FALSE
        /\ last_seq' = IF newest
                       THEN IF stream_matches /\ ~deferred
                            THEN Higher(fetched, MaxSeq(Range(live))) ELSE fetched
                       ELSE IF page = {} THEN Unknown ELSE fetched
        /\ fill_deferred' = (fill_deferred /\ ~deferred)
        /\ fill_since' = IF fills THEN fetched ELSE Unknown
        /\ gap_fill' = IF fills THEN Run(gap_fill, id)
                       ELSE IF gap_fill.status = "failure" THEN FreshSlot ELSE gap_fill
        /\ calls' = [calls EXCEPT ![id] =
                        IF fills THEN Query("gap", stream_filter, fetched, 0, FillLimit)
                        ELSE NoQuery]
        /\ floor' = IF ~newest THEN Unknown
                    ELSE IF Len(call.rows) = PageLimit THEN Last(call.rows) ELSE 0
        /\ UNCHANGED <<server, admitted, wire, source, stream_status, fetching_newest,
                       stream_filter>>

------------------------------------------------------------------------------
(***************************************************************************)
(* The stream.                                                             *)
(***************************************************************************)

\* subscribe, which disconnects first, and disconnect.
Subscribe(filter) ==
    /\ gap_fill' = Abort(gap_fill)
    /\ stream_filter' = filter
    /\ source' = TRUE
    /\ stream_status' = "connecting"
    /\ admitted' = FALSE /\ wire' = <<>>
    /\ UNCHANGED <<server, calls, events, list, gap_truncated, anchors, list_filter, floor>>

Disconnect ==
    /\ gap_fill' = Abort(gap_fill)
    /\ source' = FALSE
    /\ stream_status' = "off"
    /\ admitted' = FALSE /\ wire' = <<>>
    /\ UNCHANGED <<server, calls, events, list, gap_truncated, anchors, list_filter,
                   stream_filter, floor>>

\* The connection breaks, and the EventSource tries again; it gives up when it is
\* refused.
Break ==
    /\ source /\ admitted
    /\ admitted' = FALSE /\ wire' = <<>>
    /\ stream_status' = "connecting"
    /\ UNCHANGED <<server, calls, source, events, list, gap_fill, gap_truncated, anchors,
                   list_filter, stream_filter, floor>>

Refused ==
    /\ source /\ stream_status = "connecting" /\ ~admitted
    /\ source' = FALSE
    /\ stream_status' = "closed"
    /\ UNCHANGED <<server, admitted, wire, calls, events, list, gap_fill, gap_truncated,
                   anchors, list_filter, stream_filter, floor>>


\* onopen fills the gap from what the list covers, or from what an earlier fill still
\* owes; or it leaves that to a fetch, which may fail.
OnOpen ==
    LET anchored == last_seq # Unknown /\ list_filter = stream_filter
        fill == anchored /\ ~(fetching_newest /\ Loading(list))
        from == IF fill_since = Unknown THEN last_seq ELSE fill_since
    IN  /\ wire # <<>> /\ Head(wire) = Opening
        /\ fill => Free # {}
        /\ wire' = Tail(wire)
        /\ stream_status' = "open"
        /\ fill_deferred' = ~fill
        /\ fill_since' = IF anchored THEN from ELSE fill_since
        /\ gap_fill' = IF fill THEN Run(gap_fill, NextId) ELSE gap_fill
        /\ calls' = IF fill THEN [calls EXCEPT ![NextId] =
                                    Query("gap", stream_filter, from, 0, FillLimit)]
                    ELSE calls
        /\ UNCHANGED <<server, admitted, source, events, list, gap_truncated, last_seq,
                       fetching_newest, list_filter, stream_filter, floor>>

\* merge by seq, without duplicates; the events advance the anchor, or do not.
Merge(incoming, anchoring) ==
    /\ events' = IF Cardinality(incoming) = 1 /\ (events = <<>> \/ MaxSeq(incoming) > Head(events))
                 THEN <<MaxSeq(incoming)>> \o events
                 ELSE NewestFirst(Range(events) \cup incoming)
    /\ last_seq' = IF ~anchoring \/ incoming = {} THEN last_seq
                   ELSE Higher(IF last_seq = Unknown THEN 0 ELSE last_seq, MaxSeq(incoming))

OnMessage ==
    /\ wire # <<>> /\ Head(wire) # Opening
    /\ wire' = Tail(wire)
    /\ LET e == Head(wire)
       IN  IF Matches(e, stream_filter) /\ Matches(e, list_filter)
           THEN Merge({e}, list_filter = stream_filter) /\ UNCHANGED dropped
           ELSE /\ dropped' = IF Matches(e, stream_filter) THEN dropped \cup {e} ELSE dropped
                /\ UNCHANGED <<events, last_seq>>
    /\ UNCHANGED <<begun, visible, announced, late, admitted, calls, source, stream_status, list, gap_fill,
                   gap_truncated, fill_since, fetching_newest, fill_deferred, list_filter,
                   stream_filter, floor>>

\* The gap fill's answer, unless a page under another filter has replaced the list.
FillCommits(id) ==
    LET call == calls[id]
        merges == list_filter = call.filter
    IN  /\ call.state = "answered" /\ call.what = "gap" /\ ~Aborted(gap_fill, id)
        /\ gap_fill' = Succeeded(gap_fill)
        /\ calls' = [calls EXCEPT ![id] = NoQuery]
        /\ IF merges
           THEN /\ Merge(Range(call.rows), TRUE)
                /\ fill_since' = Unknown
                /\ gap_truncated' = (gap_truncated \/ Len(call.rows) >= FillLimit)
           ELSE UNCHANGED <<events, last_seq, fill_since, gap_truncated>>
        /\ UNCHANGED <<server, admitted, wire, source, stream_status, list, fetching_newest,
                       fill_deferred, list_filter, stream_filter, floor>>

\* A query fails, which is the slot's failure if it still waits for it.
QueryFails(id) ==
    LET call == calls[id]
        of(slot) == IF Aborted(slot, id) THEN slot ELSE Failed(slot)
    IN  /\ call # NoQuery
        /\ list' = IF call.what = "page" THEN of(list) ELSE list
        /\ gap_fill' = IF call.what = "gap" THEN of(gap_fill) ELSE gap_fill
        /\ calls' = [calls EXCEPT ![id] = NoQuery]
        /\ UNCHANGED <<server, admitted, wire, source, stream_status, events, gap_truncated,
                       anchors, list_filter, stream_filter, floor>>

\* The answer of a superseded query changes nothing.
AnswerIsStale(id) ==
    LET call == calls[id]
    IN  /\ call.state = "answered"
        /\ Aborted(IF call.what = "page" THEN list ELSE gap_fill, id)
        /\ calls' = [calls EXCEPT ![id] = NoQuery]
        /\ UNCHANGED <<server, admitted, wire, source, stream_status, events, list, gap_fill,
                       gap_truncated, anchors, list_filter, stream_filter, floor>>

ViewerNext ==
    \/ Begin \/ AdmitStream
    \/ \E e \in 1 .. begun : CommitEvent(e) \/ Announce(e)
    \/ \E filter \in Filters :
        Subscribe(filter) \/ \E newest \in BOOLEAN : Fetch(filter, newest)
    \/ Disconnect \/ Break \/ Refused \/ OnOpen \/ OnMessage
    \/ \E id \in CallIds :
        Answer(id) \/ FetchCommits(id) \/ FillCommits(id) \/ QueryFails(id) \/ AnswerIsStale(id)

ViewerSpec == ViewerInit /\ [][ViewerNext]_viewer_vars

------------------------------------------------------------------------------
(***************************************************************************)
(* Correctness.                                                            *)
(***************************************************************************)

\* What is shown while the stream is open and nothing is out, or reported as failed or
\* cut short: the page and everything after it.
AtRest ==
    /\ stream_status = "open" /\ wire = <<>>
    /\ list_filter = stream_filter
    /\ floor # Unknown
    /\ ~Loading(list) /\ (list.status = "failure" => ~fill_deferred /\ fill_since = Unknown)
    /\ gap_fill.status \notin {"pending", "failure"}
    /\ ~gap_truncated

InOrder ==
    /\ \A k \in 1 .. Len(events) - 1 : events[k] > events[k + 1]
    /\ \A e \in Range(events) : Matches(e, list_filter) /\ e \in visible

\* When the viewer is at rest, the list has all these events.
Has(owed) ==
    AtRest => \A e \in owed : Matches(e, list_filter) /\ e >= floor => e \in Range(events)


\* fetch's comment: "While the stream is live, events it delivered after the page's
\* newest one that match the fetch's filter are kept, so a fetch answering mid-stream
\* doesn't drop them."  An event that the list's filter of that moment excludes is
\* dropped when it comes, though the filter of the fetch that is out would keep it.
LiveRowsAreKept == Has(announced \ late)
=============================================================================
