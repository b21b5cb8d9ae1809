------------------------------ MODULE TableView -----------------------------
(***************************************************************************)
(* The keeper's table browser: the browser's TableState                    *)
(* (table_state.svelte.ts) over the routes that list, page and delete rows *)
(* (db_routes.ts).  Rows of different tables may have the same key, and a  *)
(* row is written <<table, key>> so that a model can tell them apart where *)
(* the browser sees the key only.                                          *)
(***************************************************************************)
EXTENDS AsyncSlots, FiniteSets

CONSTANTS
    Tables, Keys,
    Browsable,      \* tables an operator opened, less NON_BROWSABLE_TABLES
    Keyed,          \* tables with a single-column primary key
    NonDeletable,   \* NON_DELETABLE_TABLES and the operator's
    Referenced,     \* rows a foreign key of another table points to
    PageSize,
    MaxCalls        \* bound: requests out at once

VARIABLES
    stored,         \* the database: the keys of each table
    audited,        \* deletions announced to the audit log
    calls,          \* requests of the browser, by id
    table_name, offset,     \* the page asked for last
    rows, total, primary_key, deletable,
    list,           \* its slot
    deleting,       \* the row whose deletion was asked for last
    delete_failed

shown == <<rows, total, primary_key, deletable>>
table_vars == <<stored, audited, calls, table_name, offset, shown, list, deleting,
                delete_failed>>

None == "none"
CallIds == 1 .. MaxCalls
Free == {id \in CallIds : calls[id].state = "free"}
NextId == CHOOSE id \in Free : \A j \in Free : id <= j
NoRequest == [state |-> "free"]
Missing == [ok |-> FALSE]

CanDelete == deletable /\ primary_key

TableInit ==
    /\ stored \in [Tables -> SUBSET Keys]
    /\ audited = {}
    /\ calls = [id \in CallIds |-> NoRequest]
    /\ table_name = None /\ offset = 0
    /\ rows = {} /\ total = 0 /\ primary_key = FALSE /\ deletable = FALSE
    /\ list = FreshSlot
    /\ deleting = None /\ delete_failed = FALSE

------------------------------------------------------------------------------
(***************************************************************************)
(* The routes.                                                             *)
(***************************************************************************)

\* A page: any rows of the table, as many as are left after the offset; the statement
\* has no order.
Pages(table, from) ==
    LET size == Cardinality(stored[table])
        left == IF size > from THEN size - from ELSE 0
        upto == IF left > PageSize THEN PageSize ELSE left
    IN  {[ok |-> TRUE, rows |-> {table} \X keys, total |-> size, primary_key |-> table \in Keyed,
          deletable |-> table \in Keyed \ NonDeletable] :
            keys \in {k \in SUBSET stored[table] : Cardinality(k) = upto}}

AnswerPage(id) ==
    LET call == calls[id]
    IN  /\ call.state = "sent" /\ call.what = "page"
        /\ \E answer \in IF call.table \in Browsable THEN Pages(call.table, call.from)
                         ELSE {Missing} :
            calls' = [calls EXCEPT ![id] = [state |-> "answered", what |-> "page",
                                            answer |-> answer]]
        /\ UNCHANGED <<stored, audited, table_name, offset, shown, list, deleting,
                       delete_failed>>

\* The row goes if the table may be browsed and its rows deleted by their key, and if
\* nothing refers to it; its deletion is announced once it is committed.
AnswerDelete(id) ==
    LET call == calls[id]
        row == <<call.table, call.key>>
        found == /\ call.table \in (Browsable \cap Keyed) \ NonDeletable
                 /\ call.key \in stored[call.table]
                 /\ row \notin Referenced
    IN  /\ call.state = "sent" /\ call.what = "delete"
        /\ stored' = IF found THEN [stored EXCEPT ![call.table] = @ \ {call.key}] ELSE stored
        /\ audited' = IF found THEN audited \cup {row} ELSE audited
        /\ calls' = [calls EXCEPT ![id] = [state |-> "answered", what |-> "delete",
                                           key |-> call.key, answer |-> [ok |-> found]]]
        /\ UNCHANGED <<table_name, offset, shown, list, deleting, delete_failed>>

------------------------------------------------------------------------------
(***************************************************************************)
(* The browser.                                                            *)
(***************************************************************************)

Fetch(table, from) ==
    /\ Free # {}
    /\ table_name' = table
    /\ offset' = from
    /\ list' = Run(list, NextId)
    /\ calls' = [calls EXCEPT ![NextId] = [state |-> "sent", what |-> "page",
                                           table |-> table, from |-> from]]
    /\ UNCHANGED <<stored, audited, shown, deleting, delete_failed>>

\* The callback writes the page whichever call it is of; only the slot looks at the
\* signal.
PageArrives(id) ==
    LET call == calls[id]
        answer == call.answer
    IN  /\ call.state = "answered" /\ call.what = "page"
        /\ IF answer.ok
           THEN /\ rows' = answer.rows
                /\ total' = answer.total
                /\ primary_key' = answer.primary_key
                /\ deletable' = answer.deletable
           ELSE UNCHANGED shown
        /\ list' = IF Aborted(list, id) THEN list
                   ELSE IF answer.ok THEN Succeeded(list) ELSE Failed(list)
        /\ calls' = [calls EXCEPT ![id] = NoRequest]
        /\ UNCHANGED <<stored, audited, table_name, offset, deleting, delete_failed>>

GoPrev ==
    /\ offset' = IF offset > PageSize THEN offset - PageSize ELSE 0
    /\ UNCHANGED <<stored, audited, calls, table_name, shown, list, deleting, delete_failed>>

GoNext ==
    /\ offset + PageSize < total        \* has_next, which enables the button
    /\ offset' = offset + PageSize
    /\ UNCHANGED <<stored, audited, calls, table_name, shown, list, deleting, delete_failed>>

\* The row is named by its key and the table asked for last.
DeleteRow(row) ==
    /\ Free # {} /\ CanDelete
    /\ row \in rows
    /\ deleting' = row[2]
    /\ delete_failed' = FALSE
    /\ calls' = [calls EXCEPT ![NextId] = [state |-> "sent", what |-> "delete",
                                           table |-> table_name, key |-> row[2]]]
    /\ UNCHANGED <<stored, audited, table_name, offset, shown, list>>

DeleteArrives(id) ==
    LET call == calls[id]
    IN  /\ call.state = "answered" /\ call.what = "delete"
        /\ deleting' = None
        /\ calls' = [calls EXCEPT ![id] = NoRequest]
        /\ IF call.answer.ok
           THEN /\ rows' = {row \in rows : row[2] # call.key}
                /\ total' = total - 1
                /\ UNCHANGED delete_failed
           ELSE /\ delete_failed' = TRUE
                /\ UNCHANGED <<rows, total>>
        /\ UNCHANGED <<stored, audited, table_name, offset, primary_key, deletable, list>>

\* A request is lost, or its answer.
RequestFails(id) ==
    LET call == calls[id]
    IN  /\ call # NoRequest
        /\ calls' = [calls EXCEPT ![id] = NoRequest]
        /\ IF call.what = "page"
           THEN /\ list' = IF Aborted(list, id) THEN list ELSE Failed(list)
                /\ UNCHANGED <<deleting, delete_failed>>
           ELSE deleting' = None /\ delete_failed' = TRUE /\ UNCHANGED list
        /\ UNCHANGED <<stored, audited, table_name, offset, shown>>

TableNext ==
    \/ \E table \in Tables : Fetch(table, offset) \/ Fetch(table, 0)
    \/ \E row \in rows : DeleteRow(row)
    \/ GoPrev \/ GoNext
    \/ \E id \in CallIds :
        AnswerPage(id) \/ AnswerDelete(id) \/ PageArrives(id) \/ DeleteArrives(id)
        \/ RequestFails(id)

TableSpec == TableInit /\ [][TableNext]_table_vars

------------------------------------------------------------------------------
(***************************************************************************)
(* Correctness.                                                            *)
(***************************************************************************)

\* AsyncSlot's comment: "superseded results are silently discarded without writing to
\* state. Removes the 'in-flight call resolves after the locator advanced' race".
\* Once the page asked for last has come, the rows shown are that table's.  TableState
\* writes them in the callback, which a superseded call still reaches.
RowsAreOfTheTableShown ==
    list.status = "success" => \A row \in rows : row[1] = table_name
=============================================================================
