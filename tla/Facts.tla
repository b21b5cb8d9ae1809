------------------------------- MODULE Facts --------------------------------
(***************************************************************************)
(* One content-addressed fact: its row and its file, the actors who hold   *)
(* it, and the cells that name it.  A put (db/fact_store.ts) writes a      *)
(* temporary file, renames it into place, and inserts the row and the      *)
(* holder in one transaction (db/fact_disk_storage.ts).  The sweep removes *)
(* temporary files that a crash left behind.                               *)
(*                                                                         *)
(* Who deletes orphans is not in this code: the caller that the queries    *)
(* are made for selects what no cell names and nobody put within the grace *)
(* window, deletes the rows, and then unlinks the files.                   *)
(*                                                                         *)
(* Time only ages: a row or a holding is recent until the grace window has *)
(* passed, a temporary file until nothing was written to it for an hour.   *)
(***************************************************************************)
EXTENDS Naturals, FiniteSets

CONSTANTS
    Actors,     \* each puts the fact, and names it in one cell of its own
    MaxPuts     \* bound: puts of one actor

VARIABLES
    row,        \* the fact row: where the bytes are, or "none"
    row_recent,
    file,       \* the file is in its place
    temp,       \* the temporary file of an actor's put
    holder,     \* fact_holder rows: "none", "recent" or "old"
    named,      \* actors whose cell names the fact
    put, puts,
    naming,     \* actors whose cell write has found the holder
    spills,     \* the server stores bytes of this size on disk
    reaper,
    read,       \* a request for the bytes
    kept,       \* history: actors who put it, or named it, within the grace window
    raced       \* history: actors whose put meets a selection made without it

fact_vars == <<row, row_recent, file, temp, holder, named, put, puts, naming, spills,
               reaper, read, kept, raced>>
database == <<row, row_recent, holder, named>>
history == <<kept, raced>>

FactsInit ==
    /\ row \in {"none", "disk", "embedded"} /\ row_recent = FALSE
    /\ file = (row = "disk")
    /\ temp = [a \in Actors |-> "none"]
    /\ holder = [a \in Actors |-> "none"]
    /\ named = {} /\ naming = {}
    /\ put = [a \in Actors |-> "idle"] /\ puts = [a \in Actors |-> 0]
    /\ spills \in BOOLEAN
    /\ reaper = "idle"
    /\ read = [pc |-> "idle", steady |-> FALSE]
    /\ kept = {} /\ raced = {}

\* The unlink that follows is of a fact that was selected: a put that lands in
\* between cannot be seen by that selection.
Reaping == reaper # "idle"

Unputting == {a \in Actors : put[a] \in {"idle", "failed"}}

\* A reader's bytes were kept for as long as it has read.
Steadily(still_kept) == read' = [read EXCEPT !.steady = @ /\ still_kept # {}]

------------------------------------------------------------------------------
(***************************************************************************)
(* put and put_stream.                                                     *)
(***************************************************************************)

\* Bytes the process embeds go straight to the transaction.
StartPut(a) ==
    /\ a \in Unputting /\ puts[a] < MaxPuts
    /\ puts' = [puts EXCEPT ![a] = @ + 1]
    /\ put' = [put EXCEPT ![a] = IF spills THEN "writing" ELSE "inserting"]
    /\ temp' = IF spills THEN [temp EXCEPT ![a] = "young"] ELSE temp
    /\ raced' = IF Reaping THEN raced \cup {a} ELSE raced \ {a}
    /\ UNCHANGED <<database, file, naming, spills, reaper, read, kept>>

\* Another chunk is written: the file is young again, unless it was removed.
WriteChunk(a) ==
    /\ put[a] = "writing" /\ temp[a] = "old"
    /\ temp' = [temp EXCEPT ![a] = "young"]
    /\ UNCHANGED <<database, file, put, puts, naming, spills, reaper, read, history>>

\* A write or a sync that fails, too large a body and a full disk remove the file.
FailWrite(a) ==
    /\ put[a] = "writing"
    /\ put' = [put EXCEPT ![a] = "failed"]
    /\ temp' = [temp EXCEPT ![a] = "none"]
    /\ UNCHANGED <<database, file, puts, naming, spills, reaper, read, history>>

\* The written file is synced and renamed over whatever is in its place; one that the
\* sweep removed cannot be.
CommitTemp(a) ==
    /\ put[a] = "writing" /\ temp[a] # "none"
    /\ temp' = [temp EXCEPT ![a] = "none"]
    /\ file' = TRUE
    /\ put' = [put EXCEPT ![a] = "placed"]
    /\ UNCHANGED <<database, puts, naming, spills, reaper, read, history>>

\* The transaction: the row unless there is one, and the holder, refreshed.
InsertRow(a) ==
    /\ put[a] \in {"inserting", "placed"}
    /\ row' = IF row # "none" THEN row
              ELSE IF put[a] = "placed" THEN "disk" ELSE "embedded"
    /\ row_recent' = (row_recent \/ row = "none")
    /\ holder' = [holder EXCEPT ![a] = "recent"]
    /\ put' = [put EXCEPT ![a] = "idle"]
    /\ kept' = IF a \in raced THEN kept ELSE kept \cup {a}
    /\ Steadily(kept')
    /\ UNCHANGED <<file, temp, named, puts, naming, spills, reaper, raced>>

\* The transaction may fail: the file stays, with or without a row.
FailInsert(a) ==
    /\ put[a] \in {"inserting", "placed"}
    /\ put' = [put EXCEPT ![a] = "failed"]
    /\ UNCHANGED <<database, file, temp, puts, naming, spills, reaper, read, history>>

\* Every put dies with its process.
Crash ==
    /\ Unputting # Actors
    /\ put' = [a \in Actors |-> IF a \in Unputting THEN put[a] ELSE "failed"]
    /\ naming' = {}
    /\ read' = [read EXCEPT !.pc = "idle"]
    /\ UNCHANGED <<database, file, temp, puts, spills, reaper, history>>

TempAges(a) ==
    /\ temp[a] = "young"
    /\ temp' = [temp EXCEPT ![a] = "old"]
    /\ UNCHANGED <<database, file, put, puts, naming, spills, reaper, read, history>>

\* A file that is old is removed, though its put may still be writing it.
SweepOrphanTemp(a) ==
    /\ temp[a] = "old"
    /\ temp' = [temp EXCEPT ![a] = "none"]
    /\ UNCHANGED <<database, file, put, puts, naming, spills, reaper, read, history>>

------------------------------------------------------------------------------
(***************************************************************************)
(* Cells that name the fact, and the grace window.                         *)
(***************************************************************************)

\* A cell write finds that its actor holds the fact, and then writes the cell.
FindHolder(a) ==
    /\ a \notin named \cup naming /\ holder[a] # "none"
    /\ naming' = naming \cup {a}
    /\ UNCHANGED <<database, file, temp, put, puts, spills, reaper, read, history>>

NameInCell(a) ==
    /\ a \in naming
    /\ naming' = naming \ {a}
    /\ named' = named \cup {a}
    /\ UNCHANGED <<row, row_recent, holder, file, temp, put, puts, spills, reaper, read,
                   history>>

DeleteCell(a) ==
    /\ a \in named
    /\ named' = named \ {a}
    /\ kept' = IF holder[a] = "recent" THEN kept ELSE kept \ {a}
    /\ Steadily(kept')
    /\ UNCHANGED <<row, row_recent, holder, file, temp, put, puts, naming, spills, reaper,
                   raced>>

\* A cell that names it by now keeps it for good.
HoldingAges(a) ==
    /\ holder[a] = "recent"
    /\ holder' = [holder EXCEPT ![a] = "old"]
    /\ kept' = IF a \in named THEN kept ELSE kept \ {a}
    /\ Steadily(kept')
    /\ UNCHANGED <<row, row_recent, named, file, temp, put, puts, naming, spills, reaper,
                   raced>>

RowAges ==
    /\ row_recent /\ row_recent' = FALSE
    /\ UNCHANGED <<row, holder, named, file, temp, put, puts, naming, spills, reaper, read,
                   history>>

------------------------------------------------------------------------------
(***************************************************************************)
(* Orphans.  What is put once the selection is made is not in it.          *)
(***************************************************************************)

\* NOT_RECENTLY_HELD that lets the age of the row decide alone.
HeldByNobodyCounts == TRUE

NotRecentlyHeld == \A a \in Actors : holder[a] # "recent"

SelectForDelete ==
    /\ reaper = "idle" /\ row # "none"
    /\ named = {} /\ ~row_recent /\ NotRecentlyHeld
    /\ reaper' = "selected"
    /\ raced' = raced \cup (Actors \ Unputting)
    /\ UNCHANGED <<database, file, temp, put, puts, naming, spills, read, kept>>

\* The row goes whatever has become of it, and the holdings with it.
DeleteFact ==
    /\ reaper = "selected"
    /\ row' = "none" /\ row_recent' = FALSE
    /\ holder' = [a \in Actors |-> "none"]
    /\ reaper' = IF row = "disk" THEN "unlinking" ELSE "idle"
    /\ UNCHANGED <<named, file, temp, put, puts, naming, spills, read, history>>

Unlink ==
    /\ reaper = "unlinking"
    /\ file' = FALSE /\ reaper' = "idle"
    /\ UNCHANGED <<database, temp, put, puts, naming, spills, read, history>>

------------------------------------------------------------------------------
(***************************************************************************)
(* A read: the row's metadata, and then its bytes or its file.             *)
(***************************************************************************)

ReadMeta ==
    /\ read.pc = "idle"
    /\ read' = [pc |-> IF row = "none" THEN "missing" ELSE row, steady |-> kept # {}]
    /\ UNCHANGED <<database, file, temp, put, puts, naming, spills, reaper, history>>

ReadBytes ==
    /\ read.pc \in {"embedded", "disk"}
    /\ LET found == IF read.pc = "disk" THEN file ELSE row = "embedded"
       IN read' = [read EXCEPT !.pc = IF found THEN "served" ELSE "missing"]
    /\ UNCHANGED <<database, file, temp, put, puts, naming, spills, reaper, history>>

ReadEnds ==
    /\ read.pc \in {"served", "missing"}
    /\ read' = [pc |-> "idle", steady |-> FALSE]
    /\ UNCHANGED <<database, file, temp, put, puts, naming, spills, reaper, history>>

FactsNext ==
    \/ \E a \in Actors :
        \/ StartPut(a) \/ WriteChunk(a) \/ FailWrite(a) \/ CommitTemp(a)
        \/ InsertRow(a) \/ FailInsert(a) \/ TempAges(a) \/ SweepOrphanTemp(a)
        \/ FindHolder(a) \/ NameInCell(a) \/ DeleteCell(a) \/ HoldingAges(a)
    \/ Crash \/ RowAges
    \/ SelectForDelete \/ DeleteFact \/ Unlink
    \/ ReadMeta \/ ReadBytes \/ ReadEnds

------------------------------------------------------------------------------
(***************************************************************************)
(* A fact that an actor put, or put again, within the grace window, or     *)
(* named in a cell within it, is there with its bytes, and so is that      *)
(* actor's holding until the window has passed; whoever reads it           *)
(* meanwhile is served.  A put that overlaps a deletion already selected   *)
(* is not promised that.                                                   *)
(***************************************************************************)
RecentFactsAreKept ==
    /\ kept # {} => row # "none" /\ (row = "disk" => file)
    /\ \A a \in kept : holder[a] # "none"
    /\ read.pc = "missing" => ~read.steady
=============================================================================
