----------------------------- MODULE Migrations -----------------------------
(***************************************************************************)
(* The migrations of one namespace (db/migrate.ts), run by the processes   *)
(* of a deployment as they boot, old and new builds among them.            *)
(*                                                                         *)
(* The advisory lock is taken and released through a pool, and not at all  *)
(* where the database has none: it excludes nobody here.  What a boot read *)
(* is stale once it acts on it; what is left is the transaction around the *)
(* pending tail and the two keys of schema_version, a name and a place.    *)
(***************************************************************************)
EXTENDS Naturals, Sequences, FiniteSets, SequencesExt

CONSTANTS
    Processes,
    Code,        \* Code[p]: the migrations p's build knows, in order
    Baselines,   \* processes that only record, over a schema that is there
    MaxBoots     \* bound: boots of one process

VARIABLES
    tracker,     \* committed schema_version rows: [name, sequence]
    taken,       \* how often the committed schema took the body of each migration
    promoted,    \* history: migrations that were only recorded
    boot, boots

migration_vars == <<tracker, taken, promoted, boot, boots>>

MigrationNames == UNION {Range(Code[p]) : p \in Processes}
Down == [pc |-> "down", applied |-> <<>>, wrote |-> <<>>]

\* SELECT name ... ORDER BY sequence.
Applied ==
    LET Before(r) == {other \in tracker : other.sequence < r.sequence}
    IN [i \in 1 .. Cardinality(tracker) |->
          (CHOOSE r \in tracker : Cardinality(Before(r)) = i - 1).name]

MigrationsInit ==
    /\ tracker = {}
    /\ promoted = {}
    /\ taken = [n \in MigrationNames |-> 0]
    /\ boot = [p \in Processes |-> Down]
    /\ boots = [p \in Processes |-> 0]

Goes(p, pc) == boot' = [boot EXCEPT ![p].pc = pc]
Fails(p) == boot' = [boot EXCEPT ![p].pc = "failed", ![p].wrote = <<>>]

\* The names are not compared, but how many there are.
DriftedByCount(p) == Len(Applied) > Len(Code[p])

\* What was applied is not what the build begins with.
Drifted(p) == ~IsPrefix(Applied, Code[p])

\* run_migrations reads the tracker; a baseline is refused where it is not empty.
ReadTracker(p) ==
    /\ boot[p].pc \in {"down", "failed"} /\ boots[p] < MaxBoots
    /\ boots' = [boots EXCEPT ![p] = @ + 1]
    /\ LET known == Code[p]
           refused == IF p \in Baselines THEN tracker # {} ELSE Drifted(p)
           current == p \notin Baselines /\ Applied = known
       IN boot' = [boot EXCEPT ![p] =
            [pc |-> IF refused THEN "failed" ELSE IF current THEN "ready" ELSE "migrating",
             applied |-> Applied, wrote |-> <<>>]]
    /\ UNCHANGED <<tracker, taken, promoted>>

Pending(p) == Len(boot[p].applied) + Len(boot[p].wrote) + 1
NextRow(p) == [name |-> Code[p][Pending(p)], sequence |-> Pending(p)]

\* The two keys: a name and a place.
Clashes(one, other) == one.name = other.name \/ one.sequence = other.sequence

\* An insert waits for another transaction that has inserted a row it would clash with.
Blocked(p) ==
    \E q \in Processes \ {p} :
        /\ boot[q].pc = "migrating"
        /\ \E row \in Range(boot[q].wrote) : Clashes(NextRow(p), row)

\* One migration: its body, unless it only records, and its row.  The insert fails on a
\* row that has been committed meanwhile, or is of this transaction.
Apply(p) ==
    /\ boot[p].pc = "migrating" /\ Pending(p) <= Len(Code[p]) /\ ~Blocked(p)
    /\ IF \E other \in tracker \cup Range(boot[p].wrote) : Clashes(NextRow(p), other)
       THEN Fails(p)
       ELSE boot' = [boot EXCEPT ![p].wrote = Append(@, NextRow(p))]
    /\ UNCHANGED <<tracker, taken, promoted, boots>>

\* A body may fail for reasons of its own: the whole tail is rolled back.
FailMigration(p) ==
    /\ boot[p].pc = "migrating" /\ Pending(p) <= Len(Code[p])
    /\ Fails(p)
    /\ UNCHANGED <<tracker, taken, promoted, boots>>

Commits(p) ==
    /\ boot[p].pc = "migrating" /\ Pending(p) > Len(Code[p])
    /\ tracker' = tracker \cup Range(boot[p].wrote)
    /\ LET wrote == {row.name : row \in Range(boot[p].wrote)}
       IN IF p \in Baselines
          THEN promoted' = promoted \cup wrote /\ UNCHANGED taken
          ELSE /\ taken' = [n \in MigrationNames |->
                            IF n \in wrote THEN taken[n] + 1 ELSE taken[n]]
               /\ UNCHANGED promoted
    /\ UNCHANGED boots

Commit(p) ==
    /\ Commits(p)
    /\ boot' = [boot EXCEPT ![p].pc = IF p \in Baselines THEN "down" ELSE "ready",
                            ![p].wrote = <<>>]

\* The answer to the commit is lost: the boot fails over a schema that has moved.
CommitUnheard(p) == Commits(p) /\ Fails(p)

Crash(p) ==
    /\ boot[p].pc \in {"migrating", "ready"}
    /\ boot' = [boot EXCEPT ![p] = Down]
    /\ UNCHANGED <<tracker, taken, promoted, boots>>

MigrationsNext ==
    \E p \in Processes :
        \/ ReadTracker(p) \/ Apply(p) \/ FailMigration(p)
        \/ Commit(p) \/ CommitUnheard(p) \/ Crash(p)

------------------------------------------------------------------------------
(***************************************************************************)
(* A process that serves runs over its own migrations, all of them, in     *)
(* their order and before any other; and the schema took the body of a     *)
(* migration exactly once if a build recorded it, and never if it was only *)
(* recorded or not at all, however many boots raced, failed, crashed or    *)
(* were not heard.                                                         *)
(***************************************************************************)
SchemaIsWhatWasRecorded ==
    /\ \A p \in Processes : boot[p].pc = "ready" => IsPrefix(Code[p], Applied)
    /\ \A n \in MigrationNames :
        taken[n] = Cardinality({row \in tracker : row.name = n /\ n \notin promoted})
=============================================================================
