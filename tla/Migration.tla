------------------------------ MODULE Migration ------------------------------
(***************************************************************************)
(* scripts/migrate_analytics.go: the rows of the old database are read all *)
(* at once and inserted one by one, each insert committed by itself.  The  *)
(* first error ends a run, a run may be killed, and the tool may be run    *)
(* again, while servers write to the same table.                           *)
(***************************************************************************)
EXTENDS Analytics

CONSTANTS OldRows,   \* what the old database may hold
          MaxRuns    \* bound: runs of the tool

\* rank is the place of a row in ORDER BY timestamp, readable whether one of
\* parseTimestamp's formats fits.
OldRow == [name : Names, rank : Nat, readable : BOOLEAN]

ASSUME MigrationAssumption ==
    /\ OldRows \subseteq SUBSET OldRow
    /\ MaxRuns \in Nat

VARIABLES old,       \* the rows of the old database
          phase,     \* where the tool is
          todo,      \* the records it has not inserted yet
          runs,      \* runs so far
          completed  \* history: a run has reported its completion

migration == <<old, phase, todo, runs, completed>>

MigrationInit ==
    /\ old \in OldRows
    /\ phase = "idle"
    /\ todo = {}
    /\ runs = 0
    /\ completed = FALSE

\* The end of a run, for whatever reason.
Quit == phase' = "idle" /\ todo' = {}

\* Schema and rows at once: nothing else writes the old database.  Without a row
\* there is nothing to do, and a dry run ends here.
Begin(dryRun) ==
    /\ phase = "idle" /\ runs < MaxRuns
    /\ IF old = {} \/ dryRun THEN Quit
                            ELSE phase' = "confirm" /\ todo' = old
    /\ runs' = runs + 1
    /\ UNCHANGED <<old, completed, table>>

Confirm ==
    /\ phase = "confirm"
    /\ \/ phase' = "copy" /\ UNCHANGED todo
       \/ Quit
    /\ UNCHANGED <<old, runs, completed, table>>

First(row) == row \in todo /\ \A other \in todo : row.rank <= other.rank
DateOf(row) == IF row.readable THEN "old" ELSE "guess"

\* Mutant: the row is dated anew whether or not it is there (DO UPDATE).
InsertMutant(row) == table' = [table EXCEPT ![row.name] = DateOf(row)]

Insert(row) == InsertNew(row.name, DateOf(row))

Copy(row) ==
    /\ phase = "copy" /\ First(row) /\ Accepts(row.name)
    /\ Insert(row)
    /\ todo' = todo \ {row}
    /\ UNCHANGED <<old, phase, runs, completed>>

\* Mutant: an error is logged, and the next record taken.
RefusedMutant(row) ==
    /\ phase = "copy" /\ First(row) /\ ~Accepts(row.name)
    /\ todo' = todo \ {row}
    /\ UNCHANGED <<old, phase, runs, completed, table>>

\* A name without a batch is an error, and no record behind it is reached, in
\* this run or in the next.
Refused(row) ==
    /\ phase = "copy" /\ First(row) /\ ~Accepts(row.name)
    /\ Quit
    /\ UNCHANGED <<old, runs, completed, table>>

\* The tool is killed, or a statement fails; the insert that was under way may
\* have been made all the same.
Stop ==
    /\ phase # "idle"
    /\ Quit
    /\ \/ UNCHANGED table
       \/ /\ phase = "copy"
          /\ \E row \in todo : First(row) /\ Accepts(row.name) /\ Insert(row)
    /\ UNCHANGED <<old, runs, completed>>

Finish ==
    /\ phase = "copy" /\ todo = {}
    /\ Quit
    /\ completed' = TRUE
    /\ UNCHANGED <<old, runs, table>>

MigrationNext ==
    \/ \E dryRun \in BOOLEAN : Begin(dryRun)
    \/ Confirm
    \/ \E row \in todo : Copy(row) \/ Refused(row)
    \/ Stop \/ Finish

\* The type invariant; what is still to be inserted are rows of the old database.
MigrationTypeOK ==
    /\ old \in OldRows
    /\ phase \in {"idle", "confirm", "copy"}
    /\ todo \subseteq old
    /\ runs \in 0..MaxRuns
    /\ completed \in BOOLEAN
    /\ phase = "idle" => todo = {}

\* What "Migration completed!" says, after crashes and re-runs and beside servers
\* that write: every row of the old database is in the table.
CompletedIsComplete == completed => \A row \in old : Present(row.name)
=============================================================================
