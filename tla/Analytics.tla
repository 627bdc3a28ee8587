------------------------------ MODULE Analytics ------------------------------
(***************************************************************************)
(* The analytics table of PostgreSQL: one row per matric number, with two  *)
(* generated columns (batch, level) and the date a student was last seen.  *)
(* The server (Lifecycle) and the migration tool (Migration) both write    *)
(* it, each with a statement of its own for a row that is there already.   *)
(***************************************************************************)
EXTENDS Naturals, FiniteSets

CONSTANTS Students,  \* users whose name is a matric number
          Others,    \* users whose name is none: batch cannot be computed
          Year,      \* the year in a student's matric number
          Digits,    \* how many digits it has
          DbFaults   \* the database may fail a statement, or its answer be lost

ASSUME AnalyticsAssumption ==
    /\ Students \cap Others = {}
    /\ Year \in [Students -> Nat] /\ Digits \in [Students -> {6, 7}]
    /\ DbFaults \in BOOLEAN

\* A name as it is typed at the login: a student of two degrees has a "5"
\* before the matric number, and there may be blanks around it.
Names == [who : Students \cup Others, five : BOOLEAN, padded : BOOLEAN]

\* Mutant: the prefix is cut before the blanks are, and so not at all.
MatricMutant(n) == [n EXCEPT !.padded = FALSE, !.five = IF n.padded THEN @ ELSE FALSE]

\* TrimSpace, then CutPrefix.
Matric(n) == [n EXCEPT !.padded = FALSE, !.five = FALSE]

(***************************************************************************)
(* The table: no row, or the date it has.                                  *)
(***************************************************************************)
Dates == {"absent",
          "old",     \* the date in the database that was migrated
          "guess",   \* the time of the migration, for a date it could not read
          "seen"}    \* the time of a request

VARIABLE table

Present(n) == table[n] # "absent"

\* The generated columns of a row.  A row without a batch is refused.
Accepts(n) == n.who \in Students
Length(n) == Digits[n.who] + (IF n.five THEN 1 ELSE 0) + (IF n.padded THEN 1 ELSE 0)
Level(n) == CASE Length(n) = 7 -> "DEGREE"
              [] Length(n) = 6 -> "CFS"
              [] OTHER         -> "null"
Batch(n) == IF n.five \/ n.padded THEN 0 ELSE Year[n.who]

\* ON CONFLICT DO UPDATE SET timestamp, and ON CONFLICT DO NOTHING.
Upsert(n) == table' = [table EXCEPT ![n] = "seen"]
InsertNew(n, date) == table' = IF Present(n) THEN table ELSE [table EXCEPT ![n] = date]

\* The count the summary gives for a level and a batch.
Summary(level, batch) ==
    Cardinality({n \in Names : Present(n) /\ Level(n) = level /\ Batch(n) = batch})
=============================================================================
