------------------------------ MODULE Deployment ------------------------------
(***************************************************************************)
(* A server and the migration tool at work on one analytics table.         *)
(***************************************************************************)
EXTENDS Lifecycle, Migration

vars == <<table, lifecycle, migration>>

Init == /\ table = [n \in Names |-> "absent"]
        /\ LifecycleInit
        /\ MigrationInit

Next == \/ LifecycleNext /\ UNCHANGED migration
        \/ MigrationNext /\ UNCHANGED lifecycle

Spec == Init /\ [][Next]_vars

\* The goroutine of the shutdown and the end of main are scheduled, the timer
\* of the deadline fires, and the database answers a goroutine that counts.
\* Requests may take for ever, and nothing is assumed of the tool.
Fairness ==
    /\ WF_vars((Drained \/ Deadline) /\ UNCHANGED migration)
    /\ WF_vars(Exit /\ UNCHANGED migration)
    /\ \A r \in Requests : WF_vars(UpdateAnalytics(r) /\ UNCHANGED migration)
FairSpec == Spec /\ Fairness

-----------------------------------------------------------------------------

TypeOK == /\ table \in [Names -> Dates]
          /\ LifecycleTypeOK
          /\ MigrationTypeOK

\* No row is lost, and no row dated by a request is dated back, whatever the
\* order of the server's upserts and the tool's inserts, in however many runs.
LedgerOf == INSTANCE Ledger WITH Keys <- Names
KeepsTheLedger == LedgerOf!Spec

Plain(s) == [who |-> s, five |-> FALSE, padded |-> FALSE]

\* The summary counts heads: under each level and batch as many as there are
\* students of that level and year in the table, under whatever name they came.
\* (The old database holds matric numbers; the tool copies what it finds.)
SummaryCountsHeads ==
    (\A row \in old : row.name = Matric(row.name)) =>
    \A level \in {"DEGREE", "CFS"}, batch \in Nat \cap ({Year[s] : s \in Students} \cup {0}) :
        Summary(level, batch) =
            Cardinality({s \in Students : /\ Level(Plain(s)) = level
                                          /\ Batch(Plain(s)) = batch
                                          /\ \E n \in Names : n.who = s /\ Present(n)})

\* A shutdown comes to its end, even if a request never does.
ShutdownEnds == server = "draining" ~> server = "down"

\* A request is cut off by an orderly exit only if the deadline had passed: the
\* others have had the time to finish.
CutOnlyWhenLate ==
    [][\A r \in Requests : stage'[r] = "cut" /\ stage[r] # "cut" => forced]_vars

Counted(r) == name[r] # None /\ table[Matric(name[r])] = "seen"

\* A student whose request was authenticated is counted, though the request does
\* not wait for it: unless the database fails, or the process ends before.
CountedUnlessEnded ==
    \A r \in Requests :
        update[r] = "spawned" /\ db = "open" /\ Accepts(name[r]) ~>
            \/ Counted(r)
            \/ update[r] \in {"lost", "orphan"}
            \/ DbFaults /\ update[r] = "failed"
=============================================================================
