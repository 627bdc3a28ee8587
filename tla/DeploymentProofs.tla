--------------------------- MODULE DeploymentProofs ---------------------------
(***************************************************************************)
(* The server and the migration tool keep the analytics table's ledger,    *)
(* and a migration that is reported complete is complete: for any users,   *)
(* requests, old databases and numbers of runs, and under every fault the  *)
(* modules have.                                                           *)
(***************************************************************************)
EXTENDS Deployment, FiniteSetTheorems, TLAPS

LEMMA MatricIsAName == \A n \in Names : Matric(n) \in Names
  BY DEF Matric, Names

LEMMA OldRowsAreNamed == \A rows \in OldRows : \A row \in rows : row.name \in Names
  BY MigrationAssumption DEF OldRow

(***************************************************************************)
(* Type correctness.                                                       *)
(***************************************************************************)
LEMMA InitTypeOK == Init => TypeOK
<1> SUFFICES ASSUME Init PROVE TypeOK
  OBVIOUS
<1>1. table \in [Names -> Dates]
  BY DEF Init, Dates
<1>2. LifecycleTypeOK
  <2>1. forced \in BOOLEAN
    BY Zenon DEF Init, LifecycleInit
  <2>2. /\ server = "down" /\ db = "nil" /\ starts = 0
        /\ stage = [r \in Requests |-> "new"]
        /\ name = [r \in Requests |-> None]
        /\ update = [r \in Requests |-> "none"]
    BY Zenon DEF Init, LifecycleInit
  <2> QED  BY <2>1, <2>2, LifecycleAssumption DEF LifecycleTypeOK, Active
<1>3. MigrationTypeOK
  <2>1. completed \in BOOLEAN
    BY Zenon DEF Init, MigrationInit
  <2>2. old \in OldRows /\ phase = "idle" /\ todo = {} /\ runs = 0
    BY Zenon DEF Init, MigrationInit
  <2> QED  BY <2>1, <2>2, MigrationAssumption DEF MigrationTypeOK
<1> QED
  BY <1>1, <1>2, <1>3 DEF TypeOK

LEMMA LifecycleTypes ==
    LifecycleTypeOK /\ LifecycleNext => LifecycleTypeOK'
<1> SUFFICES ASSUME LifecycleTypeOK, LifecycleNext PROVE LifecycleTypeOK'
  OBVIOUS
<1> USE LifecycleAssumption
<1> USE DEF LifecycleTypeOK, Active, process, request
<1>1. ASSUME NEW connected \in BOOLEAN, Start(connected) PROVE LifecycleTypeOK'
  <2>1. forced' \in BOOLEAN
    BY <1>1, Zenon DEF Start
  <2>2. /\ server = "down" /\ server' = "up"
        /\ db' \in {"nil", "open"}
        /\ starts < MaxStarts /\ starts' = starts + 1
        /\ UNCHANGED <<stage, name, update>>
    BY <1>1, Zenon DEF Start
  <2> QED  BY <2>1, <2>2
<1>2. CASE Signal
  BY <1>2 DEF Signal
<1>3. CASE Drained
  BY <1>3 DEF Drained
<1>4. CASE Deadline
  BY <1>4 DEF Deadline
<1>5. CASE Exit \/ Crash
  BY <1>5 DEF Exit, Crash, Gone
<1>6. ASSUME NEW r \in Requests, NEW n \in UserNames, Arrive(r, n)
      PROVE  LifecycleTypeOK'
  BY <1>6 DEF Arrive
<1>7. ASSUME NEW r \in Requests, Authenticated(r) PROVE LifecycleTypeOK'
  BY <1>7 DEF Authenticated
<1>8. ASSUME NEW r \in Requests, Answer(r) PROVE LifecycleTypeOK'
  BY <1>8 DEF Answer
<1>9. ASSUME NEW r \in Requests, UpdateAnalytics(r) PROVE LifecycleTypeOK'
  BY <1>9 DEF UpdateAnalytics, Send, Apply, Refuse, Becomes
<1> QED
  BY <1>1, <1>2, <1>3, <1>4, <1>5, <1>6, <1>7, <1>8, <1>9 DEF LifecycleNext

LEMMA MigrationTypes ==
    MigrationTypeOK /\ MigrationNext => MigrationTypeOK'
<1> SUFFICES ASSUME MigrationTypeOK, MigrationNext PROVE MigrationTypeOK'
  OBVIOUS
<1> USE MigrationAssumption DEF MigrationTypeOK, Quit
<1>1. ASSUME NEW dryRun \in BOOLEAN, Begin(dryRun) PROVE MigrationTypeOK'
  BY <1>1 DEF Begin
<1>2. CASE Confirm
  BY <1>2 DEF Confirm
<1>3. ASSUME NEW row \in todo, Copy(row) PROVE MigrationTypeOK'
  BY <1>3 DEF Copy
<1>4. ASSUME NEW row \in todo, Refused(row) PROVE MigrationTypeOK'
  BY <1>4 DEF Refused
<1>5. CASE Stop
  BY <1>5 DEF Stop
<1>6. CASE Finish
  <2>1. completed' \in BOOLEAN
    BY <1>6, Zenon DEF Finish
  <2>2. phase' = "idle" /\ todo' = {} /\ UNCHANGED <<old, runs>>
    BY <1>6, Zenon DEF Finish
  <2> QED  BY <2>1, <2>2
<1> QED
  BY <1>1, <1>2, <1>3, <1>4, <1>5, <1>6 DEF MigrationNext

(***************************************************************************)
(* What each writer does to the table is a step of the ledger.             *)
(***************************************************************************)
LEMMA UpsertIsSeen == \A n \in Names : Upsert(n) => LedgerOf!Next
  BY DEF Upsert, LedgerOf!Next, LedgerOf!Seen

LEMMA InsertIsMigrated ==
    ASSUME table \in [Names -> Dates], NEW row, row.name \in Names, Insert(row)
    PROVE  LedgerOf!Next \/ UNCHANGED table
<1>1. DateOf(row) \in {"old", "guess"}
  BY DEF DateOf
<1>2. CASE Present(row.name)
  BY <1>2 DEF Insert, InsertNew
<1>3. CASE ~Present(row.name)
  <2>1. LedgerOf!Migrated(row.name, DateOf(row))
    BY <1>3 DEF Insert, InsertNew, Present, LedgerOf!Migrated
  <2> QED  BY <1>1, <2>1 DEF LedgerOf!Next
<1> QED  BY <1>2, <1>3

LEMMA LedgerKeepsRows ==
    ASSUME table \in [Names -> Dates], LedgerOf!Next \/ UNCHANGED table
    PROVE  /\ table' \in [Names -> Dates]
           /\ \A n \in Names : Present(n) => Present(n)'
  BY DEF LedgerOf!Next, LedgerOf!Seen, LedgerOf!Migrated, Present, Dates

LEMMA ServerKeepsLedger ==
    ASSUME LifecycleTypeOK, LifecycleNext
    PROVE  LedgerOf!Next \/ UNCHANGED table
<1>1. ASSUME NEW r \in Requests, Apply(r) PROVE LedgerOf!Next
  <2>1. name[r] \in Names
    BY <1>1, LifecycleAssumption DEF Apply, Becomes, LifecycleTypeOK
  <2> QED  BY <1>1, <2>1, MatricIsAName, UpsertIsSeen DEF Apply
<1>2. ASSUME ~ \E r \in Requests : Apply(r) PROVE UNCHANGED table
  BY <1>2 DEF LifecycleNext, Start, Signal, Drained, Deadline, Exit, Crash, Gone, Arrive,
       Authenticated, Answer, UpdateAnalytics, Send, Refuse
<1> QED  BY <1>1, <1>2

LEMMA ToolKeepsLedger ==
    ASSUME table \in [Names -> Dates], MigrationTypeOK, MigrationNext
    PROVE  LedgerOf!Next \/ UNCHANGED table
<1>1. \A row \in todo : row.name \in Names
  BY OldRowsAreNamed DEF MigrationTypeOK
<1>2. ASSUME NEW row \in todo, Insert(row) PROVE LedgerOf!Next \/ UNCHANGED table
  BY <1>1, <1>2, InsertIsMigrated
<1>3. UNCHANGED table \/ \E row \in todo : Insert(row)
  BY DEF MigrationNext, Begin, Confirm, Copy, Refused, Stop, Finish
<1> QED  BY <1>2, <1>3

LEMMA NextTypeOK == TypeOK /\ [Next]_vars => TypeOK' /\ [LedgerOf!Next]_table
<1> SUFFICES ASSUME TypeOK, [Next]_vars
             PROVE  TypeOK' /\ (LedgerOf!Next \/ UNCHANGED table)
  OBVIOUS
<1>1. CASE LifecycleNext /\ UNCHANGED migration
  <2>1. LedgerOf!Next \/ UNCHANGED table
    BY <1>1, ServerKeepsLedger DEF TypeOK
  <2>2. LifecycleTypeOK'
    BY <1>1, LifecycleTypes DEF TypeOK
  <2>3. MigrationTypeOK'
    BY <1>1 DEF TypeOK, MigrationTypeOK, migration
  <2> QED  BY <2>1, <2>2, <2>3, LedgerKeepsRows DEF TypeOK
<1>2. CASE MigrationNext /\ UNCHANGED lifecycle
  <2>1. LedgerOf!Next \/ UNCHANGED table
    BY <1>2, ToolKeepsLedger DEF TypeOK
  <2>2. MigrationTypeOK'
    BY <1>2, MigrationTypes DEF TypeOK
  <2>3. LifecycleTypeOK'
    BY <1>2 DEF TypeOK, LifecycleTypeOK, lifecycle, process, request, Active
  <2> QED  BY <2>1, <2>2, <2>3, LedgerKeepsRows DEF TypeOK
<1>3. CASE UNCHANGED vars
  BY <1>3 DEF vars, TypeOK, LifecycleTypeOK, MigrationTypeOK, lifecycle, migration, process,
       request, Active
<1> QED  BY <1>1, <1>2, <1>3 DEF Next

\* Every variable of the server, of the tool and of the table is well typed.
THEOREM TypeCorrect == Spec => []TypeOK
  BY InitTypeOK, NextTypeOK, PTL DEF Spec

\* The upserts of the server and the inserts of the tool implement the ledger: no
\* row is lost, and none that a request has dated is dated back.
THEOREM LedgerIsKept == Spec => KeepsTheLedger
<1>1. Init => LedgerOf!Init
  BY DEF Init, LedgerOf!Init
<1> QED
  BY <1>1, TypeCorrect, NextTypeOK, PTL DEF Spec, KeepsTheLedger, LedgerOf!Spec

(***************************************************************************)
(* A run copies all it has read: the records that are no longer to be done *)
(* have a row, and rows stay.                                              *)
(***************************************************************************)
CopyInv ==
    /\ phase = "confirm" => todo = old
    /\ phase = "copy" => \A row \in old \ todo : Present(row.name)
    /\ CompletedIsComplete

LEMMA InitCopyInv == Init => CopyInv
  BY DEF Init, MigrationInit, CopyInv, CompletedIsComplete

LEMMA InsertPresents ==
    ASSUME table \in [Names -> Dates], NEW row, row.name \in Names, Insert(row)
    PROVE  Present(row.name)'
  BY DEF Insert, InsertNew, DateOf, Present

LEMMA NextCopyInv == TypeOK /\ CopyInv /\ [Next]_vars => CopyInv'
<1> SUFFICES ASSUME TypeOK, CopyInv, [Next]_vars PROVE CopyInv'
  OBVIOUS
<1>1. \A row \in old : row.name \in Names
  BY OldRowsAreNamed DEF TypeOK, MigrationTypeOK
<1>2. \A row \in old : Present(row.name) => Present(row.name)'
  BY <1>1, NextTypeOK, LedgerKeepsRows DEF TypeOK
<1>3. CASE UNCHANGED migration
  BY <1>2, <1>3 DEF migration, CopyInv, CompletedIsComplete
<1>4. CASE MigrationNext
  <2>1. ASSUME NEW dryRun \in BOOLEAN, Begin(dryRun) PROVE CopyInv'
    BY <1>2, <2>1 DEF Begin, Quit, CopyInv, CompletedIsComplete
  <2>2. CASE Confirm
    BY <1>2, <2>2 DEF Confirm, Quit, CopyInv, CompletedIsComplete
  <2>3. ASSUME NEW row \in todo, Copy(row) PROVE CopyInv'
    <3>1. row \in old /\ row.name \in Names
      BY <1>1 DEF TypeOK, MigrationTypeOK
    <3>2. Present(row.name)'
      BY <2>3, <3>1, InsertPresents DEF Copy, TypeOK
    <3> QED  BY <1>2, <2>3, <3>1, <3>2 DEF Copy, CopyInv, CompletedIsComplete
  <2>4. ASSUME NEW row \in todo, Refused(row) PROVE CopyInv'
    BY <1>2, <2>4 DEF Refused, Quit, CopyInv, CompletedIsComplete
  <2>5. CASE Stop
    BY <1>2, <2>5 DEF Stop, Quit, CopyInv, CompletedIsComplete
  <2>6. CASE Finish
    BY <1>2, <2>6 DEF Finish, Quit, CopyInv, CompletedIsComplete
  <2> QED  BY <1>4, <2>1, <2>2, <2>3, <2>4, <2>5, <2>6 DEF MigrationNext
<1>5. CASE UNCHANGED vars
  BY <1>3, <1>5 DEF vars
<1> QED  BY <1>3, <1>4, <1>5 DEF Next

\* Once a run has said that the migration is completed, every row of the old
\* database is in the table and stays there, however many runs failed before and
\* whatever servers wrote in between.
THEOREM MigrationIsComplete == Spec => []CompletedIsComplete
<1>1. CopyInv => CompletedIsComplete
  BY DEF CopyInv
<1> QED
  BY <1>1, InitCopyInv, NextCopyInv, TypeCorrect, PTL DEF Spec

(***************************************************************************)
(* Requests that are still there when main returns have met the deadline.  *)
(***************************************************************************)
LateInv == server = "exiting" /\ Active # {} => forced

LEMMA InitLateInv == Init => LateInv
  BY DEF Init, LifecycleInit, LateInv

LEMMA NextLateInv == LifecycleTypeOK /\ LateInv /\ [Next]_vars => LateInv'
<1> SUFFICES ASSUME LifecycleTypeOK, LateInv, [Next]_vars PROVE LateInv'
  OBVIOUS
<1> USE DEF LateInv
<1>1. CASE UNCHANGED <<server, stage, forced>>
  BY <1>1 DEF Active
<1>2. CASE LifecycleNext
  <2>1. CASE Deadline
    BY <2>1, Zenon DEF Deadline
  <2>2. CASE Drained
    BY <2>2 DEF Drained, request, Active
  <2>3. CASE server' # "exiting"
    BY <2>3
  <2>4. ASSUME NEW r \in Requests, Authenticated(r) \/ Answer(r) PROVE LateInv'
    <3>1. UNCHANGED <<server, forced>> /\ r \in Active
      BY <2>4 DEF Authenticated, Answer, process, Active
    <3>2. Active' \subseteq Active
      BY <2>4 DEF Authenticated, Answer, Active, LifecycleTypeOK
    <3> QED  BY <3>1, <3>2
  <2>5. ASSUME NEW r \in Requests, UpdateAnalytics(r) PROVE LateInv'
    BY <1>1, <2>5 DEF UpdateAnalytics, Send, Apply, Refuse, process, request
  <2>6. \/ Deadline \/ Drained \/ server' # "exiting"
        \/ \E r \in Requests : Authenticated(r) \/ Answer(r) \/ UpdateAnalytics(r)
    BY <1>2 DEF LifecycleNext, Start, Signal, Exit, Crash, Gone, Arrive, process
  <2> QED  BY <2>1, <2>2, <2>3, <2>4, <2>5, <2>6
<1> QED
  BY <1>1, <1>2 DEF Next, vars, lifecycle, process, request

LEMMA CutMeansLate ==
    TypeOK /\ LateInv /\ [Next]_vars =>
        [\A r \in Requests : stage'[r] = "cut" /\ stage[r] # "cut" => forced]_vars
<1> SUFFICES ASSUME TypeOK, LateInv, [Next]_vars,
                    NEW r \in Requests, stage'[r] = "cut", stage[r] # "cut"
             PROVE  forced
  OBVIOUS
<1>1. Exit
  <2>1. stage \in [Requests -> {"new", "arrived", "served", "answered", "cut", "crashed"}]
    BY DEF TypeOK, LifecycleTypeOK
  <2>2. LifecycleNext
    BY DEF Next, vars, lifecycle, request
  <2> QED
    BY <2>1, <2>2 DEF LifecycleNext, Start, Signal, Drained, Deadline, Crash, Gone, Arrive,
         Authenticated, Answer, UpdateAnalytics, Send, Apply, Refuse, request
<1>2. r \in Active
  BY <1>1 DEF Exit, Gone, TypeOK, LifecycleTypeOK
<1> QED  BY <1>1, <1>2 DEF Exit, LateInv

\* The end of main cuts a request off only if the shutdown has met its deadline.
THEOREM OnlyTheLateAreCut == Spec => CutOnlyWhenLate
<1>1. TypeOK => LifecycleTypeOK
  BY DEF TypeOK
<1> QED
  BY <1>1, TypeCorrect, InitLateInv, NextLateInv, CutMeansLate, PTL DEF Spec, CutOnlyWhenLate

(***************************************************************************)
(* The summary counts heads.  The table is finite, for it begins empty and *)
(* a statement adds one row; each row is of a student, and stands under    *)
(* the matric number itself if the old database has no other names: so the *)
(* rows the summary counts and the students are the same, one to one.      *)
(***************************************************************************)
OldIsPlain == \A row \in old : row.name = Matric(row.name)

HeadsInv ==
    /\ IsFiniteSet({n \in Names : Present(n)})
    /\ \A n \in Names : Present(n) => Accepts(n)
    /\ OldIsPlain => \A n \in Names : Present(n) => Matric(n) = n

\* What a step of either program does to the table, as far as its rows go.
Adds(n) ==
    /\ Accepts(n)
    /\ OldIsPlain => Matric(n) = n
    /\ \A m \in Names : Present(m)' => Present(m) \/ m = n

LEMMA InitHeadsInv == Init => HeadsInv
<1> SUFFICES ASSUME Init PROVE HeadsInv
  OBVIOUS
<1>1. \A n \in Names : ~Present(n)
  BY DEF Init, Present
<1>2. {n \in Names : Present(n)} = {}
  BY <1>1
<1> QED  BY <1>1, <1>2, FS_EmptySet, Zenon DEF HeadsInv

LEMMA MatricIsPlain == \A n \in Names : Matric(Matric(n)) = Matric(n)
  BY DEF Matric, Names

LEMMA ServerAdds ==
    ASSUME TypeOK, LifecycleNext
    PROVE  UNCHANGED table \/ \E n \in Names : Adds(n)
<1>1. ASSUME NEW r \in Requests, Apply(r) PROVE \E n \in Names : Adds(n)
  <2>1. name[r] \in Names
    BY <1>1, LifecycleAssumption DEF Apply, Becomes, TypeOK, LifecycleTypeOK
  <2>2. Matric(name[r]) \in Names /\ Matric(Matric(name[r])) = Matric(name[r])
    BY <2>1, MatricIsAName, MatricIsPlain
  <2>3. \A m \in Names : Present(m)' => Present(m) \/ m = Matric(name[r])
    BY <1>1, <2>2 DEF Apply, Upsert, Present, TypeOK
  <2>4. Adds(Matric(name[r]))
    BY <1>1, <2>2, <2>3, Zenon DEF Apply, Adds
  <2> QED  BY <2>2, <2>4
<1>2. ASSUME ~ \E r \in Requests : Apply(r) PROVE UNCHANGED table
  BY <1>2 DEF LifecycleNext, Start, Signal, Drained, Deadline, Exit, Crash, Gone, Arrive,
       Authenticated, Answer, UpdateAnalytics, Send, Refuse
<1> QED  BY <1>1, <1>2

LEMMA ToolAdds ==
    ASSUME TypeOK, MigrationNext
    PROVE  UNCHANGED table \/ \E n \in Names : Adds(n)
<1>1. ASSUME NEW row \in todo, Accepts(row.name), Insert(row)
      PROVE  \E n \in Names : Adds(n)
  <2>1. row \in old /\ row.name \in Names
    BY OldRowsAreNamed DEF TypeOK, MigrationTypeOK
  <2>2. \A m \in Names : Present(m)' => Present(m) \/ m = row.name
    BY <1>1, <2>1 DEF Insert, InsertNew, Present, TypeOK
  <2>3. OldIsPlain => Matric(row.name) = row.name
    BY <2>1, Zenon DEF OldIsPlain
  <2>4. Adds(row.name)
    BY <1>1, <2>2, <2>3, Zenon DEF Adds
  <2> QED  BY <2>1, <2>4
<1>2. UNCHANGED table \/ \E row \in todo : Accepts(row.name) /\ Insert(row)
  BY DEF MigrationNext, Begin, Confirm, Copy, Refused, Stop, Finish
<1> QED  BY <1>1, <1>2

LEMMA AddsKeepsHeadsInv ==
    ASSUME HeadsInv, old' = old, NEW n \in Names, Adds(n)
    PROVE  HeadsInv'
<1> DEFINE Now == {m \in Names : Present(m)}
<1>1. IsFiniteSet(Now')
  <2>1. IsFiniteSet(Now \cup {n})
    BY FS_AddElement DEF HeadsInv
  <2>2. Now' \in SUBSET (Now \cup {n})
    BY DEF Adds
  <2> HIDE DEF Now
  <2> QED  BY <2>1, <2>2, FS_Subset
<1>2. \A m \in Names : Present(m)' => Accepts(m)
  BY DEF Adds, HeadsInv
<1>3. OldIsPlain' <=> OldIsPlain
  BY DEF OldIsPlain
<1>4. OldIsPlain => \A m \in Names : Present(m)' => Matric(m) = m
  BY DEF Adds, HeadsInv
<1> QED  BY <1>1, <1>2, <1>3, <1>4, Zenon DEF HeadsInv, Accepts, Matric

LEMMA NextHeadsInv == TypeOK /\ HeadsInv /\ [Next]_vars => HeadsInv'
<1> SUFFICES ASSUME TypeOK, HeadsInv, [Next]_vars PROVE HeadsInv'
  OBVIOUS
<1>1. old' = old
  BY DEF Next, vars, migration, MigrationNext, Begin, Confirm, Copy, Refused, Stop, Finish
<1>2. CASE UNCHANGED table
  BY <1>1, <1>2 DEF HeadsInv, OldIsPlain, Present, Accepts, Matric
<1>3. CASE \E n \in Names : Adds(n)
  BY <1>1, <1>3, AddsKeepsHeadsInv
<1> QED  BY <1>2, <1>3, ServerAdds, ToolAdds DEF Next, vars

LEMMA MatricNumbers == \A n \in Names : Matric(n) = n => n = Plain(n.who)
<1> SUFFICES ASSUME NEW n \in Names, Matric(n) = n PROVE n = Plain(n.who)
  OBVIOUS
<1>1. n = [who |-> n.who, five |-> n.five, padded |-> n.padded]
  BY DEF Names
<1>2. Matric(n).five = FALSE /\ Matric(n).padded = FALSE
  BY DEF Matric, Names
<1> QED  BY <1>1, <1>2 DEF Plain

LEMMA HeadsAreCounted == HeadsInv => SummaryCountsHeads
<1> SUFFICES ASSUME HeadsInv, OldIsPlain,
                    NEW level \in {"DEGREE", "CFS"},
                    NEW batch \in Nat
             PROVE  Summary(level, batch) =
                        Cardinality({s \in Students : /\ Level(Plain(s)) = level
                                                      /\ Batch(Plain(s)) = batch
                                                      /\ \E n \in Names : n.who = s /\ Present(n)})
  BY DEF SummaryCountsHeads, OldIsPlain
<1> DEFINE R == {n \in Names : Present(n) /\ Level(n) = level /\ Batch(n) = batch}
           H == {s \in Students : /\ Level(Plain(s)) = level
                                  /\ Batch(Plain(s)) = batch
                                  /\ \E n \in Names : n.who = s /\ Present(n)}
           who == [n \in R |-> n.who]
<1>1. \A n \in Names : Present(n) => n.who \in Students /\ n = Plain(n.who)
  BY MatricNumbers DEF HeadsInv, Accepts
<1>2. IsFiniteSet(R)
  <2>1. R \in SUBSET {n \in Names : Present(n)}
    OBVIOUS
  <2> HIDE DEF R
  <2> QED  BY <2>1, FS_Subset DEF HeadsInv
<1>3. \A n \in R : n \in Names /\ n.who \in H
  BY <1>1
<1>4. \A m, n \in R : m.who = n.who => m = n
  BY <1>1, Zenon
<1>5. \A s \in H : \E n \in R : n.who = s
  BY <1>1
<1> HIDE DEF R, H
<1>6. who \in Bijection(R, H)
  BY <1>3, <1>4, <1>5 DEF Bijection, Injection, Surjection, IsInjective
<1>7. Cardinality(H) = Cardinality(R)
  BY <1>2, <1>6, FS_Bijection DEF ExistsBijection
<1> QED  BY <1>7 DEF R, H, Summary

\* The counts the summary gives are of students: each once, in whichever way the
\* name was typed, whichever program wrote the row, and however often.
THEOREM HeadsAreCountedOnce == Spec => []SummaryCountsHeads
  BY InitHeadsInv, NextHeadsInv, HeadsAreCounted, TypeCorrect, PTL DEF Spec
=============================================================================
