----------------------------- MODULE RowParsers -----------------------------
(***************************************************************************)
(* The handlers that scrape one page into accumulators: carry marks,       *)
(* star points, results of a session, and the two plain listings (final    *)
(* exams, disciplinary records).                                           *)
(*                                                                         *)
(* colly calls the row callback for every <tr> in order; what a row means  *)
(* may depend on the rows before it.  The accumulators live outside the    *)
(* attempt, so a retry finds what the first attempt left in them.          *)
(*                                                                         *)
(* A row is its kind; what it carries is its place on the page.            *)
(***************************************************************************)
EXTENDS Naturals, Sequences, FiniteSets

CONSTANTS MaxRows,     \* bound: rows of the page of the last attempt
          MaxFirstRows \* bound: rows of the page of a first attempt

ASSUME RowParsersAssumption == MaxRows \in Nat /\ MaxFirstRows \in Nat

VARIABLES handler,  \* which handler runs
          pages,    \* the pages of its attempts: rows, and whether a form is there
          attempt,  \* the attempt under way
          i,        \* rows read in it
          acc,      \* the accumulators
          outcome

vars == <<handler, pages, attempt, i, acc, outcome>>

Listings == {"final-exam", "disciplinary"}
Handlers == {"carry-mark", "starpoint", "result"} \cup Listings

\* What a row can be to each parser; "other" is any row it skips.
RowKinds(h) ==
    CASE h = "carry-mark" -> {"subject", "component", "script", "other"}
      [] h = "starpoint"  -> {"full", "session", "continuation", "average",
                              "zero-average", "bare-average", "total", "bare-total", "other"}
      [] h = "result"     -> {"course", "total", "other"}
      [] h = "final-exam" -> {"exam", "other"}
      [] h = "disciplinary" -> {"compound", "other"}

(***************************************************************************)
(* Carry marks.  subjects is a Go slice: the array arr of the heap, of     *)
(* which it shows the first len elements; an array has room for 2^(arr-1)  *)
(* of them, and append moves to a new one when it is full.  currentSubject *)
(* points to one element of one array.  The first script that logs a       *)
(* session names it (a script is a row here: it touches nothing else).     *)
(***************************************************************************)
Nil == [arr |-> 0, index |-> 0]
Room(arr) == 2 ^ (arr - 1)

Shown(a) == SubSeq(a.heap[a.arr], 1, a.len)

Appended(a, subject) ==
    LET grow == a.len = Room(a.arr)
        kept == Append(Shown(a), subject)
        old  == a.heap[a.arr]
    IN  IF grow THEN [a EXCEPT !.heap = Append(@, kept), !.arr = @ + 1, !.len = @ + 1]
        ELSE [a EXCEPT !.heap[a.arr] = kept \o SubSeq(old, a.len + 2, Len(old)),
                       !.len = @ + 1]

\* Mutant: the pointer is taken to the element as it was before append.
CarryMarkRowMutant(a, kind, n) ==
    IF kind = "subject"
      THEN [Appended(a, [code |-> n, components |-> <<>>])
              EXCEPT !.current = [arr |-> a.arr, index |-> a.len + 1]]
    ELSE IF kind = "component" /\ a.current # Nil
            /\ a.current.index <= Len(a.heap[a.current.arr])
      THEN [a EXCEPT !.heap[a.current.arr][a.current.index].components = Append(@, n)]
    ELSE IF kind = "script" /\ a.session = 0 THEN [a EXCEPT !.session = n]
    ELSE a

CarryMarkRow(a, kind, n) ==
    IF kind = "subject"
      THEN LET b == Appended(a, [code |-> n, components |-> <<>>])
           IN  [b EXCEPT !.current = [arr |-> b.arr, index |-> b.len]]
    ELSE IF kind = "component" /\ a.current # Nil
      THEN [a EXCEPT !.heap[a.current.arr][a.current.index].components = Append(@, n)]
    ELSE IF kind = "script" /\ a.session = 0 THEN [a EXCEPT !.session = n]
    ELSE a

(***************************************************************************)
(* Star points: a continuation row belongs to the session of the last row  *)
(* that named one; the first summary that is not zero counts.  One without *)
(* a colon makes getFloatFromString panic.                                 *)
(***************************************************************************)
\* Mutant: a row that names a session without a semester does not open it.
StarpointRowMutant(a, kind, n) ==
    CASE kind = "full" ->
           [a EXCEPT !.programs = Append(@, [session |-> n, event |-> n]), !.last = n]
      [] kind = "session" ->
           [a EXCEPT !.programs = Append(@, [session |-> n, event |-> n])]
      [] kind = "continuation" /\ a.last # 0 ->
           [a EXCEPT !.programs = Append(@, [session |-> a.last, event |-> n])]
      [] OTHER -> a

StarpointRow(a, kind, n) ==
    CASE kind \in {"full", "session"} ->
           [a EXCEPT !.programs = Append(@, [session |-> n, event |-> n]), !.last = n]
      [] kind = "continuation" /\ a.last # 0 ->
           [a EXCEPT !.programs = Append(@, [session |-> a.last, event |-> n])]
      [] kind = "average" /\ a.average = 0 -> [a EXCEPT !.average = n]
      [] kind = "total" /\ a.total = 0     -> [a EXCEPT !.total = n]
      [] \/ kind = "bare-average" /\ a.average = 0
         \/ kind = "bare-total" /\ a.total = 0 -> [a EXCEPT !.panic = TRUE]
      [] OTHER -> a

\* Results of a session: the last row of totals is the one that stays.
ResultRow(a, kind, n) ==
    CASE kind = "course" -> [a EXCEPT !.rows = Append(@, n)]
      [] kind = "total"  -> [a EXCEPT !.total = n]
      [] OTHER -> a

\* Final exams, and disciplinary records: every row that is not blank.
FinalExamRow(a, kind, n) ==
    IF kind = "exam" THEN [a EXCEPT !.rows = Append(@, n)] ELSE a

DisciplinaryRow(a, kind, n) ==
    IF kind = "compound" THEN [a EXCEPT !.rows = Append(@, n)] ELSE a

Row(a, kind, n) ==
    CASE handler = "carry-mark" -> CarryMarkRow(a, kind, n)
      [] handler = "starpoint"  -> StarpointRow(a, kind, n)
      [] handler = "result"     -> ResultRow(a, kind, n)
      [] handler = "final-exam" -> FinalExamRow(a, kind, n)
      [] handler = "disciplinary" -> DisciplinaryRow(a, kind, n)

(***************************************************************************)
(* The accumulators before the first attempt, and their reset.             *)
(***************************************************************************)
NewAccumulators(h) ==
    CASE h = "carry-mark" -> [heap |-> <<<<>>>>, arr |-> 1, len |-> 0, current |-> Nil,
                              session |-> 0]
      [] h = "starpoint"  -> [programs |-> <<>>, last |-> 0, average |-> 0,
                              total |-> 0, panic |-> FALSE]
      [] h \in {"result"} \cup Listings -> [rows |-> <<>>, total |-> 0]

\* Mutant: the attempt goes on with what the last one left.
ResetMutant(h, a) == a

\* Each attempt starts clean: subjects[:0] keeps the array, all else is zero.
Reset(h, a) ==
    IF h = "carry-mark" THEN [a EXCEPT !.len = 0, !.current = Nil, !.session = 0]
    ELSE NewAccumulators(h)

-----------------------------------------------------------------------------

RowSeqs(h, n) == UNION {[1..m -> RowKinds(h)] : m \in 0..n}

\* The first page may show the login form, alone or within a page of rows;
\* then there is a second one, which may show it again.
Init ==
    /\ handler \in Handlers
    /\ \/ \E rows \in RowSeqs(handler, MaxRows) : pages = <<[rows |-> rows, form |-> FALSE]>>
       \/ \E first \in RowSeqs(handler, MaxFirstRows), rows \in RowSeqs(handler, MaxRows - 1),
             form \in BOOLEAN :
            pages = <<[rows |-> first, form |-> TRUE], [rows |-> rows, form |-> form]>>
    /\ attempt = 1
    /\ i = 0
    /\ acc = Reset(handler, NewAccumulators(handler))
    /\ outcome = "none"

Page == pages[attempt]
Panicked == handler = "starpoint" /\ acc.panic

ReadRow ==
    /\ outcome = "none" /\ ~Panicked /\ i < Len(Page.rows)
    /\ i' = i + 1
    /\ acc' = Row(acc, Page.rows[i + 1], i + 1)
    /\ UNCHANGED <<handler, pages, attempt, outcome>>

PageRead == outcome = "none" /\ ~Panicked /\ i = Len(Page.rows)

\* A form on the first page: the session is refreshed and the page read again.
Retry ==
    /\ PageRead /\ Page.form /\ attempt = 1
    /\ attempt' = 2
    /\ i' = 0
    /\ acc' = Reset(handler, acc)
    /\ UNCHANGED <<handler, pages, outcome>>

\* A page cannot be fetched, or refreshSession fails.
Fail ==
    /\ outcome = "none"
    /\ i = 0 \/ (PageRead /\ Page.form /\ attempt = 1)
    /\ outcome' = "error"
    /\ UNCHANGED <<handler, pages, attempt, i, acc>>

Nothing ==
    CASE handler = "carry-mark" -> acc.len = 0
      [] handler = "starpoint"  -> acc.programs = <<>>
      [] handler = "result"     -> FALSE
      [] handler \in Listings  -> acc.rows = <<>>

Finish ==
    /\ PageRead /\ (Page.form => attempt = 2)
    /\ outcome' = IF Page.form THEN "stale" ELSE IF Nothing THEN "empty" ELSE "ok"
    /\ UNCHANGED <<handler, pages, attempt, i, acc>>

\* Recoverer turns the panic of a callback into a 500.
Recover ==
    /\ outcome = "none" /\ Panicked
    /\ outcome' = "panic"
    /\ UNCHANGED <<handler, pages, attempt, i, acc>>

Next == ReadRow \/ Retry \/ Fail \/ Finish \/ Recover

Spec == Init /\ [][Next]_vars

-----------------------------------------------------------------------------
(* Properties.  Each says what the page means, without reading it in order. *)

Served(h) == handler = h /\ outcome = "ok"
Rows == pages[attempt].rows
Where(kinds) == {n \in DOMAIN Rows : Rows[n] \in kinds}

\* The first and the last of a set of rows (0 if there is none), the last one
\* before row n, and the rows in order: k - 1 of them are below the k-th.
FirstOf(S) == IF S = {} THEN 0 ELSE CHOOSE m \in S : \A k \in S : m <= k
LastOf(S) == IF S = {} THEN 0 ELSE CHOOSE m \in S : \A k \in S : k <= m
Below(S, n) == {m \in S : m < n}
LastBefore(S, n) == LastOf(Below(S, n))
Ascending(S) ==
    [k \in 1..Cardinality(S) |->
        CHOOSE n \in {m \in S : Cardinality(Below(S, m)) = k - 1} : TRUE]

\* Every subject of the page is served once, in order, each with exactly the
\* components between it and the next subject: none is lost to an array that
\* append left behind, and none comes from an earlier attempt.  The session is
\* the one the first script of the page names.
CarryMarksGrouped ==
    Served("carry-mark") =>
        LET subjects == Ascending(Where({"subject"}))
        IN  /\ Shown(acc) = [n \in DOMAIN subjects |->
                  [code |-> subjects[n],
                   components |-> Ascending({c \in Where({"component"}) :
                       LastBefore(Where({"subject"}), c) = subjects[n]})]]
            /\ acc.session = FirstOf(Where({"script"}))

\* Every programme of the page is served once, under the session it belongs to:
\* the last one named at or above it; rows above any session are left out.
StarpointsGrouped ==
    Served("starpoint") =>
        LET heads == Where({"full", "session"})
            events == Ascending({n \in Where({"full", "session", "continuation"}) :
                                   LastBefore(heads, n + 1) # 0})
        IN  /\ acc.programs = [n \in DOMAIN events |->
                  [session |-> LastBefore(heads, events[n] + 1), event |-> events[n]]]
            /\ acc.average = FirstOf(Where({"average"}))
            /\ acc.total = FirstOf(Where({"total"}))

\* The listings and the results of a session hold the rows of the last page,
\* all of them and once each.
ListingsComplete ==
    /\ \A h \in Listings : Served(h) => acc.rows = Ascending(Where({"exam", "compound"}))
    /\ Served("result")  => /\ acc.rows = Ascending(Where({"course"}))
                            /\ acc.total = LastOf(Where({"total"}))
=============================================================================
