-------------------------- MODULE RowParsersProofs --------------------------
(***************************************************************************)
(* What is served is what the page says: the accumulators hold, after      *)
(* every row, what the rows read so far mean.  For pages of any length,    *)
(* and whatever the first attempt has left behind.                         *)
(***************************************************************************)
EXTENDS RowParsers, SequenceTheorems, FiniteSetTheorems, TLAPS

(***************************************************************************)
(* The numbers of a set in increasing order, and what the next number,     *)
(* which is larger than all before it, does to them.                       *)
(***************************************************************************)
LEMMA LeastExists ==
    ASSUME NEW S \in SUBSET Nat, S # {}
    PROVE  \E m \in S : \A k \in S : m <= k
<1>1. PICK m \in S : \A k \in S : ~(<<k, m>> \in OpToRel(<, Nat))
  BY NatLessThanWellFounded, WFMin
<1>2. \A k \in S : ~(k < m)
  BY <1>1 DEF OpToRel
<1> QED  BY <1>2

LEMMA BelowAll ==
    ASSUME NEW n \in Nat, NEW S \in SUBSET (1..n)
    PROVE  /\ Below(S, n + 1) = S
           /\ Below(S \cup {n + 1}, n + 1) = S
           /\ Below(S \cup {n + 1}, n + 2) = S \cup {n + 1}
           /\ \A m \in 1..(n + 1) : Below(S \cup {n + 1}, m) = Below(S, m)
           /\ Below(S, n + 2) = S
<1>1. \A m \in S : m < n + 1 /\ m < n + 2
  OBVIOUS
<1>2. n + 1 < n + 2 /\ ~(n + 1 < n + 1) /\ \A m \in 1..(n + 1) : ~(n + 1 < m)
  OBVIOUS
<1>3. Below(S, n + 1) = S /\ Below(S, n + 2) = S
  BY <1>1, Zenon DEF Below
<1>4. Below(S \cup {n + 1}, n + 1) = S
  BY <1>1, <1>2, Zenon DEF Below
<1>5. Below(S \cup {n + 1}, n + 2) = S \cup {n + 1}
  BY <1>1, <1>2, Zenon DEF Below
<1>6. \A m \in 1..(n + 1) : Below(S \cup {n + 1}, m) = Below(S, m)
  BY <1>2, Zenon DEF Below
<1> QED  BY <1>3, <1>4, <1>5, <1>6

LEMMA LastOfNext ==
    ASSUME NEW n \in Nat, NEW S \in SUBSET (1..n)
    PROVE  LastOf(S \cup {n + 1}) = n + 1
<1>1. \A m \in S : m \in Nat /\ m <= n
  OBVIOUS
<1>2. \A m \in S \cup {n + 1} : (\A k \in S \cup {n + 1} : k <= m) <=> m = n + 1
  BY <1>1
<1> QED  BY <1>2 DEF LastOf

LEMMA LastBeforeNext ==
    ASSUME NEW n \in Nat, NEW S \in SUBSET (1..n)
    PROVE  /\ LastBefore(S, n + 1) = LastOf(S)
           /\ LastBefore(S \cup {n + 1}, n + 1) = LastOf(S)
           /\ LastBefore(S \cup {n + 1}, n + 2) = n + 1
           /\ LastBefore(S, n + 2) = LastOf(S)
           /\ \A m \in 1..(n + 1) : LastBefore(S \cup {n + 1}, m) = LastBefore(S, m)
<1>1. LastBefore(S, n + 1) = LastOf(S) /\ LastBefore(S, n + 2) = LastOf(S)
  BY BelowAll DEF LastBefore
<1>2. LastBefore(S \cup {n + 1}, n + 1) = LastOf(S)
  BY BelowAll DEF LastBefore
<1>3. LastBefore(S \cup {n + 1}, n + 2) = n + 1
  BY BelowAll, LastOfNext DEF LastBefore
<1>4. \A m \in 1..(n + 1) : LastBefore(S \cup {n + 1}, m) = LastBefore(S, m)
  <2>1. \A m \in 1..(n + 1) : Below(S \cup {n + 1}, m) = Below(S, m)
    BY BelowAll
  <2> QED  BY <2>1, Zenon DEF LastBefore
<1> QED  BY <1>1, <1>2, <1>3, <1>4

LEMMA LastOfNone == LastOf({}) = 0
  BY DEF LastOf

LEMMA FirstOfNext ==
    ASSUME NEW n \in Nat, NEW S \in SUBSET (1..n)
    PROVE  /\ FirstOf(S) = 0 <=> S = {}
           /\ FirstOf(S) \in 0..n
           /\ FirstOf(S \cup {n + 1}) = IF FirstOf(S) = 0 THEN n + 1 ELSE FirstOf(S)
<1>1. CASE S = {}
  <2>1. FirstOf(S) = 0
    BY <1>1 DEF FirstOf
  <2>2. FirstOf({n + 1}) = n + 1
    BY DEF FirstOf
  <2> QED  BY <1>1, <2>1, <2>2
<1>2. CASE S # {}
  <2>1. PICK m \in S : \A k \in S : m <= k
    BY <1>2, LeastExists
  <2>2. \A l \in S : (\A k \in S : l <= k) <=> l = m
    BY <2>1
  <2>3. FirstOf(S) = m
    BY <1>2, <2>1, <2>2 DEF FirstOf
  <2>4. \A l \in S \cup {n + 1} : (\A k \in S \cup {n + 1} : l <= k) <=> l = m
    BY <2>1
  <2>5. FirstOf(S \cup {n + 1}) = m
    BY <2>1, <2>4 DEF FirstOf
  <2> QED  BY <1>2, <2>1, <2>3, <2>5
<1> QED  BY <1>1, <1>2

LEMMA FirstOfNone == FirstOf({}) = 0
  BY DEF FirstOf

LEMMA AscendingNone == Ascending({}) = <<>>
<1>1. Cardinality({}) = 0 /\ 1..0 = {}
  BY FS_EmptySet
<1> QED  BY <1>1 DEF Ascending

\* The k-th number of a set: the one that k - 1 are below.
Kth(S, k) == {m \in S : Cardinality(Below(S, m)) = k - 1}

LEMMA AscendingNext ==
    ASSUME NEW n \in Nat, NEW S \in SUBSET (1..n)
    PROVE  /\ Cardinality(S) \in Nat
           /\ Cardinality(S \cup {n + 1}) = Cardinality(S) + 1
           /\ Ascending(S \cup {n + 1}) =
                  [k \in 1..(Cardinality(S) + 1) |->
                      IF k <= Cardinality(S) THEN Ascending(S)[k] ELSE n + 1]
<1> DEFINE T == S \cup {n + 1}
           c == Cardinality(S)
<1>1. IsFiniteSet(S) /\ c \in Nat
  <2>1. IsFiniteSet(1..n)
    BY FS_Interval
  <2> QED  BY <2>1, FS_Subset, FS_CardinalityType
<1>2. Cardinality(T) = c + 1
  <2>1. n + 1 \notin S
    OBVIOUS
  <2> QED  BY <1>1, <2>1, FS_AddElement
<1>3. \A m \in S : Cardinality(Below(S, m)) \in Nat /\ Cardinality(Below(S, m)) < c
  <2> SUFFICES ASSUME NEW m \in S
               PROVE  Cardinality(Below(S, m)) \in Nat /\ Cardinality(Below(S, m)) < c
    OBVIOUS
  <2>1. Below(S, m) \in SUBSET S /\ Below(S, m) # S
    BY DEF Below
  <2>2. IsFiniteSet(Below(S, m)) /\ Cardinality(Below(S, m)) <= c /\ Cardinality(Below(S, m)) # c
    BY <1>1, <2>1, FS_Subset
  <2> QED  BY <1>1, <2>2, FS_CardinalityType
<1>4. /\ Cardinality(Below(T, n + 1)) = c
      /\ \A m \in S : Cardinality(Below(T, m)) = Cardinality(Below(S, m))
  <2>1. \A m \in S : m \in 1..(n + 1)
    OBVIOUS
  <2>2. Below(T, n + 1) = S /\ \A m \in 1..(n + 1) : Below(T, m) = Below(S, m)
    BY BelowAll
  <2> QED  BY <2>1, <2>2, Zenon
<1>5. ASSUME NEW k \in 1..c PROVE Kth(T, k) = Kth(S, k)
  <2>1. c # k - 1
    BY <1>1
  <2> QED  BY <1>4, <2>1, Zenon DEF Kth
<1>6. Kth(T, c + 1) = {n + 1}
  <2>1. (c + 1) - 1 = c /\ \A m \in S : Cardinality(Below(S, m)) # c
    BY <1>1, <1>3
  <2> QED  BY <1>4, <2>1, Zenon DEF Kth
<1>7. \A U : Ascending(U) = [k \in 1..Cardinality(U) |-> CHOOSE m \in Kth(U, k) : TRUE]
  BY DEF Ascending, Kth
<1>8. (CHOOSE m \in Kth(T, c + 1) : TRUE) = n + 1
  BY <1>6
<1>9. \A k \in 1..c : Ascending(S)[k] = CHOOSE m \in Kth(T, k) : TRUE
  BY <1>5, <1>7
<1>10. Ascending(T) = [k \in 1..(c + 1) |-> IF k <= c THEN Ascending(S)[k] ELSE n + 1]
  <2>1. \A k \in 1..(c + 1) : IF k <= c THEN k \in 1..c ELSE k = c + 1
    BY <1>1
  <2> HIDE DEF T, c
  <2>2. ASSUME NEW k \in 1..(c + 1)
        PROVE  (CHOOSE m \in Kth(T, k) : TRUE) = IF k <= c THEN Ascending(S)[k] ELSE n + 1
    BY <1>8, <1>9, <2>1
  <2>3. Ascending(T) = [k \in 1..(c + 1) |-> CHOOSE m \in Kth(T, k) : TRUE]
    BY <1>2, <1>7, Zenon
  <2> QED  BY <2>2, <2>3, Zenon
<1> QED  BY <1>1, <1>2, <1>10

\* Ascending does what its name says: the numbers of S, all of them, in order.
Sorted(S) ==
    /\ Cardinality(S) \in Nat
    /\ Ascending(S) \in [1..Cardinality(S) -> S]
    /\ \A j, k \in 1..Cardinality(S) : j < k => Ascending(S)[j] < Ascending(S)[k]
    /\ \A m \in S : \E k \in 1..Cardinality(S) : Ascending(S)[k] = m
    /\ S # {} => Cardinality(S) > 0 /\ Ascending(S)[Cardinality(S)] = LastOf(S)

LEMMA SortedNone == Sorted({})
<1>1. Cardinality({}) = 0 /\ 1..0 = {}
  BY FS_EmptySet
<1> QED  BY <1>1 DEF Sorted, Ascending

LEMMA SortedNext ==
    ASSUME NEW n \in Nat, NEW S \in SUBSET (1..n), Sorted(S)
    PROVE  Sorted(S \cup {n + 1})
<1> DEFINE T == S \cup {n + 1}
           c == Cardinality(S)
           a == Ascending(S)
           b == Ascending(T)
<1>1. c \in Nat /\ Cardinality(T) = c + 1
  BY AscendingNext
<1>2. b = [k \in 1..(c + 1) |-> IF k <= c THEN a[k] ELSE n + 1]
  BY AscendingNext
<1>3. LastOf(T) = n + 1
  BY LastOfNext
<1>4. /\ a \in [1..c -> S]
      /\ \A j, k \in 1..c : j < k => a[j] < a[k]
      /\ \A m \in S : \E k \in 1..c : a[k] = m
  BY DEF Sorted
<1>5. \A m \in S : m \in Nat /\ m < n + 1
  OBVIOUS
<1>6. /\ DOMAIN b = 1..(c + 1)
      /\ \A k \in 1..c : b[k] = a[k] /\ b[k] \in S
      /\ b[c + 1] = n + 1
  <2> HIDE DEF a, b, c, T
  <2> QED  BY <1>1, <1>2, <1>4
<1>7. \A k \in 1..(c + 1) : k \in 1..c \/ k = c + 1
  BY <1>1
<1> HIDE DEF a, b, c
<1>8. b \in [1..(c + 1) -> T]
  BY <1>2, <1>6, <1>7
<1>9. \A j, k \in 1..(c + 1) : j < k => b[j] < b[k]
  <2> SUFFICES ASSUME NEW j \in 1..(c + 1), NEW k \in 1..(c + 1), j < k PROVE b[j] < b[k]
    OBVIOUS
  <2>1. j \in 1..c
    BY <1>1
  <2>2. CASE k \in 1..c
    BY <1>4, <1>6, <2>1, <2>2
  <2>3. CASE k = c + 1
    BY <1>5, <1>6, <2>1, <2>3
  <2> QED  BY <1>7, <2>2, <2>3
<1>10. \A m \in T : \E k \in 1..(c + 1) : b[k] = m
  BY <1>1, <1>4, <1>6
<1>11. T # {} => c + 1 > 0 /\ b[c + 1] = LastOf(T)
  BY <1>1, <1>3, <1>6
<1>12. c + 1 \in Nat
  BY <1>1
<1> HIDE DEF T
<1>13. Sorted(T)
  BY <1>1, <1>8, <1>9, <1>10, <1>11, <1>12, Zenon DEF Sorted, b
<1> QED  BY <1>13 DEF T

\* The reference the properties compare with is the one they mean: every finite
\* set of rows is listed completely, once each and in the order of the page.
LEMMA AscendingIsTheOrder == \A n \in Nat : \A S \in SUBSET (1..n) : Sorted(S)
<1> DEFINE Wrong == {n \in Nat : \E S \in SUBSET (1..n) : ~Sorted(S)}
<1> SUFFICES ASSUME Wrong # {} PROVE FALSE
  OBVIOUS
<1>1. PICK n \in Wrong : \A m \in Wrong : n <= m
  BY LeastExists
<1>2. PICK S \in SUBSET (1..n) : ~Sorted(S)
  OBVIOUS
<1>3. CASE n = 0
  <2>1. S = {}
    BY <1>3
  <2> QED  BY <1>2, <2>1, SortedNone
<1>4. CASE n # 0
  <2>1. n - 1 \in Nat /\ ~(n <= n - 1) /\ (n - 1) + 1 = n
    BY <1>4
  <2>2. \A U \in SUBSET (1..(n - 1)) : Sorted(U)
    BY <1>1, <2>1
  <2>3. S \ {n} \in SUBSET (1..(n - 1))
    BY <2>1
  <2>4. CASE n \in S
    <3>1. (S \ {n}) \cup {n} = S
      BY <2>4
    <3>2. Sorted((S \ {n}) \cup {(n - 1) + 1})
      BY <2>1, <2>2, <2>3, SortedNext
    <3> QED  BY <1>2, <2>1, <3>1, <3>2
  <2>5. CASE n \notin S
    <3>1. S \ {n} = S
      BY <2>5
    <3> QED  BY <1>2, <2>2, <2>3, <3>1
  <2> QED  BY <2>4, <2>5
<1> QED  BY <1>3, <1>4

\* A function on 1..c is a sequence; what append makes of it.
LEMMA AppendIs ==
    ASSUME NEW c \in Nat, NEW f, DOMAIN f = 1..c, f = [k \in 1..c |-> f[k]], NEW e
    PROVE  Append(f, e) = [k \in 1..(c + 1) |-> IF k <= c THEN f[k] ELSE e]
<1>1. f \in Seq({f[k] : k \in 1..c})
  OBVIOUS
<1>2. Len(f) = c
  BY <1>1
<1> QED  BY <1>1, <1>2

LEMMA AscendingAppend ==
    ASSUME NEW n \in Nat, NEW S \in SUBSET (1..n)
    PROVE  Ascending(S \cup {n + 1}) = Append(Ascending(S), n + 1)
<1>1. Cardinality(S) \in Nat /\ Ascending(S) \in [1..Cardinality(S) -> S]
  BY AscendingIsTheOrder DEF Sorted
<1>2. Append(Ascending(S), n + 1) =
        [k \in 1..(Cardinality(S) + 1) |-> IF k <= Cardinality(S) THEN Ascending(S)[k] ELSE n + 1]
  BY <1>1, AppendIs
<1> QED  BY <1>2, AscendingNext

(***************************************************************************)
(* Rows of certain kinds among the first n of a page.                      *)
(***************************************************************************)
Among(rows, n, kinds) == {m \in 1..n : rows[m] \in kinds}

LEMMA AmongNone == \A rows, kinds : Among(rows, 0, kinds) = {}
<1>1. 1..0 = {}
  OBVIOUS
<1> QED  BY <1>1 DEF Among

LEMMA AmongNext ==
    ASSUME NEW n \in Nat, NEW rows, NEW kinds
    PROVE  /\ Among(rows, n, kinds) \in SUBSET (1..n)
           /\ rows[n + 1] \in kinds =>
                Among(rows, n + 1, kinds) = Among(rows, n, kinds) \cup {n + 1}
           /\ rows[n + 1] \notin kinds => Among(rows, n + 1, kinds) = Among(rows, n, kinds)
<1>1. \A m : m \in 1..(n + 1) <=> m \in 1..n \/ m = n + 1
  OBVIOUS
<1>2. n + 1 \notin 1..n
  OBVIOUS
<1>3. Among(rows, n, kinds) \in SUBSET (1..n)
  BY DEF Among
<1>4. rows[n + 1] \in kinds => Among(rows, n + 1, kinds) = Among(rows, n, kinds) \cup {n + 1}
  BY <1>1, <1>2, Zenon DEF Among
<1>5. rows[n + 1] \notin kinds => Among(rows, n + 1, kinds) = Among(rows, n, kinds)
  BY <1>1, <1>2, Zenon DEF Among
<1> QED  BY <1>3, <1>4, <1>5

(***************************************************************************)
(* What the accumulators of the listings, and of the results of a session, *)
(* hold after n rows.                                                      *)
(***************************************************************************)
ListingMeans(a, rows, n) ==
    a = [rows |-> Ascending(Among(rows, n, {"exam", "compound"})), total |-> 0]

ResultMeans(a, rows, n) ==
    a = [rows |-> Ascending(Among(rows, n, {"course"})),
         total |-> LastOf(Among(rows, n, {"total"}))]

LEMMA ListingNext ==
    ASSUME NEW n \in Nat, NEW rows, NEW a, ListingMeans(a, rows, n)
    PROVE  /\ rows[n + 1] \in RowKinds("final-exam") =>
                ListingMeans(FinalExamRow(a, rows[n + 1], n + 1), rows, n + 1)
           /\ rows[n + 1] \in RowKinds("disciplinary") =>
                ListingMeans(DisciplinaryRow(a, rows[n + 1], n + 1), rows, n + 1)
<1> DEFINE S == Among(rows, n, {"exam", "compound"})
           T == Among(rows, n + 1, {"exam", "compound"})
           kind == rows[n + 1]
<1>1. S \in SUBSET (1..n)
  BY AmongNext
<1>2. CASE kind \in {"exam", "compound"}
  <2>1. T = S \cup {n + 1}
    BY <1>2, AmongNext
  <2>2. Ascending(T) = Append(Ascending(S), n + 1)
    BY <1>1, <2>1, AscendingAppend
  <2>3. [a EXCEPT !.rows = Append(@, n + 1)] = [rows |-> Ascending(T), total |-> 0]
    BY <2>2 DEF ListingMeans
  <2> HIDE DEF T
  <2> QED  BY <1>2, <2>3 DEF ListingMeans, FinalExamRow, DisciplinaryRow, RowKinds, T
<1>3. CASE kind \notin {"exam", "compound"}
  <2>1. T = S
    BY <1>3, AmongNext
  <2> QED  BY <1>3, <2>1 DEF ListingMeans, FinalExamRow, DisciplinaryRow
<1> QED  BY <1>2, <1>3

LEMMA ResultNext ==
    ASSUME NEW n \in Nat, NEW rows, NEW a, ResultMeans(a, rows, n)
    PROVE  ResultMeans(ResultRow(a, rows[n + 1], n + 1), rows, n + 1)
<1> DEFINE C == Among(rows, n, {"course"})
           T == Among(rows, n, {"total"})
           kind == rows[n + 1]
<1>1. C \in SUBSET (1..n) /\ T \in SUBSET (1..n)
  BY AmongNext
<1>2. CASE kind = "course"
  <2>1. /\ Among(rows, n + 1, {"course"}) = C \cup {n + 1}
        /\ Among(rows, n + 1, {"total"}) = T
    BY <1>2, AmongNext
  <2>2. Ascending(C \cup {n + 1}) = Append(Ascending(C), n + 1)
    BY <1>1, AscendingAppend
  <2> QED  BY <1>2, <2>1, <2>2 DEF ResultMeans, ResultRow
<1>3. CASE kind = "total"
  <2>1. /\ Among(rows, n + 1, {"course"}) = C
        /\ Among(rows, n + 1, {"total"}) = T \cup {n + 1}
    BY <1>3, AmongNext
  <2>2. LastOf(T \cup {n + 1}) = n + 1
    BY <1>1, LastOfNext
  <2> QED  BY <1>3, <2>1, <2>2 DEF ResultMeans, ResultRow
<1>4. CASE kind \notin {"course", "total"}
  <2>1. /\ Among(rows, n + 1, {"course"}) = C
        /\ Among(rows, n + 1, {"total"}) = T
    BY <1>4, AmongNext
  <2> QED  BY <1>4, <2>1 DEF ResultMeans, ResultRow
<1> QED  BY <1>2, <1>3, <1>4

(***************************************************************************)
(* Star points: the programmes of the sessions named so far.               *)
(***************************************************************************)
Heads(rows, n) == Among(rows, n, {"full", "session"})
Entries(rows, n) == Among(rows, n, {"full", "session", "continuation"})
Events(rows, n) == {m \in Entries(rows, n) : LastBefore(Heads(rows, n), m + 1) # 0}
Programs(events, heads) ==
    [k \in DOMAIN Ascending(events) |->
        [session |-> LastBefore(heads, Ascending(events)[k] + 1),
         event |-> Ascending(events)[k]]]

StarpointMeans(a, rows, n) ==
    a = [programs |-> Programs(Events(rows, n), Heads(rows, n)),
         last     |-> LastOf(Heads(rows, n)),
         average  |-> FirstOf(Among(rows, n, {"average"})),
         total    |-> FirstOf(Among(rows, n, {"total"})),
         panic    |-> a.panic]

LEMMA SamePrograms ==
    ASSUME NEW n \in Nat, NEW E \in SUBSET (1..n), NEW heads, NEW more,
           \A m \in E : LastBefore(more, m + 1) = LastBefore(heads, m + 1)
    PROVE  Programs(E, more) = Programs(E, heads)
<1> DEFINE a == Ascending(E)
<1>1. \A k \in DOMAIN a : a[k] \in E
  BY AscendingIsTheOrder DEF Sorted
<1>2. \A k \in DOMAIN a : LastBefore(more, a[k] + 1) = LastBefore(heads, a[k] + 1)
  BY <1>1, Zenon
<1> HIDE DEF a
<1> QED  BY <1>2, Zenon DEF Programs, a

LEMMA ProgramsNext ==
    ASSUME NEW n \in Nat, NEW E \in SUBSET (1..n), NEW heads
    PROVE  Programs(E \cup {n + 1}, heads) =
               Append(Programs(E, heads), [session |-> LastBefore(heads, n + 2), event |-> n + 1])
<1> DEFINE c == Cardinality(E)
           a == Ascending(E)
           P == Programs(E, heads)
           last == [session |-> LastBefore(heads, n + 2), event |-> n + 1]
<1>1. c \in Nat /\ DOMAIN a = 1..c /\ \A k \in 1..c : a[k] \in E
  BY AscendingIsTheOrder DEF Sorted
<1> HIDE DEF c, a
<1>2. /\ DOMAIN Ascending(E \cup {n + 1}) = 1..(c + 1)
      /\ \A k \in 1..(c + 1) :
            Ascending(E \cup {n + 1})[k] = IF k <= c THEN a[k] ELSE n + 1
  BY AscendingNext DEF c, a
<1>3. DOMAIN P = 1..c /\ P = [k \in 1..c |-> P[k]]
  BY <1>1 DEF Programs, a
<1>4. \A k \in 1..c :
         P[k] = [session |-> LastBefore(heads, a[k] + 1), event |-> a[k]]
  BY <1>1 DEF Programs, a
<1>5. Append(P, last) = [k \in 1..(c + 1) |-> IF k <= c THEN P[k] ELSE last]
  <2> HIDE DEF P, last
  <2> QED  BY <1>1, <1>3, AppendIs
<1>6. ASSUME NEW k \in 1..(c + 1)
      PROVE  Programs(E \cup {n + 1}, heads)[k] = IF k <= c THEN P[k] ELSE last
  <2>1. Programs(E \cup {n + 1}, heads)[k] =
           [session |-> LastBefore(heads, Ascending(E \cup {n + 1})[k] + 1),
            event |-> Ascending(E \cup {n + 1})[k]]
    BY <1>2 DEF Programs
  <2>2. CASE k <= c
    <3>1. k \in 1..c
      BY <1>1, <2>2
    <3> QED  BY <1>2, <1>4, <2>1, <2>2, <3>1, Zenon
  <2>3. CASE ~(k <= c)
    <3>1. (n + 1) + 1 = n + 2
      OBVIOUS
    <3> QED  BY <1>2, <2>1, <2>3, <3>1, Zenon
  <2> QED  BY <2>2, <2>3
<1>7. Programs(E \cup {n + 1}, heads) = [k \in 1..(c + 1) |-> Programs(E \cup {n + 1}, heads)[k]]
  BY <1>2 DEF Programs
<1> HIDE DEF P, last
<1>8. Programs(E \cup {n + 1}, heads) = Append(P, last)
  BY <1>5, <1>6, <1>7, Zenon
<1> QED  BY <1>8 DEF P, last

LEMMA EventsType ==
    ASSUME NEW n \in Nat, NEW rows
    PROVE  /\ Heads(rows, n) \in SUBSET (1..n)
           /\ Entries(rows, n) \in SUBSET (1..n)
           /\ Events(rows, n) \in SUBSET (1..n)
  BY AmongNext DEF Heads, Entries, Events

\* A row that names a session.
LEMMA HeadNext ==
    ASSUME NEW n \in Nat, NEW rows, rows[n + 1] \in {"full", "session"}
    PROVE  /\ Heads(rows, n + 1) = Heads(rows, n) \cup {n + 1}
           /\ Events(rows, n + 1) = Events(rows, n) \cup {n + 1}
           /\ LastOf(Heads(rows, n + 1)) = n + 1
           /\ Programs(Events(rows, n + 1), Heads(rows, n + 1)) =
                  Append(Programs(Events(rows, n), Heads(rows, n)),
                         [session |-> n + 1, event |-> n + 1])
<1> DEFINE H == Heads(rows, n)
           E == Entries(rows, n)
<1>1. H \in SUBSET (1..n) /\ E \in SUBSET (1..n) /\ Events(rows, n) \in SUBSET (1..n)
  BY EventsType
<1>2. Heads(rows, n + 1) = H \cup {n + 1}
  BY AmongNext DEF Heads
<1>3. Entries(rows, n + 1) = E \cup {n + 1}
  BY AmongNext DEF Entries
<1>4. LastBefore(H \cup {n + 1}, n + 2) = n + 1 /\ LastOf(H \cup {n + 1}) = n + 1
  BY <1>1, LastBeforeNext, LastOfNext
<1>5. \A m \in 1..n : LastBefore(H \cup {n + 1}, m + 1) = LastBefore(H, m + 1)
  <2>1. \A m \in 1..(n + 1) : LastBefore(H \cup {n + 1}, m) = LastBefore(H, m)
    BY <1>1, LastBeforeNext
  <2>2. \A m \in 1..n : m + 1 \in 1..(n + 1)
    OBVIOUS
  <2> HIDE DEF H
  <2> QED  BY <2>1, <2>2
<1>6. Events(rows, n + 1) = Events(rows, n) \cup {n + 1}
  <2>1. \A m \in E : m \in 1..n
    BY <1>1
  <2>2. (n + 1) + 1 = n + 2 /\ n + 1 # 0
    OBVIOUS
  <2> QED  BY <1>2, <1>3, <1>4, <1>5, <2>1, <2>2, Zenon DEF Events
<1>7. Programs(Events(rows, n) \cup {n + 1}, H \cup {n + 1}) =
          Append(Programs(Events(rows, n), H), [session |-> n + 1, event |-> n + 1])
  <2>1. \A m \in Events(rows, n) : LastBefore(H \cup {n + 1}, m + 1) = LastBefore(H, m + 1)
    BY <1>1, <1>5
  <2> DEFINE V == Events(rows, n)
             G == H \cup {n + 1}
  <2>2. V \in SUBSET (1..n) /\ \A m \in V : LastBefore(G, m + 1) = LastBefore(H, m + 1)
    BY <1>1, <2>1
  <2> HIDE DEF V, G, H
  <2>3. Programs(V \cup {n + 1}, G) =
            Append(Programs(V, G), [session |-> LastBefore(G, n + 2), event |-> n + 1])
    BY <2>2, ProgramsNext
  <2>4. Programs(V, G) = Programs(V, H)
    BY <2>2, SamePrograms
  <2> QED  BY <1>4, <2>3, <2>4, Zenon DEF V, G
<1> QED  BY <1>2, <1>4, <1>6, <1>7

\* A row that does not: a continuation belongs to the last session named, if any.
LEMMA EntryNext ==
    ASSUME NEW n \in Nat, NEW rows, rows[n + 1] \notin {"full", "session"}
    PROVE  /\ Heads(rows, n + 1) = Heads(rows, n)
           /\ Programs(Events(rows, n + 1), Heads(rows, n + 1)) =
                  IF rows[n + 1] = "continuation" /\ LastOf(Heads(rows, n)) # 0
                    THEN Append(Programs(Events(rows, n), Heads(rows, n)),
                                [session |-> LastOf(Heads(rows, n)), event |-> n + 1])
                    ELSE Programs(Events(rows, n), Heads(rows, n))
<1> DEFINE H == Heads(rows, n)
           E == Entries(rows, n)
<1>1. H \in SUBSET (1..n) /\ Events(rows, n) \in SUBSET (1..n)
  BY EventsType
<1>2. Heads(rows, n + 1) = H
  BY AmongNext DEF Heads
<1>3. LastBefore(H, n + 2) = LastOf(H) /\ (n + 1) + 1 = n + 2
  <2>1. LastBefore(H, n + 2) = LastOf(H)
    BY <1>1, LastBeforeNext
  <2>2. (n + 1) + 1 = n + 2
    OBVIOUS
  <2> QED  BY <2>1, <2>2
<1>4. CASE rows[n + 1] # "continuation"
  <2>1. Entries(rows, n + 1) = E
    BY <1>4, AmongNext DEF Entries
  <2>2. Events(rows, n + 1) = Events(rows, n)
    BY <1>2, <2>1 DEF Events
  <2> QED  BY <1>2, <1>4, <2>2
<1>5. CASE rows[n + 1] = "continuation"
  <2>1. Entries(rows, n + 1) = E \cup {n + 1}
    BY <1>5, AmongNext DEF Entries
  <2>2. CASE LastOf(H) = 0
    <3>1. Events(rows, n + 1) = Events(rows, n)
      BY <1>2, <1>3, <2>1, <2>2, Zenon DEF Events
    <3> QED  BY <1>2, <2>2, <3>1
  <2>3. CASE LastOf(H) # 0
    <3>1. Events(rows, n + 1) = Events(rows, n) \cup {n + 1}
      BY <1>2, <1>3, <2>1, <2>3, Zenon DEF Events
    <3>2. Programs(Events(rows, n) \cup {n + 1}, H) =
              Append(Programs(Events(rows, n), H), [session |-> LastOf(H), event |-> n + 1])
      BY <1>1, <1>3, ProgramsNext
    <3> QED  BY <1>2, <1>5, <2>3, <3>1, <3>2
  <2> QED  BY <2>2, <2>3
<1> QED  BY <1>2, <1>4, <1>5

LEMMA FirstNext ==
    ASSUME NEW n \in Nat, NEW rows, NEW kind
    PROVE  FirstOf(Among(rows, n + 1, {kind})) =
               IF rows[n + 1] = kind /\ FirstOf(Among(rows, n, {kind})) = 0
                 THEN n + 1 ELSE FirstOf(Among(rows, n, {kind}))
<1>1. Among(rows, n, {kind}) \in SUBSET (1..n)
  BY AmongNext
<1>2. FirstOf(Among(rows, n, {kind}) \cup {n + 1}) =
          IF FirstOf(Among(rows, n, {kind})) = 0 THEN n + 1 ELSE FirstOf(Among(rows, n, {kind}))
  BY <1>1, FirstOfNext
<1> QED  BY <1>2, AmongNext

LEMMA StarpointNext ==
    ASSUME NEW n \in Nat, NEW rows, NEW a, StarpointMeans(a, rows, n)
    PROVE  StarpointMeans(StarpointRow(a, rows[n + 1], n + 1), rows, n + 1)
<1> DEFINE kind == rows[n + 1]
           b == StarpointRow(a, kind, n + 1)
           P == Programs(Events(rows, n), Heads(rows, n))
           Q == Programs(Events(rows, n + 1), Heads(rows, n + 1))
           l == LastOf(Heads(rows, n))
           av == FirstOf(Among(rows, n, {"average"}))
           tot == FirstOf(Among(rows, n, {"total"}))
<1>1. PICK p : a = [programs |-> P, last |-> l, average |-> av, total |-> tot, panic |-> p]
  BY DEF StarpointMeans
<1>2. FirstOf(Among(rows, n + 1, {"average"})) = IF kind = "average" /\ av = 0 THEN n + 1 ELSE av
  BY FirstNext
<1>3. FirstOf(Among(rows, n + 1, {"total"})) = IF kind = "total" /\ tot = 0 THEN n + 1 ELSE tot
  BY FirstNext
<1>4. CASE kind \in {"full", "session"}
  <2>1. Q = Append(P, [session |-> n + 1, event |-> n + 1]) /\ LastOf(Heads(rows, n + 1)) = n + 1
    BY <1>4, HeadNext
  <2> HIDE DEF P, Q, l, av, tot
  <2>2. b = [programs |-> Q, last |-> n + 1, average |-> av, total |-> tot, panic |-> p]
    BY <1>1, <1>4, <2>1 DEF StarpointRow
  <2> QED  BY <1>2, <1>3, <1>4, <2>1, <2>2 DEF StarpointMeans, Q
<1>5. CASE kind \notin {"full", "session"}
  <2>1. /\ LastOf(Heads(rows, n + 1)) = l
        /\ Q = IF kind = "continuation" /\ l # 0
                 THEN Append(P, [session |-> l, event |-> n + 1]) ELSE P
    BY <1>5, EntryNext
  <2> HIDE DEF P, Q, l, av, tot
  <2>2. b = [programs |-> Q, last |-> l,
             average |-> IF kind = "average" /\ av = 0 THEN n + 1 ELSE av,
             total |-> IF kind = "total" /\ tot = 0 THEN n + 1 ELSE tot,
             panic |-> b.panic]
    <3>1. CASE kind = "continuation" /\ l # 0
      BY <1>1, <2>1, <3>1 DEF StarpointRow
    <3>2. CASE kind = "average" /\ av = 0
      BY <1>1, <2>1, <3>2 DEF StarpointRow
    <3>3. CASE kind = "total" /\ tot = 0
      BY <1>1, <2>1, <3>3 DEF StarpointRow
    <3>4. CASE (kind = "bare-average" /\ av = 0) \/ (kind = "bare-total" /\ tot = 0)
      BY <1>1, <2>1, <3>4 DEF StarpointRow
    <3>5. CASE /\ ~(kind = "continuation" /\ l # 0)
               /\ ~(kind = "average" /\ av = 0)
               /\ ~(kind = "total" /\ tot = 0)
               /\ ~(kind = "bare-average" /\ av = 0) /\ ~(kind = "bare-total" /\ tot = 0)
      BY <1>1, <1>5, <2>1, <3>5 DEF StarpointRow
    <3> QED  BY <3>1, <3>2, <3>3, <3>4, <3>5
  <2> QED  BY <1>2, <1>3, <2>1, <2>2 DEF StarpointMeans, Q
<1> QED  BY <1>4, <1>5

(***************************************************************************)
(* Carry marks.  Whether append moves to a new array or writes into the    *)
(* one it has, which may hold subjects of an earlier attempt: the slice    *)
(* shows what it showed, and the new subject behind it.                    *)
(***************************************************************************)
Subject == [code : Nat, components : Seq(Nat)]

Slice(a) ==
    /\ a \in [heap : Seq(Seq(Subject)), arr : Nat, len : Nat,
              current : [arr : Nat, index : Nat], session : Nat]
    /\ a.arr > 0 /\ a.arr = Len(a.heap)
    /\ a.len <= Len(a.heap[a.arr])

LEMMA AppendedShows ==
    ASSUME NEW a, Slice(a), NEW subject \in Subject
    PROVE  /\ Slice(Appended(a, subject))
           /\ Appended(a, subject).len = a.len + 1
           /\ Appended(a, subject).session = a.session
           /\ LET b == Appended(a, subject) IN
                /\ \A k \in 1..a.len : b.heap[b.arr][k] = a.heap[a.arr][k]
                /\ b.heap[b.arr][a.len + 1] = subject
<1> DEFINE old == a.heap[a.arr]
           kept == Append(Shown(a), subject)
           rest == SubSeq(old, a.len + 2, Len(old))
           b == Appended(a, subject)
<1>1. /\ a.heap \in Seq(Seq(Subject)) /\ a.arr \in Nat /\ a.len \in Nat
      /\ a.current \in [arr : Nat, index : Nat] /\ a.session \in Nat
      /\ a.arr \in 1..Len(a.heap) /\ a.arr = Len(a.heap) /\ Len(a.heap) \in Nat
      /\ a = [heap |-> a.heap, arr |-> a.arr, len |-> a.len, current |-> a.current,
              session |-> a.session]
  BY DEF Slice
<1>2. old \in Seq(Subject) /\ Len(old) \in Nat /\ a.len <= Len(old)
  BY <1>1 DEF Slice
<1>3. \A k \in 1..Len(old) : old[k] \in Subject
  BY <1>2
<1>4. /\ Shown(a) \in Seq(Subject) /\ Len(Shown(a)) = a.len
      /\ \A k \in 1..a.len : Shown(a)[k] = old[k]
  <2>1. \A k \in 1..a.len : old[k] \in Subject
    BY <1>1, <1>2, <1>3
  <2> HIDE DEF old
  <2>2. /\ SubSeq(old, 1, a.len) \in Seq(Subject)
        /\ Len(SubSeq(old, 1, a.len)) = IF 1 <= a.len THEN a.len - 1 + 1 ELSE 0
        /\ \A k \in 1..(a.len - 1 + 1) : SubSeq(old, 1, a.len)[k] = old[1 + k - 1]
    BY <1>1, <2>1, SubSeqProperties
  <2>3. Shown(a) = SubSeq(old, 1, a.len)
    BY DEF Shown, old
  <2> QED  BY <1>1, <2>2, <2>3
<1>5. /\ kept \in Seq(Subject) /\ Len(kept) = a.len + 1
      /\ \A k \in 1..a.len : kept[k] = old[k]
      /\ kept[a.len + 1] = subject
  <2> HIDE DEF old
  <2> QED  BY <1>4, AppendProperties
<1>6. rest \in Seq(Subject) /\ Len(rest) \in Nat
  <2>1. \A k \in (a.len + 2)..Len(old) : old[k] \in Subject
    BY <1>1, <1>2, <1>3
  <2> HIDE DEF old
  <2> QED  BY <1>1, <1>2, <2>1, SubSeqProperties
<1>7. /\ kept \o rest \in Seq(Subject) /\ Len(kept \o rest) = a.len + 1 + Len(rest)
      /\ \A k \in 1..(a.len + 1) : (kept \o rest)[k] = kept[k]
  <2> HIDE DEF kept, rest
  <2>1. /\ kept \o rest \in Seq(Subject)
        /\ Len(kept \o rest) = Len(kept) + Len(rest)
        /\ \A k \in 1..(Len(kept) + Len(rest)) :
              (kept \o rest)[k] = IF k <= Len(kept) THEN kept[k] ELSE rest[k - Len(kept)]
    BY <1>5, <1>6, ConcatProperties
  <2>2. \A k \in 1..(a.len + 1) : k \in 1..(Len(kept) + Len(rest)) /\ k <= Len(kept)
    BY <1>1, <1>5, <1>6
  <2> QED  BY <1>5, <2>1, <2>2, Zenon
<1>8. CASE a.len = Room(a.arr)
  <2>1. b = [heap |-> Append(a.heap, kept), arr |-> a.arr + 1, len |-> a.len + 1,
             current |-> a.current, session |-> a.session]
    BY <1>1, <1>8 DEF Appended
  <2> HIDE DEF b, kept
  <2>2. /\ Append(a.heap, kept) \in Seq(Seq(Subject))
        /\ Len(Append(a.heap, kept)) = a.arr + 1
        /\ Append(a.heap, kept)[a.arr + 1] = kept
    BY <1>1, <1>5, AppendProperties
  <2>3. b.heap[b.arr] = kept
    BY <2>1, <2>2
  <2>4. Slice(b)
    BY <1>1, <1>5, <2>1, <2>2 DEF Slice
  <2>5. /\ \A k \in 1..a.len : b.heap[b.arr][k] = a.heap[a.arr][k]
        /\ b.heap[b.arr][a.len + 1] = subject
    BY <1>5, <2>3, Zenon
  <2>6. b.len = a.len + 1 /\ b.session = a.session
    BY <2>1
  <2> QED  BY <2>4, <2>5, <2>6, Zenon DEF b
<1>9. CASE a.len # Room(a.arr)
  <2> DEFINE new == kept \o rest
             heap == [a.heap EXCEPT ![a.arr] = new]
  <2>1. b = [heap |-> heap, arr |-> a.arr, len |-> a.len + 1,
             current |-> a.current, session |-> a.session]
    BY <1>1, <1>9 DEF Appended
  <2>2. new \in Seq(Subject) /\ Len(new) >= a.len + 1
    BY <1>1, <1>6, <1>7
  <2>3. \A k \in 1..(a.len + 1) : new[k] = kept[k]
    BY <1>7
  <2> HIDE DEF new
  <2>4. heap \in Seq(Seq(Subject)) /\ Len(heap) = Len(a.heap) /\ heap[a.arr] = new
    BY <1>1, <2>2
  <2> HIDE DEF b, kept, heap
  <2>5. b.heap[b.arr] = new
    BY <2>1, <2>4
  <2>6. Slice(b)
    BY <1>1, <2>1, <2>2, <2>4 DEF Slice
  <2>7. /\ \A k \in 1..a.len : b.heap[b.arr][k] = a.heap[a.arr][k]
        /\ b.heap[b.arr][a.len + 1] = subject
    <3>1. a.len + 1 \in 1..(a.len + 1) /\ \A k \in 1..a.len : k \in 1..(a.len + 1)
      BY <1>1
    <3> QED  BY <1>5, <2>3, <2>5, <3>1, Zenon
  <2>8. b.len = a.len + 1 /\ b.session = a.session
    BY <2>1
  <2> QED  BY <2>6, <2>7, <2>8, Zenon DEF b
<1> QED  BY <1>8, <1>9

(***************************************************************************)
(* The subjects so far, each with the components that follow it.           *)
(***************************************************************************)
Subjects(rows, n) == Among(rows, n, {"subject"})
Parts(rows, n, s) ==
    {c \in Among(rows, n, {"component"}) : LastBefore(Subjects(rows, n), c) = s}
Group(rows, n, s) == [code |-> s, components |-> Ascending(Parts(rows, n, s))]

CarryMarkMeans(a, rows, n) ==
    /\ Slice(a)
    /\ a.len = Cardinality(Subjects(rows, n))
    /\ a.current = IF Subjects(rows, n) = {} THEN Nil ELSE [arr |-> a.arr, index |-> a.len]
    /\ a.session = FirstOf(Among(rows, n, {"script"}))
    /\ \A k \in 1..a.len :
          a.heap[a.arr][k] = Group(rows, n, Ascending(Subjects(rows, n))[k])

LEMMA LastIsOne ==
    ASSUME NEW n \in Nat, NEW S \in SUBSET (1..n)
    PROVE  S # {} => LastOf(S) \in S
<1>1. Sorted(S)
  BY AscendingIsTheOrder
<1>2. S # {} => Cardinality(S) \in 1..Cardinality(S)
  BY <1>1 DEF Sorted
<1> QED  BY <1>1, <1>2 DEF Sorted

LEMMA PartsAfterSubject ==
    ASSUME NEW n \in Nat, NEW rows, rows[n + 1] = "subject"
    PROVE  /\ \A s \in Subjects(rows, n) : Group(rows, n + 1, s) = Group(rows, n, s)
           /\ Group(rows, n + 1, n + 1) = [code |-> n + 1, components |-> <<>>]
<1> DEFINE S == Subjects(rows, n)
           C == Among(rows, n, {"component"})
<1>1. S \in SUBSET (1..n) /\ C \in SUBSET (1..n)
  BY AmongNext DEF Subjects
<1>2. Subjects(rows, n + 1) = S \cup {n + 1} /\ Among(rows, n + 1, {"component"}) = C
  BY AmongNext DEF Subjects
<1>3. \A c \in C : LastBefore(S \cup {n + 1}, c) = LastBefore(S, c)
  <2>1. \A m \in 1..(n + 1) : LastBefore(S \cup {n + 1}, m) = LastBefore(S, m)
    BY <1>1, LastBeforeNext
  <2>2. \A c \in C : c \in 1..(n + 1)
    BY <1>1
  <2> HIDE DEF S, C
  <2> QED  BY <2>1, <2>2
<1>4. \A s : Parts(rows, n + 1, s) = Parts(rows, n, s)
  BY <1>2, <1>3, Zenon DEF Parts
<1>5. \A c \in C : LastBefore(S, c) # n + 1
  <2> SUFFICES ASSUME NEW c \in C PROVE LastBefore(S, c) # n + 1
    OBVIOUS
  <2>1. Below(S, c) \in SUBSET (1..n)
    BY <1>1 DEF Below
  <2>2. CASE Below(S, c) = {}
    <3>1. n + 1 # 0
      OBVIOUS
    <3> QED  BY <2>2, <3>1, LastOfNone DEF LastBefore
  <2>3. CASE Below(S, c) # {}
    <3>1. LastBefore(S, c) \in 1..n
      BY <2>1, <2>3, LastIsOne DEF LastBefore
    <3> QED  BY <3>1
  <2> QED  BY <2>2, <2>3
<1>6. Parts(rows, n, n + 1) = {}
  BY <1>5, Zenon DEF Parts
<1> QED  BY <1>4, <1>6, AscendingNone DEF Group

LEMMA PartsAfterComponent ==
    ASSUME NEW n \in Nat, NEW rows, rows[n + 1] = "component"
    PROVE  /\ Subjects(rows, n + 1) = Subjects(rows, n)
           /\ Group(rows, n + 1, LastOf(Subjects(rows, n))) =
                  [code |-> LastOf(Subjects(rows, n)),
                   components |-> Append(Group(rows, n, LastOf(Subjects(rows, n))).components,
                                         n + 1)]
           /\ \A s : s # LastOf(Subjects(rows, n)) => Group(rows, n + 1, s) = Group(rows, n, s)
<1> DEFINE S == Subjects(rows, n)
           C == Among(rows, n, {"component"})
           l == LastOf(S)
<1>1. S \in SUBSET (1..n) /\ C \in SUBSET (1..n)
  BY AmongNext DEF Subjects
<1>2. Subjects(rows, n + 1) = S
  BY AmongNext DEF Subjects
<1>3. Among(rows, n + 1, {"component"}) = C \cup {n + 1}
  BY AmongNext
<1>4. LastBefore(S, n + 1) = l
  BY <1>1, LastBeforeNext
<1>5. Parts(rows, n + 1, l) = Parts(rows, n, l) \cup {n + 1}
  BY <1>2, <1>3, <1>4, Zenon DEF Parts
<1>6. \A s : s # l => Parts(rows, n + 1, s) = Parts(rows, n, s)
  BY <1>2, <1>3, <1>4, Zenon DEF Parts
<1>7. Ascending(Parts(rows, n, l) \cup {n + 1}) = Append(Ascending(Parts(rows, n, l)), n + 1)
  <2>1. Parts(rows, n, l) \in SUBSET (1..n)
    BY <1>1 DEF Parts
  <2> QED  BY <2>1, AscendingAppend
<1> HIDE DEF l, S, C
<1>8. Group(rows, n + 1, l) =
          [code |-> l, components |-> Append(Group(rows, n, l).components, n + 1)]
  BY <1>5, <1>7 DEF Group
<1>9. \A s : s # l => Group(rows, n + 1, s) = Group(rows, n, s)
  BY <1>6, Zenon DEF Group
<1> QED  BY <1>2, <1>8, <1>9, Zenon DEF l, S

LEMMA PartsAfterOther ==
    ASSUME NEW n \in Nat, NEW rows, rows[n + 1] \notin {"subject", "component"}
    PROVE  /\ Subjects(rows, n + 1) = Subjects(rows, n)
           /\ \A s : Group(rows, n + 1, s) = Group(rows, n, s)
<1>1. Subjects(rows, n + 1) = Subjects(rows, n)
  BY AmongNext DEF Subjects
<1>2. Among(rows, n + 1, {"component"}) = Among(rows, n, {"component"})
  BY AmongNext
<1> QED  BY <1>1, <1>2, Zenon DEF Group, Parts

LEMMA SubjectNext ==
    ASSUME NEW n \in Nat, NEW rows, NEW a, CarryMarkMeans(a, rows, n), rows[n + 1] = "subject"
    PROVE  CarryMarkMeans(CarryMarkRow(a, "subject", n + 1), rows, n + 1)
<1> DEFINE S == Subjects(rows, n)
           T == S \cup {n + 1}
           subject == [code |-> n + 1, components |-> <<>>]
           b == Appended(a, subject)
           d == [b EXCEPT !.current = [arr |-> b.arr, index |-> b.len]]
<1>1. S \in SUBSET (1..n) /\ Subjects(rows, n + 1) = T
  BY AmongNext DEF Subjects
<1>2. subject \in Subject
  BY DEF Subject
<1>3. Slice(a) /\ a.len = Cardinality(S) /\ a.len \in Nat
  BY DEF CarryMarkMeans, Slice
<1>4. /\ Slice(b) /\ b.len = a.len + 1 /\ b.session = a.session
      /\ \A k \in 1..a.len : b.heap[b.arr][k] = a.heap[a.arr][k]
      /\ b.heap[b.arr][a.len + 1] = subject
  <2> HIDE DEF subject
  <2> QED  BY <1>2, <1>3, AppendedShows DEF b
<1>5. /\ Cardinality(T) = a.len + 1
      /\ Ascending(T) = [k \in 1..(a.len + 1) |->
                            IF k <= a.len THEN Ascending(S)[k] ELSE n + 1]
  BY <1>1, <1>3, AscendingNext
<1>6. \A k \in 1..a.len : Ascending(S)[k] \in S
  BY <1>1, <1>3, AscendingIsTheOrder DEF Sorted
<1>7. FirstOf(Among(rows, n + 1, {"script"})) = a.session
  BY FirstNext DEF CarryMarkMeans
<1>8. /\ \A s \in S : Group(rows, n + 1, s) = Group(rows, n, s)
      /\ Group(rows, n + 1, n + 1) = subject
  BY PartsAfterSubject
<1>9. CarryMarkRow(a, "subject", n + 1) = d
  BY DEF CarryMarkRow
<1> HIDE DEF b, subject
<1>10. /\ Slice(d) /\ d.len = a.len + 1 /\ d.session = a.session
       /\ d.current = [arr |-> d.arr, index |-> d.len]
       /\ d.heap = b.heap /\ d.arr = b.arr
  BY <1>4 DEF Slice
<1> HIDE DEF d, S
<1>11. ASSUME NEW k \in 1..(a.len + 1)
       PROVE  d.heap[d.arr][k] = Group(rows, n + 1, Ascending(T)[k])
  <2>1. CASE k <= a.len
    <3>1. k \in 1..a.len
      BY <1>3, <2>1
    <3>2. d.heap[d.arr][k] = Group(rows, n, Ascending(S)[k])
      BY <1>4, <1>10, <3>1 DEF CarryMarkMeans, S
    <3>3. Ascending(T)[k] = Ascending(S)[k]
      BY <1>5, <2>1
    <3> QED  BY <1>6, <1>8, <3>1, <3>2, <3>3
  <2>2. CASE ~(k <= a.len)
    <3>1. k = a.len + 1
      BY <1>3, <2>2
    <3>2. Ascending(T)[k] = n + 1
      BY <1>5, <2>2
    <3> QED  BY <1>4, <1>8, <1>10, <3>1, <3>2
  <2> QED  BY <2>1, <2>2
<1>12. T # {}
  OBVIOUS
<1> HIDE DEF T
<1> QED  BY <1>1, <1>5, <1>7, <1>9, <1>10, <1>11, <1>12 DEF CarryMarkMeans

LEMMA ComponentNext ==
    ASSUME NEW n \in Nat, NEW rows, NEW a, CarryMarkMeans(a, rows, n), rows[n + 1] = "component"
    PROVE  CarryMarkMeans(CarryMarkRow(a, "component", n + 1), rows, n + 1)
<1> DEFINE S == Subjects(rows, n)
           l == LastOf(S)
<1>1. S \in SUBSET (1..n) /\ Subjects(rows, n + 1) = S
  BY AmongNext DEF Subjects
<1>2. /\ Slice(a) /\ a.len = Cardinality(S) /\ a.len \in Nat
      /\ a.current = IF S = {} THEN Nil ELSE [arr |-> a.arr, index |-> a.len]
      /\ \A k \in 1..a.len : a.heap[a.arr][k] = Group(rows, n, Ascending(S)[k])
  BY DEF CarryMarkMeans, Slice
<1>3. FirstOf(Among(rows, n + 1, {"script"})) = a.session
  BY FirstNext DEF CarryMarkMeans
<1>4. Sorted(S)
  BY <1>1, AscendingIsTheOrder
<1>5. CASE S = {}
  <2>1. a.len = 0 /\ 1..0 = {}
    BY <1>2, <1>5, FS_EmptySet
  <2>2. CarryMarkRow(a, "component", n + 1) = a
    BY <1>2, <1>5 DEF CarryMarkRow
  <2> QED  BY <1>1, <1>2, <1>3, <1>5, <2>1, <2>2, Zenon DEF CarryMarkMeans
<1>6. CASE S # {}
  <2> DEFINE old == a.heap[a.arr]
             entry == old[a.len]
             subject == [entry EXCEPT !.components = Append(@, n + 1)]
             new == [old EXCEPT ![a.len] = subject]
             heap == [a.heap EXCEPT ![a.arr] = new]
             d == [a EXCEPT !.heap = heap]
  <2>1. a.len > 0 /\ Ascending(S)[a.len] = l
    BY <1>2, <1>4, <1>6 DEF Sorted
  <2>2. /\ a.heap \in Seq(Seq(Subject)) /\ a.arr \in 1..Len(a.heap) /\ a.arr = Len(a.heap)
        /\ a.arr > 0
    BY <1>2 DEF Slice
  <2>3. old \in Seq(Subject) /\ a.len \in 1..Len(old)
    BY <1>2, <2>1, <2>2 DEF Slice
  <2>4. entry \in Subject
    BY <2>3
  <2>5. entry = Group(rows, n, l)
    BY <1>2, <2>1
  <2> HIDE DEF old, entry
  <2>6. /\ subject = [code |-> entry.code, components |-> Append(entry.components, n + 1)]
        /\ subject \in Subject
    <3>1. entry.code \in Nat /\ entry.components \in Seq(Nat) /\ n + 1 \in Nat
      BY <2>4 DEF Subject
    <3>2. Append(entry.components, n + 1) \in Seq(Nat)
      BY <3>1, AppendProperties
    <3> DEFINE more == Append(entry.components, n + 1)
    <3>3. subject = [code |-> entry.code, components |-> more]
      <4>1. subject = [entry EXCEPT !.components = more]
        OBVIOUS
      <4> HIDE DEF more, subject
      <4> QED  BY <2>4, <4>1 DEF Subject
    <3> HIDE DEF subject
    <3> QED  BY <3>1, <3>2, <3>3 DEF Subject
  <2>7. subject = Group(rows, n + 1, l)
    <3>1. Group(rows, n + 1, l) =
             [code |-> l, components |-> Append(Group(rows, n, l).components, n + 1)]
      BY PartsAfterComponent
    <3>2. entry.code = l /\ entry.components = Group(rows, n, l).components
      BY <2>5 DEF Group
    <3> HIDE DEF l, subject
    <3> QED  BY <2>6, <3>1, <3>2, Zenon
  <2> HIDE DEF subject
  <2>8. /\ new \in Seq(Subject) /\ Len(new) = Len(old) /\ new[a.len] = subject
        /\ \A k \in 1..a.len : k # a.len => new[k] = old[k]
    BY <2>3, <2>6
  <2> HIDE DEF new
  <2>9. heap \in Seq(Seq(Subject)) /\ Len(heap) = Len(a.heap) /\ heap[a.arr] = new
    BY <2>2, <2>8
  <2>10. CarryMarkRow(a, "component", n + 1) = d
    <3>1. a.current # Nil /\ a.current.arr = a.arr /\ a.current.index = a.len
      BY <1>2, <1>6, <2>2 DEF Nil
    <3> QED  BY <3>1 DEF CarryMarkRow, heap, new, subject, entry, old
  <2> HIDE DEF heap
  <2>11. /\ Slice(d) /\ d.heap = heap /\ d.arr = a.arr /\ d.len = a.len
         /\ d.current = a.current /\ d.session = a.session
    BY <1>2, <2>3, <2>8, <2>9 DEF Slice, old
  <2>12. ASSUME NEW k \in 1..a.len
         PROVE  new[k] = Group(rows, n + 1, Ascending(S)[k])
    <3>1. CASE k = a.len
      BY <2>1, <2>7, <2>8, <3>1
    <3>2. CASE k # a.len
      <4>1. Ascending(S)[k] # l
        <5>1. k < a.len /\ a.len \in 1..a.len
          BY <1>2, <2>1, <3>2
        <5>2. Ascending(S)[k] < Ascending(S)[a.len]
          BY <1>2, <1>4, <5>1 DEF Sorted
        <5>3. Ascending(S)[k] \in Nat
          BY <1>1, <1>2, <1>4 DEF Sorted
        <5> QED  BY <2>1, <5>2, <5>3
      <4>2. Group(rows, n + 1, Ascending(S)[k]) = Group(rows, n, Ascending(S)[k])
        BY <4>1, PartsAfterComponent
      <4> QED  BY <1>2, <2>8, <3>2, <4>2 DEF old
    <3> QED  BY <3>1, <3>2
  <2> HIDE DEF d, S
  <2> QED  BY <1>1, <1>2, <1>3, <2>9, <2>10, <2>11, <2>12 DEF CarryMarkMeans
<1> QED  BY <1>5, <1>6

LEMMA CarryMarkNext ==
    ASSUME NEW n \in Nat, NEW rows, NEW a, CarryMarkMeans(a, rows, n)
    PROVE  CarryMarkMeans(CarryMarkRow(a, rows[n + 1], n + 1), rows, n + 1)
<1> DEFINE kind == rows[n + 1]
           d == CarryMarkRow(a, kind, n + 1)
<1>1. CASE kind = "subject"
  BY <1>1, SubjectNext
<1>2. CASE kind = "component"
  BY <1>2, ComponentNext
<1>3. CASE kind \notin {"subject", "component"}
  <2>1. /\ Subjects(rows, n + 1) = Subjects(rows, n)
        /\ \A s : Group(rows, n + 1, s) = Group(rows, n, s)
    BY <1>3, PartsAfterOther
  <2>2. FirstOf(Among(rows, n + 1, {"script"})) =
           IF kind = "script" /\ a.session = 0 THEN n + 1 ELSE a.session
    BY FirstNext DEF CarryMarkMeans
  <2>3. d = IF kind = "script" /\ a.session = 0 THEN [a EXCEPT !.session = n + 1] ELSE a
    BY <1>3 DEF CarryMarkRow
  <2>4. /\ Slice(d) /\ d.heap = a.heap /\ d.arr = a.arr /\ d.len = a.len
        /\ d.current = a.current
        /\ d.session = IF kind = "script" /\ a.session = 0 THEN n + 1 ELSE a.session
    BY <2>3 DEF CarryMarkMeans, Slice
  <2> HIDE DEF d
  <2>5. CarryMarkMeans(d, rows, n + 1)
    BY <2>1, <2>2, <2>4, Zenon DEF CarryMarkMeans
  <2> QED  BY <2>5 DEF d
<1> QED  BY <1>1, <1>2, <1>3

(***************************************************************************)
(* The invariant: after i rows of the page of the attempt, the             *)
(* accumulators are what those rows mean.  A retry begins with the page    *)
(* that follows, at its first row, and with clean accumulators.            *)
(***************************************************************************)
PagesInv ==
    /\ handler \in Handlers
    /\ pages \in Seq([rows : Seq(RowKinds(handler)), form : BOOLEAN])
    /\ attempt \in {1, 2} /\ attempt \in 1..Len(pages)
    /\ pages[1].form => Len(pages) = 2
    /\ i \in 0..Len(Rows)
    /\ outcome = "ok" => i = Len(Rows)

Means(a, rows, n) ==
    /\ handler \in Listings => ListingMeans(a, rows, n)
    /\ handler = "result" => ResultMeans(a, rows, n)
    /\ handler = "starpoint" => StarpointMeans(a, rows, n)
    /\ handler = "carry-mark" => CarryMarkMeans(a, rows, n)

Inv == PagesInv /\ Means(acc, Rows, i)

LEMMA NothingMeans ==
    ASSUME handler \in Handlers, NEW rows, NEW a,
           handler = "carry-mark" => Slice(a)
    PROVE  Means(Reset(handler, a), rows, 0)
<1>1. \A kinds : Among(rows, 0, kinds) = {}
  BY AmongNone
<1>2. CASE handler \in Listings \cup {"result"}
  BY <1>1, <1>2, AscendingNone, LastOfNone
     DEF Means, ListingMeans, ResultMeans, Reset, NewAccumulators, Listings
<1>3. CASE handler = "starpoint"
  <2>1. Heads(rows, 0) = {} /\ Events(rows, 0) = {}
    BY <1>1 DEF Heads, Events, Entries
  <2>2. Programs({}, {}) = <<>>
    BY AscendingNone DEF Programs
  <2> QED
    BY <1>1, <1>3, <2>1, <2>2, FirstOfNone, LastOfNone
       DEF Means, StarpointMeans, Reset, NewAccumulators, Listings
<1>4. CASE handler = "carry-mark"
  <2> DEFINE b == Reset(handler, a)
  <2>1. /\ Slice(b) /\ b.len = 0 /\ b.current = Nil /\ b.session = 0
    <3>1. Slice(a) /\ b = [a EXCEPT !.len = 0, !.current = Nil, !.session = 0]
      BY <1>4 DEF Reset
    <3>2. /\ a = [heap |-> a.heap, arr |-> a.arr, len |-> a.len, current |-> a.current,
                  session |-> a.session]
          /\ a.heap \in Seq(Seq(Subject)) /\ a.arr \in Nat /\ a.arr > 0
          /\ a.arr = Len(a.heap) /\ Len(a.heap[a.arr]) \in Nat
      BY <3>1 DEF Slice
    <3>3. b = [heap |-> a.heap, arr |-> a.arr, len |-> 0, current |-> Nil, session |-> 0]
      BY <3>1, <3>2
    <3>4. Nil \in [arr : Nat, index : Nat]
      BY DEF Nil
    <3> HIDE DEF b
    <3> QED  BY <3>2, <3>3, <3>4 DEF Slice
  <2>2. Subjects(rows, 0) = {} /\ Cardinality({}) = 0
    BY <1>1, FS_EmptySet DEF Subjects
  <2>3. \A k \in 1..0 : FALSE
    OBVIOUS
  <2> HIDE DEF b
  <2>4. CarryMarkMeans(b, rows, 0)
    BY <1>1, <2>1, <2>2, <2>3, FirstOfNone DEF CarryMarkMeans
  <2> QED  BY <1>4, <2>4 DEF Means, b, Listings
<1> QED  BY <1>2, <1>3, <1>4 DEF Handlers, Listings

LEMMA NewSlice == Slice(NewAccumulators("carry-mark"))
<1> DEFINE heap == <<<<>>>>
           a == [heap |-> heap, arr |-> 1, len |-> 0, current |-> Nil, session |-> 0]
<1>1. heap \in Seq(Seq(Subject)) /\ Len(heap) = 1 /\ Len(heap[1]) = 0
  OBVIOUS
<1>2. NewAccumulators("carry-mark") = a
  BY DEF NewAccumulators, Listings
<1>3. Nil \in [arr : Nat, index : Nat]
  BY DEF Nil
<1> HIDE DEF heap
<1>4. Slice(a)
  BY <1>1, <1>3 DEF Slice
<1> QED  BY <1>2, <1>4

LEMMA InitInv == Init => Inv
<1> SUFFICES ASSUME Init PROVE Inv
  OBVIOUS
<1> DEFINE K == RowKinds(handler)
<1>1. handler \in Handlers /\ attempt = 1 /\ i = 0 /\ outcome = "none"
      /\ acc = Reset(handler, NewAccumulators(handler))
  BY DEF Init
<1>2. \A n \in Nat : RowSeqs(handler, n) \subseteq Seq(K)
  BY DEF RowSeqs
<1>3. /\ pages \in Seq([rows : Seq(K), form : BOOLEAN])
      /\ 1 \in 1..Len(pages) /\ (pages[1].form => Len(pages) = 2)
  <2> HIDE DEF K
  <2>1. CASE \E rows \in RowSeqs(handler, MaxRows) : pages = <<[rows |-> rows, form |-> FALSE]>>
    BY <1>2, <2>1, RowParsersAssumption
  <2>2. CASE \E first \in RowSeqs(handler, MaxFirstRows), rows \in RowSeqs(handler, MaxRows - 1),
                form \in BOOLEAN :
               pages = <<[rows |-> first, form |-> TRUE], [rows |-> rows, form |-> form]>>
    <3>1. PICK first \in RowSeqs(handler, MaxFirstRows), rows \in RowSeqs(handler, MaxRows - 1),
               form \in BOOLEAN :
               pages = <<[rows |-> first, form |-> TRUE], [rows |-> rows, form |-> form]>>
      BY <2>2
    <3>2. first \in Seq(K) /\ rows \in Seq(K)
      BY <1>2, RowParsersAssumption DEF RowSeqs, K
    <3> QED  BY <3>1, <3>2
  <2> QED  BY <2>1, <2>2 DEF Init
<1>4. Rows \in Seq(K) /\ Len(Rows) \in Nat
  <2> DEFINE R == [rows : Seq(K), form : BOOLEAN]
  <2>1. pages[1] \in R
    <3>1. pages \in Seq(R) /\ 1 \in 1..Len(pages)
      BY <1>3
    <3> HIDE DEF R
    <3> QED  BY <3>1
  <2>2. Rows \in Seq(K)
    <3> HIDE DEF K
    <3> QED  BY <1>1, <2>1 DEF Rows
  <2> QED  BY <2>2
<1>5. Means(acc, Rows, 0)
  BY <1>1, NothingMeans, NewSlice
<1> QED  BY <1>1, <1>3, <1>4, <1>5 DEF Inv, PagesInv

LEMMA RowMeans ==
    ASSUME handler \in Handlers, NEW n \in Nat, NEW rows, NEW a, Means(a, rows, n),
           rows[n + 1] \in RowKinds(handler)
    PROVE  Means(Row(a, rows[n + 1], n + 1), rows, n + 1)
<1>1. CASE handler = "final-exam"
  BY <1>1, ListingNext DEF Means, Row, Listings
<1>2. CASE handler = "disciplinary"
  BY <1>2, ListingNext DEF Means, Row, Listings
<1>3. CASE handler = "result"
  BY <1>3, ResultNext DEF Means, Row, Listings
<1>4. CASE handler = "starpoint"
  BY <1>4, StarpointNext DEF Means, Row, Listings
<1>5. CASE handler = "carry-mark"
  BY <1>5, CarryMarkNext DEF Means, Row, Listings
<1> QED  BY <1>1, <1>2, <1>3, <1>4, <1>5 DEF Handlers, Listings

LEMMA NextInv == Inv /\ [Next]_vars => Inv'
<1> SUFFICES ASSUME Inv, [Next]_vars PROVE Inv'
  OBVIOUS
<1> DEFINE R == [rows : Seq(RowKinds(handler)), form : BOOLEAN]
<1>1. /\ \A p \in 1..Len(pages) : pages[p] \in R
      /\ Rows \in Seq(RowKinds(handler)) /\ i \in Nat
  <2>1. pages \in Seq(R) /\ attempt \in 1..Len(pages) /\ i \in 0..Len(Rows)
    BY DEF Inv, PagesInv
  <2>2. \A p \in 1..Len(pages) : pages[p] \in R
    <3> HIDE DEF R
    <3> QED  BY <2>1
  <2>3. Rows \in Seq(RowKinds(handler))
    BY <2>1, <2>2 DEF Rows
  <2>4. Len(Rows) \in Nat
    BY <2>3
  <2> QED  BY <2>1, <2>2, <2>3, <2>4
<1>2. CASE ReadRow
  <2>1. /\ i < Len(Rows) /\ i' = i + 1 /\ acc' = Row(acc, Rows[i + 1], i + 1)
        /\ UNCHANGED <<handler, pages, attempt, outcome>> /\ outcome = "none"
    BY <1>2 DEF ReadRow, Page, Rows
  <2>2. Rows[i + 1] \in RowKinds(handler) /\ i + 1 \in 0..Len(Rows)
    BY <1>1, <2>1
  <2>3. Rows' = Rows
    BY <2>1 DEF Rows
  <2>4. Means(Row(acc, Rows[i + 1], i + 1), Rows, i + 1)
    BY <1>1, <2>2, RowMeans DEF Inv, PagesInv
  <2>5. Means(acc, Rows, i)'
    BY <2>1, <2>3, <2>4, Zenon DEF Means
  <2>6. PagesInv'
    BY <2>1, <2>2, <2>3 DEF Inv, PagesInv
  <2> QED  BY <2>5, <2>6 DEF Inv
<1>3. CASE Retry
  <2>1. /\ attempt = 1 /\ pages[1].form /\ attempt' = 2 /\ i' = 0 /\ outcome = "none"
        /\ acc' = Reset(handler, acc) /\ UNCHANGED <<handler, pages, outcome>>
    BY <1>3 DEF Retry, PageRead, Page
  <2>2. /\ Len(pages) = 2 /\ Rows' = pages[2].rows
        /\ Rows' \in Seq(RowKinds(handler)) /\ Len(Rows') \in Nat
    <3>1. Len(pages) = 2 /\ Rows' = pages[2].rows
      BY <2>1 DEF Inv, PagesInv, Rows
    <3>2. pages[2] \in R
      BY <1>1, <3>1
    <3>3. Rows' \in Seq(RowKinds(handler))
      BY <3>1, <3>2
    <3> QED  BY <3>1, <3>3
  <2>3. Means(Reset(handler, acc), Rows', 0)
    <3>1. handler \in Handlers /\ (handler = "carry-mark" => Slice(acc))
      BY DEF Inv, PagesInv, Means, CarryMarkMeans
    <3> QED  BY <3>1, NothingMeans
  <2>4. Means(acc, Rows, i)'
    BY <2>1, <2>3, Zenon DEF Means
  <2>5. PagesInv'
    BY <2>1, <2>2 DEF Inv, PagesInv
  <2> QED  BY <2>4, <2>5 DEF Inv
<1>4. ASSUME UNCHANGED <<handler, pages, attempt, i, acc>>, outcome' = "ok" => i = Len(Rows)
      PROVE  Inv'
  <2>1. Rows' = Rows
    BY <1>4 DEF Rows
  <2>2. Means(acc, Rows, i)'
    BY <1>4, <2>1, Zenon DEF Inv, Means
  <2> QED  BY <1>4, <2>1, <2>2 DEF Inv, PagesInv
<1>5. CASE Finish
  BY <1>4, <1>5 DEF Finish, PageRead, Page, Rows
<1>6. CASE Fail \/ Recover
  BY <1>4, <1>6 DEF Fail, Recover
<1>7. CASE UNCHANGED vars
  BY <1>4, <1>7 DEF vars, Inv, PagesInv
<1> QED  BY <1>2, <1>3, <1>5, <1>6, <1>7 DEF Next

LEMMA Invariance == Spec => []Inv
  BY InitInv, NextInv, PTL DEF Spec

(***************************************************************************)
(* What is served is what the whole page means.                            *)
(***************************************************************************)
LEMMA WholePage ==
    ASSUME Inv, outcome = "ok"
    PROVE  /\ \A kinds : Where(kinds) = Among(Rows, i, kinds)
           /\ Means(acc, Rows, i)
<1>1. DOMAIN Rows = 1..i
  BY DEF Inv, PagesInv, Rows
<1>2. \A kinds : Where(kinds) = Among(Rows, i, kinds)
  BY <1>1, Zenon DEF Where, Among
<1> QED  BY <1>2 DEF Inv

LEMMA ListingsServed == Inv => ListingsComplete
<1> SUFFICES ASSUME Inv PROVE ListingsComplete
  OBVIOUS
<1>1. ASSUME NEW h \in Listings, Served(h) PROVE acc.rows = Ascending(Where({"exam", "compound"}))
  BY <1>1, WholePage DEF Served, Means, ListingMeans
<1>2. ASSUME Served("result")
      PROVE  acc.rows = Ascending(Where({"course"})) /\ acc.total = LastOf(Where({"total"}))
  BY <1>2, WholePage DEF Served, Means, ResultMeans
<1> QED  BY <1>1, <1>2 DEF ListingsComplete

LEMMA StarpointsServed == Inv => StarpointsGrouped
<1> SUFFICES ASSUME Inv, Served("starpoint") PROVE StarpointsGrouped
  BY DEF StarpointsGrouped
<1>1. /\ \A kinds : Where(kinds) = Among(Rows, i, kinds)
      /\ StarpointMeans(acc, Rows, i)
  BY WholePage DEF Served, Means
<1> DEFINE H == Where({"full", "session"})
           E == {n \in Where({"full", "session", "continuation"}) : LastBefore(H, n + 1) # 0}
<1>2. H = Heads(Rows, i)
  BY <1>1, Zenon DEF Heads
<1>3. E = Events(Rows, i)
  BY <1>1, <1>2, Zenon DEF Events, Entries
<1> HIDE DEF H, E
<1>4. /\ acc.programs = Programs(E, H)
      /\ acc.average = FirstOf(Where({"average"}))
      /\ acc.total = FirstOf(Where({"total"}))
  BY <1>1, <1>2, <1>3 DEF StarpointMeans
<1> QED  BY <1>4, Zenon DEF StarpointsGrouped, Programs, E, H

LEMMA CarryMarksServed == Inv => CarryMarksGrouped
<1> SUFFICES ASSUME Inv, Served("carry-mark") PROVE CarryMarksGrouped
  BY DEF CarryMarksGrouped
<1> DEFINE S == Subjects(Rows, i)
           a == Ascending(S)
<1>1. /\ \A kinds : Where(kinds) = Among(Rows, i, kinds)
      /\ CarryMarkMeans(acc, Rows, i)
  BY WholePage DEF Served, Means
<1>2. Where({"subject"}) = S
  BY <1>1 DEF Subjects
<1>3. S \in SUBSET (1..i) /\ i \in Nat
  BY AmongNext DEF Subjects, Inv, PagesInv
<1>4. acc.len = Cardinality(S) /\ acc.len \in Nat /\ DOMAIN a = 1..acc.len
  BY <1>1, <1>3, AscendingIsTheOrder DEF CarryMarkMeans, Sorted, Slice
<1>5. \A s : {c \in Where({"component"}) : LastBefore(S, c) = s} = Parts(Rows, i, s)
  BY <1>1 DEF Parts
<1>6. acc.session = FirstOf(Where({"script"}))
  BY <1>1 DEF CarryMarkMeans
<1> HIDE DEF a, S
<1>7. Shown(acc) = [k \in 1..acc.len |-> Group(Rows, i, a[k])]
  <2> DEFINE slice == acc.heap[acc.arr]
  <2>1. /\ slice \in Seq(Subject) /\ acc.len <= Len(slice)
    BY <1>1 DEF CarryMarkMeans, Slice
  <2>2. \A k \in 1..acc.len : slice[k] = Group(Rows, i, a[k])
    BY <1>1 DEF CarryMarkMeans, a, S
  <2>3. \A k \in 1..acc.len : slice[k] \in Subject
    BY <1>4, <2>1
  <2>4. Shown(acc) = SubSeq(slice, 1, acc.len)
    BY DEF Shown
  <2> HIDE DEF slice
  <2>5. /\ SubSeq(slice, 1, acc.len) \in Seq(Subject)
        /\ Len(SubSeq(slice, 1, acc.len)) = IF 1 <= acc.len THEN acc.len - 1 + 1 ELSE 0
        /\ \A k \in 1..(acc.len - 1 + 1) : SubSeq(slice, 1, acc.len)[k] = slice[1 + k - 1]
    BY <1>4, <2>3, SubSeqProperties
  <2>6. /\ Shown(acc) \in Seq(Subject) /\ Len(Shown(acc)) = acc.len
        /\ \A k \in 1..acc.len : Shown(acc)[k] = slice[k]
    BY <1>4, <2>4, <2>5
  <2> QED  BY <1>4, <2>2, <2>6
<1> QED
  BY <1>2, <1>4, <1>5, <1>6, <1>7, Zenon DEF CarryMarksGrouped, Group, a

\* A listing serves every row of the page it is made of, once, in order; a result
\* has all its courses and the last totals; nothing of a first attempt is left.
THEOREM ListingsAreComplete == Spec => []ListingsComplete
  BY Invariance, ListingsServed, PTL

\* Every programme is served under the session named last at or above it, and the
\* summaries are the first of the page.
THEOREM StarpointsAreGrouped == Spec => []StarpointsGrouped
  BY Invariance, StarpointsServed, PTL

\* Every subject is served once with exactly the components that follow it, though
\* the handler writes through a pointer into a slice that grows, moves, and is
\* used again by the retry.
THEOREM CarryMarksAreGrouped == Spec => []CarryMarksGrouped
  BY Invariance, CarryMarksServed, PTL
=============================================================================
