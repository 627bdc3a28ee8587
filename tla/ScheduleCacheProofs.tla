------------------------- MODULE ScheduleCacheProofs -------------------------
(***************************************************************************)
(* What an answer of /api/schedule promises, for every number of requests, *)
(* sessions and versions, with GEI or without, and failing or not.         *)
(*                                                                         *)
(* Two things stand between the code and its promises.  The loop of        *)
(* latestSessionQuery is a fold, so that it finds the newest session is    *)
(* shown by looking at a smallest set of sessions where it would not       *)
(* (LatestIsMax).  And the properties look at a finished answer: the       *)
(* invariant says what an attempt holds while it scrapes, request by       *)
(* request, for requests meet only in GEI.                                 *)
(***************************************************************************)
EXTENDS ScheduleCache, FiniteSetTheorems, TLAPS

-----------------------------------------------------------------------------
(* The order of the session names and the loop of latestSessionQuery.      *)

\* The newer of two sessions comes first, by year and then by term.
LEMMA SortIsNewer ==
    ASSUME NEW a \in Sessions, NEW b \in Sessions
    PROVE  SortSessionNames(a, b) <=> a > b
  BY ScheduleCacheAssumption DEF SortSessionNames, YearOf, Term, Sessions

LEMMA MaxExists ==
    ASSUME NEW S \in SUBSET Sessions, S # {}
    PROVE  Max(S) \in S /\ \A s \in S : Max(S) >= s
<1> DEFINE Below == {n \in Nat : \E s \in S : n = MaxSession - s}
<1>1. Below \subseteq Nat /\ Below # {}
  <2>1. PICK s \in S : s \in Sessions
    OBVIOUS
  <2>2. MaxSession - s \in Nat
    BY <2>1, ScheduleCacheAssumption DEF Sessions
  <2> QED BY <2>2
<1>2. PICK n \in Below : \A m \in Below : ~(<<m, n>> \in OpToRel(<, Nat))
  BY <1>1, NatLessThanWellFounded, WFMin
<1>3. \A m \in Below : ~(m < n)
  BY <1>2 DEF OpToRel
<1>4. PICK s \in S : n = MaxSession - s
  OBVIOUS
<1>5. \A t \in S : s >= t
  BY <1>3, <1>4, ScheduleCacheAssumption DEF Sessions
<1> QED BY <1>4, <1>5 DEF Max

\* One turn of the loop, and the loop as a function of the sessions it has seen:
\* the equation that FoldSet's recursive function is chosen to satisfy.
Newer(s, latest) == IF SortSessionNames(s, latest) THEN s ELSE latest
Pick(T) == CHOOSE s \in T : TRUE
Turn(f, S, T) == IF T = {} THEN Pick(S) ELSE Newer(Pick(T), f[T \ {Pick(T)}])
IsLoop(f, S) == f = [T \in SUBSET S |-> Turn(f, S, T)]

LEMMA LatestIsLoop ==
    ASSUME NEW S
    PROVE  Latest(S) = (CHOOSE f : IsLoop(f, S))[S]
  BY DEF Latest, FoldSet, MapThenFoldSet, IsLoop, Turn, Newer, Pick

\* A turn on the sessions of T, after the loop has found the newest of the others.
LEMMA TurnTakesNewest ==
    ASSUME NEW S \in SUBSET Sessions, NEW b \in S, NEW T \in SUBSET S, NEW x \in T
    PROVE  Newer(x, Max((T \ {x}) \cup {b})) = Max(T \cup {b})
<1> DEFINE U == (T \ {x}) \cup {b}
<1> DEFINE V == T \cup {b}
<1>1. U \in SUBSET Sessions /\ U # {} /\ V \in SUBSET Sessions /\ V # {}
  OBVIOUS
<1>2. Max(U) \in U /\ \A u \in U : Max(U) >= u
  BY <1>1, MaxExists
<1>3. Max(V) \in V /\ \A v \in V : Max(V) >= v
  BY <1>1, MaxExists
<1>4. x \in Sessions /\ Max(U) \in Sessions /\ Max(V) \in Sessions
  BY <1>1, <1>2, <1>3
<1>5. V = U \cup {x}
  OBVIOUS
<1>6. Newer(x, Max(U)) = IF x > Max(U) THEN x ELSE Max(U)
  BY <1>4, SortIsNewer DEF Newer
<1> HIDE DEF U, V
<1>7. Newer(x, Max(U)) = Max(V)
  BY <1>2, <1>3, <1>4, <1>5, <1>6 DEF Sessions
<1> QED BY <1>7 DEF U, V

\* Whatever satisfies the loop's equation finds the newest session: in a smallest
\* set where it does not, its last turn would be wrong.
LEMMA LoopFindsNewest ==
    ASSUME NEW S \in SUBSET Sessions, S # {}, NEW f, IsLoop(f, S)
    PROVE  \A T \in SUBSET S : f[T] = Max(T \cup {Pick(S)})
<1> DEFINE Wrong == {T \in SUBSET S : f[T] # Max(T \cup {Pick(S)})}
<1>1. IsFiniteSet(S)
  <2>1. IsFiniteSet(Sessions)
    BY ScheduleCacheAssumption, FS_Interval DEF Sessions
  <2> QED BY <2>1, FS_Subset
<1>2. SUFFICES ASSUME Wrong # {} PROVE FALSE
  OBVIOUS
<1>3. Wrong \subseteq FiniteSubsetsOf(S)
  BY <1>1, FS_Subset DEF FiniteSubsetsOf
<1>4. PICK T \in Wrong : \A U \in Wrong : ~(<<U, T>> \in StrictSubsetOrdering(S))
  <2> HIDE DEF Wrong
  <2> QED BY <1>2, <1>3, FS_StrictSubsetOrderingWellFounded, WFMin
<1>5. Pick(S) \in S
  BY DEF Pick
<1>6. f[T] = Turn(f, S, T)
  BY DEF IsLoop
<1>7. CASE T = {}
  <2>1. Max({Pick(S)}) = Pick(S)
    BY <1>5, MaxExists
  <2> QED BY <1>6, <1>7, <2>1 DEF Turn
<1>8. CASE T # {}
  <2> DEFINE x == Pick(T)
  <2>1. x \in T
    BY <1>8 DEF Pick
  <2>2. <<T \ {x}, T>> \in StrictSubsetOrdering(S)
    BY <2>1 DEF StrictSubsetOrdering
  <2>3. f[T \ {x}] = Max((T \ {x}) \cup {Pick(S)})
    BY <1>4, <2>2
  <2>4. f[T] = Newer(x, Max((T \ {x}) \cup {Pick(S)}))
    BY <1>6, <1>8, <2>3 DEF Turn
  <2> HIDE DEF x
  <2> QED BY <1>5, <2>1, <2>4, TurnTakesNewest
<1> QED BY <1>7, <1>8

\* The loop that is asked for exists: it keeps the newest session seen so far.
LEMMA LoopExists ==
    ASSUME NEW S \in SUBSET Sessions, S # {}
    PROVE  \E f : IsLoop(f, S)
<1> DEFINE f == [T \in SUBSET S |-> Max(T \cup {Pick(S)})]
<1>1. Pick(S) \in S
  BY DEF Pick
<1>2. ASSUME NEW T \in SUBSET S
      PROVE  f[T] = Turn(f, S, T)
  <2>1. CASE T = {}
    <3>1. Max({Pick(S)}) = Pick(S)
      BY <1>1, MaxExists
    <3> QED BY <2>1, <3>1 DEF Turn
  <2>2. CASE T # {}
    <3>1. Pick(T) \in T
      BY <2>2 DEF Pick
    <3>2. f[T \ {Pick(T)}] = Max((T \ {Pick(T)}) \cup {Pick(S)})
      OBVIOUS
    <3>3. f[T] = Max(T \cup {Pick(S)})
      OBVIOUS
    <3> HIDE DEF f
    <3> QED BY <1>1, <2>2, <3>1, <3>2, <3>3, TurnTakesNewest DEF Turn
  <2> QED BY <2>1, <2>2
<1>3. f = [T \in SUBSET S |-> Turn(f, S, T)]
  <2> DEFINE g == [T \in SUBSET S |-> Turn(f, S, T)]
  <2>1. \A T \in SUBSET S : f[T] = g[T]
    BY <1>2
  <2> QED BY <2>1
<1> QED BY <1>3 DEF IsLoop

\* latestSessionQuery finds the newest session, in whatever order it meets them
\* and in whatever term the list begins: years and terms compare as time does.
THEOREM LatestIsMax ==
    ASSUME NEW S \in SUBSET Sessions, S # {}
    PROVE  Latest(S) = Max(S)
<1> DEFINE loop == CHOOSE f : IsLoop(f, S)
<1>1. IsLoop(loop, S)
  BY LoopExists
<1>2. loop[S] = Max(S \cup {Pick(S)})
  <2> HIDE DEF loop
  <2> QED BY <1>1, LoopFindsNewest
<1>3. S \cup {Pick(S)} = S
  BY DEF Pick
<1> QED BY <1>2, <1>3, LatestIsLoop

-----------------------------------------------------------------------------
(* The inductive invariant: what holds of the cache, and what holds of each *)
(* request by itself, which never looks at another request.                 *)

\* A schedule without the empty one of a login form.
Real(f) == \A s \in DOMAIN f : f[s] # 0

SharedInv == TypeOK /\ Real(version) /\ Real(gei)

\* What an attempt reads and scrapes is there only while it scrapes.
CleanInv(r) ==
    /\ stage[r] # "done" => answer[r] = "none"
    /\ stage[r] # "scrape" => /\ cached[r] = Empty /\ scraped[r] = Empty
                              /\ plan[r] = {} /\ ~stale[r] /\ ~failed[r]
    /\ stage[r] = "lookup" => list[r] # {}

\* i-Ma'luum's schedules have only become newer since the request came.
HistoryInv(r) ==
    stage[r] # "new" =>
        before[r] \in [Sessions -> Versions] /\ \A s \in Sessions : before[r][s] <= version[s]

\* An attempt that met neither a login form nor a failure will have every session
\* of its list, and a scrape of the latest one; what it holds was seen with a live
\* cookie, what it scraped is no older than what there was when the request came,
\* and forced it took nothing from GEI.
AttemptInv(r) ==
    stage[r] = "scrape" /\ ~stale[r] /\ ~failed[r] =>
        /\ list[r] # {}
        /\ list[r] \subseteq plan[r] \cup DOMAIN scraped[r] \cup DOMAIN cached[r]
        /\ Max(list[r]) \in plan[r] \cup DOMAIN scraped[r]
        /\ Real(cached[r]) /\ Real(scraped[r])
        /\ \A s \in DOMAIN scraped[r] : scraped[r][s] >= before[r][s]
        /\ forced[r] => cached[r] = Empty

\* What a request has merged, and stores and answers with.
ServedInv(r) ==
    stage[r] = "store" \/ Ok(r) =>
        /\ list[r] # {} /\ DOMAIN served[r] = list[r] /\ Real(served[r])
        /\ served[r][Max(list[r])] >= before[r][Max(list[r])]
        /\ forced[r] => \A s \in list[r] : served[r][s] >= before[r][s]

RequestInv(r) == CleanInv(r) /\ HistoryInv(r) /\ AttemptInv(r) /\ ServedInv(r)

Inv == SharedInv /\ \A r \in Requests : RequestInv(r)

\* All that RequestInv reads of a request.
own(r) == <<stage[r], forced[r], list[r], cached[r], plan[r], scraped[r],
            stale[r], failed[r], answer[r], served[r], before[r]>>

-----------------------------------------------------------------------------
(* What every step keeps.                                                  *)

\* One value of a function changes.
LEMMA ExceptFun ==
    ASSUME NEW S, NEW T, NEW f \in [S -> T], NEW x \in S, NEW y \in T, NEW g,
           g = [f EXCEPT ![x] = y]
    PROVE  /\ g \in [S -> T] /\ g[x] = y
           /\ \A z \in S \ {x} : g[z] = f[z]
  OBVIOUS

LEMMA ExceptFlag ==
    ASSUME NEW f \in [Requests -> BOOLEAN], NEW x \in Requests, NEW y \in BOOLEAN, NEW g,
           g = f \/ g = [f EXCEPT ![x] = y]
    PROVE  g \in [Requests -> BOOLEAN] /\ \A z \in Requests \ {x} : g[z] = f[z]
  BY Zenon

\* TypeOK, variable by variable.
LEMMA Types ==
    ASSUME TypeOK
    PROVE  /\ stage \in [Requests -> Stages] /\ forced \in [Requests -> BOOLEAN]
           /\ cookieOk \in [Requests -> BOOLEAN] /\ stale \in [Requests -> BOOLEAN]
           /\ failed \in [Requests -> BOOLEAN] /\ attempt \in [Requests -> 1..2]
           /\ list \in [Requests -> SUBSET Sessions] /\ plan \in [Requests -> SUBSET Sessions]
           /\ cached \in [Requests -> Schedules] /\ scraped \in [Requests -> Schedules]
           /\ served \in [Requests -> Schedules] /\ before \in [Requests -> Schedules]
           /\ answer \in [Requests -> {"none", "ok", "error", "stale"}]
  BY DEF TypeOK

\* A request that does not move keeps its invariant, when i-Ma'luum changes too.
LEMMA RequestFrame ==
    ASSUME TypeOK, NEW q \in Requests, RequestInv(q), own(q)' = own(q),
           \A s \in Sessions : version'[s] \in Nat /\ version[s] <= version'[s]
    PROVE  RequestInv(q)'
<1> USE DEF own
<1>1. CleanInv(q)'
  BY DEF RequestInv, CleanInv
<1>2. HistoryInv(q)'
  <2>1. version \in [Sessions -> Versions]
    BY DEF TypeOK
  <2> QED BY <2>1, ScheduleCacheAssumption DEF RequestInv, HistoryInv, Versions
<1>3. AttemptInv(q)'
  BY DEF RequestInv, AttemptInv, Real
<1>4. ServedInv(q)'
  BY DEF RequestInv, ServedInv, Ok, Real
<1> QED BY <1>1, <1>2, <1>3, <1>4 DEF RequestInv

\* One request moves, and i-Ma'luum does not.
LEMMA OneMoves ==
    ASSUME Inv, NEW r \in Requests, UNCHANGED version, SharedInv', RequestInv(r)',
           \A q \in Requests \ {r} : own(q)' = own(q)
    PROVE  Inv'
<1>1. TypeOK /\ version \in [Sessions -> Versions]
  BY DEF Inv, SharedInv, TypeOK
<1>2. \A s \in Sessions : version'[s] \in Nat /\ version[s] <= version'[s]
  BY <1>1, ScheduleCacheAssumption DEF Versions
<1>3. ASSUME NEW q \in Requests \ {r} PROVE RequestInv(q)'
  BY <1>1, <1>2, RequestFrame DEF Inv
<1> QED BY <1>3 DEF Inv

LEMMA EmptySchedule == Empty \in Schedules /\ DOMAIN Empty = {}
<1>1. Empty \in [{} -> Versions]
  BY DEF Empty
<1> QED BY <1>1 DEF Schedules

LEMMA InitInv == Init => Inv
<1> SUFFICES ASSUME Init PROVE Inv
  OBVIOUS
<1> USE DEF Init
<1>1. Empty \in Schedules /\ DOMAIN Empty = {}
  BY EmptySchedule
<1>2. TypeOK
  <2>1. 1 \in Versions /\ 1 \in Sessions
    BY ScheduleCacheAssumption DEF Versions, Sessions
  <2>2. /\ {forced, cookieOk, stale, failed} \subseteq [Requests -> BOOLEAN]
        /\ attempt \in [Requests -> 1..2]
        /\ {list, plan} \subseteq [Requests -> SUBSET Sessions]
    OBVIOUS
  <2>3. {cached, scraped, served, before} \subseteq [Requests -> Schedules]
    BY <1>1
  <2> QED BY <1>1, <2>1, <2>2, <2>3 DEF TypeOK, Stages
<1>3. Real(version) /\ Real(gei)
  BY <1>1 DEF Real
<1>4. ASSUME NEW r \in Requests PROVE RequestInv(r)
  BY DEF RequestInv, CleanInv, HistoryInv, AttemptInv, ServedInv, Ok
<1> QED BY <1>2, <1>3, <1>4 DEF Inv, SharedInv

-----------------------------------------------------------------------------
(* One lemma per action.                                                   *)

LEMMA ArriveInv == ASSUME Inv, NEW r \in Requests, NEW refresh \in BOOLEAN, Arrive(r, refresh)
                   PROVE  Inv'
<1> USE DEF Inv, SharedInv, Arrive, Goto, upstream, scrape, reply
<1>1. TypeOK /\ RequestInv(r)
  OBVIOUS
<1>2. version \in Schedules /\ version \in [Sessions -> Versions] /\ "discover" \in Stages
  BY DEF TypeOK, Schedules, Stages
<1>3. /\ stage' \in [Requests -> Stages] /\ stage'[r] = "discover"
      /\ \A q \in Requests \ {r} : stage'[q] = stage[q]
  BY <1>1, <1>2, Types, ExceptFun
<1>4. /\ forced' \in [Requests -> BOOLEAN]
      /\ \A q \in Requests \ {r} : forced'[q] = forced[q]
  BY <1>1, <1>2, Types, ExceptFun
<1>5. /\ before' \in [Requests -> Schedules] /\ before'[r] = version
      /\ \A q \in Requests \ {r} : before'[q] = before[q]
  BY <1>1, <1>2, Types, ExceptFun
<1>6. SharedInv'
  BY <1>1, <1>3, <1>4, <1>5 DEF TypeOK, Real
<1>7. \A q \in Requests \ {r} : own(q)' = own(q)
  BY <1>3, <1>4, <1>5 DEF own
<1>8. RequestInv(r)'
  <2>1. CleanInv(r)' /\ ~stale[r]
    BY <1>1, <1>3 DEF RequestInv, CleanInv
  <2>2. HistoryInv(r)'
    BY <1>2, <1>5, ScheduleCacheAssumption DEF HistoryInv, Versions
  <2>3. AttemptInv(r)' /\ ServedInv(r)'
    BY <1>1, <1>3 DEF RequestInv, CleanInv, AttemptInv, ServedInv, Ok
  <2> QED BY <2>1, <2>2, <2>3 DEF RequestInv
<1> QED BY <1>6, <1>7, <1>8, OneMoves

LEMMA DiscoverInv == ASSUME Inv, NEW r \in Requests, Discover(r)
                     PROVE  Inv'
<1> USE DEF Inv, SharedInv, Discover, Answer, Goto, upstream
<1>1. TypeOK /\ RequestInv(r) /\ stage[r] = "discover"
  OBVIOUS
<1>2. /\ stage' \in [Requests -> Stages]
      /\ \A q \in Requests \ {r} : stage'[q] = stage[q]
  BY <1>1, Types DEF Stages
<1>3. (offered \cup {Placeholder}) \ {Placeholder} \subseteq Sessions
  BY <1>1 DEF TypeOK
<1>4. /\ list' \in [Requests -> SUBSET Sessions]
      /\ \A q \in Requests \ {r} : list'[q] = list[q]
  BY <1>1, <1>3, Types DEF SessionsFromAllSem
<1>5. /\ stale' \in [Requests -> BOOLEAN]
      /\ \A q \in Requests \ {r} : stale'[q] = stale[q]
  <2>1. stale' = stale \/ stale' = [stale EXCEPT ![r] = TRUE]
    OBVIOUS
  <2>2. stale \in [Requests -> BOOLEAN]
    BY <1>1, Types
  <2> QED BY <2>1, <2>2, ExceptFlag
<1>6. /\ answer' \in [Requests -> {"none", "ok", "error", "stale"}]
      /\ \A q \in Requests \ {r} : answer'[q] = answer[q]
  BY <1>1, Types
<1>7. SharedInv'
  BY <1>1, <1>2, <1>4, <1>5, <1>6 DEF TypeOK, Real
<1>8. \A q \in Requests \ {r} : own(q)' = own(q)
  BY <1>2, <1>4, <1>5, <1>6 DEF own
<1>9. RequestInv(r)'
  <2>1. CleanInv(r)
    BY <1>1 DEF RequestInv
  <2>2. HistoryInv(r)'
    BY <1>1 DEF RequestInv, HistoryInv
  <2>3. CASE stage'[r] = "lookup" /\ list'[r] = SessionsFromAllSem(offered \cup {Placeholder})
             /\ UNCHANGED <<stale, answer>>
    <3>1. list'[r] # {}
      BY <1>1, <2>3 DEF TypeOK, SessionsFromAllSem, Placeholder, Sessions
    <3> QED BY <1>1, <2>1, <2>2, <2>3, <3>1
            DEF RequestInv, CleanInv, AttemptInv, ServedInv, Ok
  <2>4. CASE stage'[r] = "scrape" /\ stale'[r] /\ UNCHANGED <<list, answer>>
    BY <1>1, <2>1, <2>2, <2>4 DEF RequestInv, CleanInv, AttemptInv, ServedInv, Ok
  <2>5. CASE stage'[r] = "done" /\ answer'[r] = "error" /\ UNCHANGED <<list, stale>>
    BY <1>1, <2>1, <2>2, <2>5 DEF RequestInv, CleanInv, AttemptInv, ServedInv, Ok
  <2> QED BY <1>1, <2>3, <2>4, <2>5, Types
<1> QED BY <1>7, <1>8, <1>9, OneMoves

LEMMA LookupInv == ASSUME Inv, NEW r \in Requests, Lookup(r)
                   PROVE  Inv'
<1> USE DEF Inv, SharedInv, Lookup, Goto, upstream, reply
<1>1. TypeOK /\ RequestInv(r) /\ CleanInv(r) /\ stage[r] = "lookup"
  BY DEF RequestInv
<1>2. PICK known \in Known(r) : /\ cached' = [cached EXCEPT ![r] = known]
                                /\ plan' = [plan EXCEPT ![r] = Plan(r, known)]
  OBVIOUS
<1>3. /\ known \in Schedules /\ Real(known)
      /\ forced[r] => known = Empty
  BY <1>1, EmptySchedule DEF Known, TypeOK, Real
<1>4. list[r] \in SUBSET Sessions /\ list[r] # {}
  BY <1>1, Types DEF CleanInv
<1>5. Latest(list[r]) = Max(list[r]) /\ Max(list[r]) \in list[r]
  BY <1>4, LatestIsMax, MaxExists
<1>6. /\ Plan(r, known) \in SUBSET Sessions
      /\ list[r] \subseteq Plan(r, known) \cup DOMAIN known
      /\ Max(list[r]) \in Plan(r, known)
  BY <1>4, <1>5 DEF Plan
<1>7. /\ stage' \in [Requests -> Stages] /\ stage'[r] = "scrape"
      /\ \A q \in Requests \ {r} : stage'[q] = stage[q]
  BY <1>1, Types DEF Stages
<1>8. /\ cached' \in [Requests -> Schedules] /\ cached'[r] = known
      /\ \A q \in Requests \ {r} : cached'[q] = cached[q]
  BY <1>1, <1>2, <1>3, Types, ExceptFun
<1>9. /\ plan' \in [Requests -> SUBSET Sessions] /\ plan'[r] = Plan(r, known)
      /\ \A q \in Requests \ {r} : plan'[q] = plan[q]
  BY <1>1, <1>2, <1>6, Types, ExceptFun
<1>10. SharedInv'
  BY <1>1, <1>7, <1>8, <1>9 DEF TypeOK, Real
<1>11. \A q \in Requests \ {r} : own(q)' = own(q)
  BY <1>7, <1>8, <1>9 DEF own
<1>12. RequestInv(r)'
  <2>1. scraped[r] = Empty /\ answer[r] = "none"
    BY <1>1 DEF CleanInv
  <2>2. CleanInv(r)' /\ HistoryInv(r)' /\ ServedInv(r)'
    BY <1>1, <1>7, <2>1 DEF RequestInv, CleanInv, HistoryInv, ServedInv, Ok
  <2>3. AttemptInv(r)'
    BY <1>3, <1>4, <1>6, <1>8, <1>9, <2>1, EmptySchedule DEF AttemptInv, Real
  <2> QED BY <2>2, <2>3 DEF RequestInv
<1> QED BY <1>10, <1>11, <1>12, OneMoves

LEMMA WithType ==
    ASSUME NEW f \in Schedules, NEW s \in Sessions, NEW v \in Versions
    PROVE  With(f, s, v) \in Schedules
<1>1. PICK S \in SUBSET Sessions : f \in [S -> Versions]
  BY DEF Schedules
<1>2. With(f, s, v) \in [S \cup {s} -> Versions]
  BY <1>1 DEF With
<1>3. S \cup {s} \in SUBSET Sessions
  OBVIOUS
<1> QED BY <1>1, <1>2, <1>3 DEF Schedules, With

LEMMA ScrapeInv == ASSUME Inv, NEW r \in Requests, NEW s \in plan[r], Scrape(r, s)
                   PROVE  Inv'
<1> USE DEF Inv, SharedInv, Scrape, upstream, reply
<1>1. TypeOK /\ RequestInv(r) /\ stage[r] = "scrape"
  OBVIOUS
<1>2. s \in Sessions /\ version[s] \in Versions /\ 0 \in Versions /\ version[s] # 0
  BY <1>1, Types, ScheduleCacheAssumption DEF TypeOK, Versions, Real
<1>3. /\ plan' \in [Requests -> SUBSET Sessions]
      /\ \A q \in Requests \ {r} : plan'[q] = plan[q]
  BY <1>1, Types
<1>4. /\ scraped' \in [Requests -> Schedules]
      /\ \A q \in Requests \ {r} : scraped'[q] = scraped[q]
  <2>1. /\ With(scraped[r], s, version[s]) \in Schedules
        /\ With(scraped[r], s, 0) \in Schedules
    BY <1>1, <1>2, Types, WithType
  <2> QED BY <1>1, <2>1, Types
<1>5. /\ stale' \in [Requests -> BOOLEAN]
      /\ \A q \in Requests \ {r} : stale'[q] = stale[q]
  <2>1. stale' = stale \/ stale' = [stale EXCEPT ![r] = TRUE]
    OBVIOUS
  <2>2. stale \in [Requests -> BOOLEAN]
    BY <1>1, Types
  <2> QED BY <2>1, <2>2, ExceptFlag
<1>6. /\ failed' \in [Requests -> BOOLEAN]
      /\ \A q \in Requests \ {r} : failed'[q] = failed[q]
  <2>1. failed' = failed \/ failed' = [failed EXCEPT ![r] = TRUE]
    OBVIOUS
  <2>2. failed \in [Requests -> BOOLEAN]
    BY <1>1, Types
  <2> QED BY <2>1, <2>2, ExceptFlag
<1>7. SharedInv'
  BY <1>1, <1>3, <1>4, <1>5, <1>6 DEF TypeOK, Real
<1>8. \A q \in Requests \ {r} : own(q)' = own(q)
  BY <1>3, <1>4, <1>5, <1>6 DEF own
<1>9. RequestInv(r)'
  <2>1. CleanInv(r)' /\ HistoryInv(r)' /\ ServedInv(r)'
    BY <1>1 DEF RequestInv, CleanInv, HistoryInv, ServedInv, Ok
  <2>2. AttemptInv(r)'
    <3>1. CASE /\ plan' = [plan EXCEPT ![r] = @ \ {s}]
               /\ scraped' = [scraped EXCEPT ![r] = With(@, s, version[s])]
               /\ UNCHANGED <<stale, failed>>
      <4> SUFFICES ASSUME ~stale[r], ~failed[r] PROVE AttemptInv(r)'
        BY <3>1 DEF AttemptInv
      <4>1. scraped'[r] = With(scraped[r], s, version[s]) /\ plan'[r] = plan[r] \ {s}
        BY <3>1, <1>1, Types
      <4>2. /\ DOMAIN scraped'[r] = DOMAIN scraped[r] \cup {s}
            /\ \A x \in DOMAIN scraped'[r] :
                  scraped'[r][x] = IF x = s THEN version[s] ELSE scraped[r][x]
        BY <4>1 DEF With
      <4>3. before[r][s] <= version[s]
        BY <1>1, <1>2 DEF RequestInv, HistoryInv
      <4>4. AttemptInv(r)
        BY <1>1 DEF RequestInv
      <4>5. Real(scraped'[r])
        BY <1>1, <1>2, <4>2, <4>4 DEF AttemptInv, Real
      <4>6. \A x \in DOMAIN scraped'[r] : scraped'[r][x] >= before[r][x]
        <5>1. before[r][s] \in Nat /\ version[s] \in Nat
          BY <1>1, <1>2, ScheduleCacheAssumption DEF RequestInv, HistoryInv, Versions
        <5> QED BY <1>1, <5>1, <4>2, <4>3, <4>4 DEF AttemptInv
      <4> QED BY <1>1, <4>1, <4>2, <4>4, <4>5, <4>6 DEF AttemptInv
    <3>2. CASE stale'[r] \/ failed'[r]
      BY <3>2 DEF AttemptInv
    <3>3. \/ /\ plan' = [plan EXCEPT ![r] = @ \ {s}]
             /\ scraped' = [scraped EXCEPT ![r] = With(@, s, version[s])]
             /\ UNCHANGED <<stale, failed>>
          \/ stale' = [stale EXCEPT ![r] = TRUE]
          \/ failed' = [failed EXCEPT ![r] = TRUE]
      OBVIOUS
    <3> QED BY <1>1, <3>1, <3>2, <3>3, Types, ExceptFun
  <2> QED BY <2>1, <2>2 DEF RequestInv
<1> QED BY <1>7, <1>8, <1>9, OneMoves

\* The merge of an attempt that has nothing left to scrape, met no login form
\* and no failure: all of the list, from live cookies, and fresh where it must be.
LEMMA MergeInv ==
    ASSUME Inv, NEW r \in Requests, stage[r] = "scrape", ~stale[r], ~failed[r], plan[r] = {}
    PROVE  /\ Merge(r) \in Schedules
           /\ list[r] # {} /\ DOMAIN Merge(r) = list[r] /\ Real(Merge(r))
           /\ Merge(r)[Max(list[r])] >= before[r][Max(list[r])]
           /\ forced[r] => \A s \in list[r] : Merge(r)[s] >= before[r][s]
<1>1. TypeOK /\ AttemptInv(r)
  BY DEF Inv, SharedInv, RequestInv
<1>2. list[r] \in SUBSET Sessions /\ scraped[r] \in Schedules /\ cached[r] \in Schedules
  BY <1>1, Types
<1>3. list[r] # {} /\ list[r] \subseteq DOMAIN scraped[r] \cup DOMAIN cached[r]
  BY <1>1 DEF AttemptInv
<1>4. \A s \in list[r] :
         Merge(r)[s] = IF s \in DOMAIN scraped[r] THEN scraped[r][s] ELSE cached[r][s]
  BY <1>3 DEF Merge
<1>5. DOMAIN Merge(r) = list[r]
  BY <1>3 DEF Merge
<1>6. Merge(r) \in Schedules
  <2>1. PICK S \in SUBSET Sessions : scraped[r] \in [S -> Versions]
    BY <1>2 DEF Schedules
  <2>2. PICK C \in SUBSET Sessions : cached[r] \in [C -> Versions]
    BY <1>2 DEF Schedules
  <2>3. Merge(r) \in [list[r] \cap (S \cup C) -> Versions]
    BY <2>1, <2>2 DEF Merge
  <2>4. list[r] \cap (S \cup C) \in SUBSET Sessions
    BY <1>2
  <2> QED BY <2>3, <2>4 DEF Schedules
<1>7. Real(Merge(r))
  BY <1>1, <1>3, <1>4, <1>5 DEF AttemptInv, Real
<1>8. \A s \in list[r] : s \in DOMAIN scraped[r] => Merge(r)[s] >= before[r][s]
  BY <1>1, <1>4 DEF AttemptInv
<1>9. Max(list[r]) \in list[r] /\ Max(list[r]) \in DOMAIN scraped[r]
  BY <1>1, <1>2, <1>3, MaxExists DEF AttemptInv
<1>10. forced[r] => list[r] \subseteq DOMAIN scraped[r]
  BY <1>1, <1>3, EmptySchedule DEF AttemptInv
<1> QED BY <1>3, <1>5, <1>6, <1>7, <1>8, <1>9, <1>10

LEMMA EndAttemptInv == ASSUME Inv, NEW r \in Requests, EndAttempt(r)
                       PROVE  Inv'
<1> USE DEF ForgetAttempt, GiveUp, Retry, Deliver, Answer, Goto, upstream, reply
<1>1. TypeOK /\ RequestInv(r) /\ stage[r] = "scrape" /\ plan[r] = {}
  BY DEF Inv, SharedInv, EndAttempt
<1>2. /\ UNCHANGED <<version, offered, gei, forced, list, plan, before>>
      /\ cached' = [cached EXCEPT ![r] = Empty]
      /\ scraped' = [scraped EXCEPT ![r] = Empty]
      /\ stale' = [stale EXCEPT ![r] = FALSE]
      /\ failed' = [failed EXCEPT ![r] = FALSE]
  BY DEF EndAttempt
<1>3. \/ /\ \E what \in {"error", "stale"} :
              /\ stage' = [stage EXCEPT ![r] = "done"]
              /\ answer' = [answer EXCEPT ![r] = what]
         /\ UNCHANGED <<attempt, cookieOk, served>>
      \/ /\ stage' = [stage EXCEPT ![r] = "discover"]
         /\ attempt' = [attempt EXCEPT ![r] = 2]
         /\ \E ok \in BOOLEAN : cookieOk' = [cookieOk EXCEPT ![r] = ok]
         /\ UNCHANGED <<answer, served>>
      \/ /\ stage' = [stage EXCEPT ![r] = "store"] /\ ~stale[r] /\ ~failed[r]
         /\ served' = [served EXCEPT ![r] = Merge(r)]
         /\ UNCHANGED <<attempt, cookieOk, answer>>
  BY DEF EndAttempt
<1>4. /\ cached' \in [Requests -> Schedules] /\ cached'[r] = Empty
      /\ \A q \in Requests \ {r} : cached'[q] = cached[q]
  BY <1>1, <1>2, EmptySchedule, Types, ExceptFun
<1>5. /\ scraped' \in [Requests -> Schedules] /\ scraped'[r] = Empty
      /\ \A q \in Requests \ {r} : scraped'[q] = scraped[q]
  BY <1>1, <1>2, EmptySchedule, Types, ExceptFun
<1>6. /\ stale' \in [Requests -> BOOLEAN] /\ ~stale'[r]
      /\ \A q \in Requests \ {r} : stale'[q] = stale[q]
  BY <1>1, <1>2, Types, ExceptFun
<1>7. /\ failed' \in [Requests -> BOOLEAN] /\ ~failed'[r]
      /\ \A q \in Requests \ {r} : failed'[q] = failed[q]
  BY <1>1, <1>2, Types, ExceptFun
<1>8. /\ stage' \in [Requests -> Stages]
      /\ \A q \in Requests \ {r} : stage'[q] = stage[q]
  BY <1>1, <1>3, Types DEF Stages
<1>9. /\ answer' \in [Requests -> {"none", "ok", "error", "stale"}]
      /\ \A q \in Requests \ {r} : answer'[q] = answer[q]
  BY <1>1, <1>3, Types
<1>10. /\ served' \in [Requests -> Schedules]
       /\ \A q \in Requests \ {r} : served'[q] = served[q]
  <2>1. ~stale[r] /\ ~failed[r] => Merge(r) \in Schedules
    BY <1>1, MergeInv
  <2> QED BY <1>1, <1>3, <2>1, Types
<1>11. attempt' \in [Requests -> 1..2]
  BY <1>1, <1>3, Types
<1>12. cookieOk' \in [Requests -> BOOLEAN]
  <2>1. PICK ok \in BOOLEAN : cookieOk' = cookieOk \/ cookieOk' = [cookieOk EXCEPT ![r] = ok]
    BY <1>3
  <2>2. cookieOk \in [Requests -> BOOLEAN]
    BY <1>1, Types
  <2> QED BY <2>1, <2>2, ExceptFlag
<1>13. SharedInv'
  BY <1>1, <1>2, <1>4, <1>5, <1>6, <1>7, <1>8, <1>9, <1>10, <1>11, <1>12
     DEF Inv, SharedInv, TypeOK, Real
<1>14. \A q \in Requests \ {r} : own(q)' = own(q)
  BY <1>2, <1>4, <1>5, <1>6, <1>7, <1>8, <1>9, <1>10 DEF own
<1>15. RequestInv(r)'
  <2>1. answer[r] = "none"
    BY <1>1 DEF RequestInv, CleanInv
  <2>2. stage'[r] \in {"done", "discover", "store"}
    BY <1>1, <1>3, Types
  <2>3. stage'[r] # "done" => answer'[r] = "none"
    BY <1>1, <1>3, <2>1, Types
  <2>4. CleanInv(r)'
    BY <1>1, <1>2, <1>4, <1>5, <1>6, <1>7, <2>2, <2>3 DEF CleanInv
  <2>5. HistoryInv(r)'
    BY <1>1, <1>2 DEF RequestInv, HistoryInv
  <2>6. AttemptInv(r)'
    BY <2>2 DEF AttemptInv
  <2>7. ServedInv(r)'
    <3>1. CASE stage'[r] = "store" /\ ~stale[r] /\ ~failed[r] /\ served'[r] = Merge(r)
      BY <1>1, <1>2, <3>1, MergeInv DEF ServedInv, Real
    <3>2. CASE stage'[r] # "store" /\ answer'[r] # "ok"
      BY <3>2 DEF ServedInv, Ok
    <3> QED BY <1>1, <1>3, <2>1, <3>1, <3>2, Types
  <2> QED BY <2>4, <2>5, <2>6, <2>7 DEF RequestInv
<1> QED BY <1>2, <1>13, <1>14, <1>15, OneMoves

LEMMA StoreInv == ASSUME Inv, NEW r \in Requests, Store(r)
                  PROVE  Inv'
<1> USE DEF Inv, SharedInv, Store, Answer, Goto, upstream, scrape
<1>1. TypeOK /\ RequestInv(r) /\ ServedInv(r) /\ stage[r] = "store"
  BY DEF RequestInv
<1>2. /\ stage' \in [Requests -> Stages] /\ stage'[r] = "done"
      /\ \A q \in Requests \ {r} : stage'[q] = stage[q]
  BY <1>1, Types DEF Stages
<1>3. /\ answer' \in [Requests -> {"none", "ok", "error", "stale"}]
      /\ \A q \in Requests \ {r} : answer'[q] = answer[q]
  BY <1>1, Types
<1>4. gei' \in Schedules /\ Real(gei')
  BY <1>1, Types DEF ServedInv, TypeOK
<1>5. SharedInv'
  BY <1>1, <1>2, <1>3, <1>4 DEF TypeOK, Real
<1>6. \A q \in Requests \ {r} : own(q)' = own(q)
  BY <1>2, <1>3 DEF own
<1>7. RequestInv(r)'
  BY <1>1, <1>2 DEF RequestInv, CleanInv, HistoryInv, AttemptInv, ServedInv, Ok, Real
<1> QED BY <1>5, <1>6, <1>7, OneMoves

LEMMA SessionEndsInv == ASSUME Inv, NEW r \in Requests, SessionEnds(r)
                        PROVE  Inv'
<1> USE DEF Inv, SharedInv, SessionEnds, upstream, scrape, reply
<1>1. cookieOk' \in [Requests -> BOOLEAN]
  <2>1. cookieOk \in [Requests -> BOOLEAN] /\ cookieOk' = [cookieOk EXCEPT ![r] = FALSE]
    BY Types
  <2> QED BY <2>1, ExceptFlag
<1>2. SharedInv'
  BY <1>1 DEF TypeOK, Real
<1>3. \A q \in Requests : own(q)' = own(q)
  BY DEF own
<1>4. RequestInv(r)'
  BY DEF RequestInv, CleanInv, HistoryInv, AttemptInv, ServedInv, Ok, Real
<1> QED BY <1>2, <1>3, <1>4, OneMoves

\* i-Ma'luum changes its list or its current schedule, and no request moves.
LEMMA UpstreamInv ==
    ASSUME Inv, version' \in [Sessions -> Versions], \A s \in Sessions : version[s] <= version'[s],
           offered' \subseteq Sessions, offered' # {},
           UNCHANGED <<gei, stage, forced, attempt, cookieOk, scrape, reply, before>>
    PROVE  Inv'
<1> USE DEF Inv, SharedInv, scrape, reply
<1>1. TypeOK'
  BY DEF TypeOK
<1>2. Real(version)'
  <2>1. \A s \in Sessions : version[s] \in Nat /\ version'[s] \in Nat
    BY ScheduleCacheAssumption DEF TypeOK, Versions
  <2> QED BY <2>1, ScheduleCacheAssumption DEF TypeOK, Real
<1>3. Real(gei)'
  BY DEF Real
<1>4. ASSUME NEW q \in Requests PROVE RequestInv(q)'
  <2>1. own(q)' = own(q)
    BY DEF own
  <2>2. \A s \in Sessions : version'[s] \in Nat
    BY ScheduleCacheAssumption DEF Versions
  <2> QED BY <2>1, <2>2, RequestFrame
<1> QED BY <1>1, <1>2, <1>3, <1>4

LEMMA NextInv == Inv /\ [Next]_vars => Inv'
<1> SUFFICES ASSUME Inv, [Next]_vars PROVE Inv'
  OBVIOUS
<1> USE ScheduleCacheAssumption
<1>1. /\ offered \in SUBSET Sessions /\ offered # {} /\ version \in [Sessions -> Versions]
      /\ \A s \in Sessions : version[s] \in Nat
  BY DEF Inv, SharedInv, TypeOK, Versions
<1>2. Max(offered) \in Sessions
  BY <1>1, MaxExists
<1>3. ASSUME NEW r \in Requests, NEW refresh \in BOOLEAN, Arrive(r, refresh) PROVE Inv'
  BY <1>3, ArriveInv
<1>4. ASSUME NEW r \in Requests, Discover(r) PROVE Inv'
  BY <1>4, DiscoverInv
<1>5. ASSUME NEW r \in Requests, Lookup(r) PROVE Inv'
  BY <1>5, LookupInv
<1>6. ASSUME NEW r \in Requests, NEW s \in plan[r], Scrape(r, s) PROVE Inv'
  BY <1>6, ScrapeInv
<1>7. ASSUME NEW r \in Requests, EndAttempt(r) PROVE Inv'
  BY <1>7, EndAttemptInv
<1>8. ASSUME NEW r \in Requests, Store(r) PROVE Inv'
  BY <1>8, StoreInv
<1>9. ASSUME NEW r \in Requests, SessionEnds(r) PROVE Inv'
  BY <1>9, SessionEndsInv
<1>10. CASE Edit
  <2>1. version' \in [Sessions -> Versions]
    BY <1>1, <1>2, <1>10 DEF Edit, Versions
  <2>2. \A s \in Sessions : version[s] <= version'[s]
    BY <1>1, <1>2, <1>10 DEF Edit
  <2> QED BY <1>1, <1>10, <2>1, <2>2, UpstreamInv DEF Edit
<1>11. CASE Rollover
  <2>1. Max(offered) + 1 \in Sessions
    BY <1>2, <1>11 DEF Rollover, Sessions
  <2> QED BY <1>1, <1>11, <2>1, UpstreamInv DEF Rollover
<1>12. CASE Withdraw
  <2>1. offered \ {Min(offered)} # {}
    <3>1. offered # {Min(offered)}
      <4>1. Cardinality(offered) > 1
        BY <1>12 DEF Withdraw
      <4>2. Cardinality({Min(offered)}) = 1
        BY FS_Singleton
      <4> QED BY <4>1, <4>2
    <3> QED BY <1>1, <3>1
  <2> QED BY <1>1, <1>12, <2>1, UpstreamInv DEF Withdraw
<1>13. CASE UNCHANGED vars
  <2>1. UNCHANGED <<gei, stage, forced, attempt, cookieOk, scrape, reply, before>>
    BY <1>13 DEF vars
  <2>2. version' = version /\ offered' = offered
    BY <1>13 DEF vars, upstream
  <2> QED BY <1>1, <2>1, <2>2, UpstreamInv
<1> QED BY <1>3, <1>4, <1>5, <1>6, <1>7, <1>8, <1>9, <1>10, <1>11, <1>12, <1>13
        DEF Next, Progress

LEMMA Invariance == Spec => []Inv
<1> QED BY InitInv, NextInv, PTL DEF Spec

-----------------------------------------------------------------------------
(* The properties.                                                         *)

\* Every state of the schedule handler is well typed: the merge of a cache and of
\* a scrape, whatever they hold, is a schedule of sessions there are.
THEOREM ScheduleTypes == Spec => []TypeOK
<1>1. Inv => TypeOK
  BY DEF Inv, SharedInv
<1> QED BY <1>1, Invariance, PTL

\* The login form never gets into GEI nor into an answer, however many requests
\* fill the cache at once, die and are retried: a stale attempt delivers nothing.
THEOREM LoginFormIsNeverCached == Spec => []NoPoison
<1>1. Inv => NoPoison
  BY DEF Inv, SharedInv, RequestInv, ServedInv, NoPoison, Real
<1> QED BY <1>1, Invariance, PTL

\* The merge of resolveSchedules is complete and adds nothing: an answer has the
\* sessions that i-Ma'luum listed to the request, each once.
THEOREM AnswerIsTheList == Spec => []AnswersTheList
<1>1. Inv => AnswersTheList
  BY DEF Inv, RequestInv, ServedInv, AnswersTheList
<1> QED BY <1>1, Invariance, PTL

\* The plan always scrapes the latest session, which is the only one whose
\* schedule still changes: it is never served from an older cache.
THEOREM LatestIsNeverOld == Spec => []LatestIsFresh
<1>1. Inv => LatestIsFresh
  BY DEF Inv, RequestInv, ServedInv, LatestIsFresh
<1> QED BY <1>1, Invariance, PTL

\* refresh=1 goes past the cache for every session, in a retried attempt too.
THEOREM ForcedIsNeverOld == Spec => []ForcedIsFresh
<1>1. Inv => ForcedIsFresh
  BY DEF Inv, RequestInv, ServedInv, ForcedIsFresh
<1> QED BY <1>1, Invariance, PTL
=============================================================================
