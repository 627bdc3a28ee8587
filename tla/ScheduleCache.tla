---------------------------- MODULE ScheduleCache ----------------------------
(***************************************************************************)
(* GET /api/schedule of one student, by several requests at once, over the *)
(* schedule cache that GEI keeps.                                          *)
(*                                                                         *)
(* A request discovers the sessions that i-Ma'luum offers, reads GEI,      *)
(* scrapes the latest session and those GEI lacks (all of them when it is  *)
(* forced with refresh=1, or when GEI has nothing), merges, and stores the *)
(* merge in GEI.  A login form met on the way makes the whole attempt      *)
(* stale, and it is made once more with the cookie of refreshSession.      *)
(*                                                                         *)
(* Sessions are numbered in the order of time.  i-Ma'luum changes only the *)
(* schedule of its latest session; a version counts these changes, and 0   *)
(* is the empty schedule a worker replies with for the login form.         *)
(***************************************************************************)
EXTENDS Integers, FiniteSets, FiniteSetsExt

CONSTANTS Requests,
          HasIndexer,  \* GEI is configured
          GeiFaults,   \* calls of GEI may fail
          FirstTerm,   \* the term, in its year, of the first session
          MaxSession,  \* bound: sessions i-Ma'luum ever has
          MaxVersion   \* bound: versions of a session

ASSUME ScheduleCacheAssumption ==
    /\ {HasIndexer, GeiFaults} \subseteq BOOLEAN
    /\ FirstTerm \in 1..3
    /\ MaxSession \in Nat \ {0} /\ MaxVersion \in Nat \ {0}

VARIABLES version,  \* version[s]: i-Ma'luum's schedule of session s
          offered,  \* the sessions in i-Ma'luum's list
          gei,      \* the schedules GEI keeps
          stage, forced, attempt,
          cookieOk, \* i-Ma'luum accepts the request's cookie
          list,     \* the sessions the request discovered
          cached,   \* what it read from GEI
          plan,     \* the sessions it has yet to scrape
          scraped,  \* what it scraped
          stale,    \* it met the login form
          failed,   \* a fetch of it failed
          answer, served,
          before    \* history: i-Ma'luum's schedules when the request came

upstream == <<version, offered>>
scrape == <<list, cached, plan, scraped, stale, failed>>
reply == <<answer, served>>
vars == <<upstream, gei, stage, forced, attempt, cookieOk, scrape, reply, before>>

Sessions == 1..MaxSession
Placeholder == 0   \* the sessions of UnwantedSessionQueries
Versions == 0..MaxVersion
Empty == <<>>
Schedules == UNION {[S -> Versions] : S \in SUBSET Sessions}
Stages == {"new", "discover", "lookup", "scrape", "store", "done"}

Init == /\ version = [s \in Sessions |-> 1]
        /\ offered = {1}
        /\ gei = Empty
        /\ stage = [r \in Requests |-> "new"]
        /\ forced = [r \in Requests |-> FALSE]
        /\ attempt = [r \in Requests |-> 1]
        /\ cookieOk = [r \in Requests |-> TRUE]
        /\ list = [r \in Requests |-> {}]
        /\ cached = [r \in Requests |-> Empty]
        /\ plan = [r \in Requests |-> {}]
        /\ scraped = [r \in Requests |-> Empty]
        /\ stale = [r \in Requests |-> FALSE]
        /\ failed = [r \in Requests |-> FALSE]
        /\ answer = [r \in Requests |-> "none"]
        /\ served = [r \in Requests |-> Empty]
        /\ before = [r \in Requests |-> Empty]

Goto(r, from, to) == stage[r] = from /\ stage' = [stage EXCEPT ![r] = to]

Answer(r, from, what) ==
    /\ Goto(r, from, "done")
    /\ answer' = [answer EXCEPT ![r] = what]

-----------------------------------------------------------------------------

Arrive(r, refresh) ==
    /\ Goto(r, "new", "discover")
    /\ forced' = [forced EXCEPT ![r] = refresh]
    /\ before' = [before EXCEPT ![r] = version]
    /\ UNCHANGED <<upstream, gei, attempt, cookieOk, scrape, reply>>

SessionsFromAllSem(all) == all \ {Placeholder}

\* The default page and its data: the list of sessions.  A login form makes
\* the attempt stale; a session that ends between the two, or any other fault
\* of the two fetches, is an error.
Discover(r) ==
    /\ \/ /\ cookieOk[r]
          /\ Goto(r, "discover", "lookup")
          /\ list' = [list EXCEPT ![r] = SessionsFromAllSem(offered \cup {Placeholder})]
          /\ UNCHANGED <<stale, answer>>
       \/ /\ ~cookieOk[r]
          /\ Goto(r, "discover", "scrape")
          /\ stale' = [stale EXCEPT ![r] = TRUE]
          /\ UNCHANGED <<list, answer>>
       \/ /\ Answer(r, "discover", "error")
          /\ UNCHANGED <<list, stale>>
    /\ UNCHANGED <<upstream, gei, forced, attempt, cookieOk, before>>
    /\ UNCHANGED <<cached, plan, scraped, failed, served>>

\* A session as its name has it: three terms a year.
Term(s) == ((FirstTerm + s - 2) % 3) + 1
YearOf(s) == (FirstTerm + s - 2) \div 3

\* Mutant: the terms are compared, and the year breaks a tie.
SortSessionNamesMutant(a, b) ==
    IF Term(a) # Term(b) THEN Term(a) > Term(b) ELSE YearOf(a) > YearOf(b)

\* a comes before b: the newer first.
SortSessionNames(a, b) ==
    IF YearOf(a) # YearOf(b) THEN YearOf(a) > YearOf(b) ELSE Term(a) > Term(b)

\* The loop of latestSessionQuery, over a list in any order.
Latest(S) ==
    FoldSet(LAMBDA s, latest : IF SortSessionNames(s, latest) THEN s ELSE latest,
            CHOOSE s \in S : TRUE, S)

\* What resolveSchedules scrapes, given what it found in GEI.
Plan(r, known) ==
    IF known = Empty THEN list[r]
    ELSE (list[r] \ DOMAIN known) \cup {Latest(list[r])}

\* Mutant: refresh=1 is not looked at.
KnownMutant(r) == IF HasIndexer THEN {gei} ELSE {Empty}

\* What the request may take from GEI: nothing when it is forced, or when the
\* call fails.
Known(r) ==
    IF forced[r] \/ ~HasIndexer THEN {Empty}
    ELSE {gei} \cup (IF GeiFaults THEN {Empty} ELSE {})

Lookup(r) ==
    /\ Goto(r, "lookup", "scrape")
    /\ \E known \in Known(r) :
         /\ cached' = [cached EXCEPT ![r] = known]
         /\ plan' = [plan EXCEPT ![r] = Plan(r, known)]
    /\ UNCHANGED <<upstream, gei, forced, attempt, cookieOk, list, scraped, stale, failed, reply, before>>

With(f, s, v) == [x \in DOMAIN f \cup {s} |-> IF x = s THEN v ELSE f[x]]

\* A worker fetches a session: its schedule, or with a dead cookie the login
\* form (an empty schedule, and the flag).  Any fetch may fail, and an error
\* decides the attempt whatever the other workers bring.
Scrape(r, s) ==
    /\ stage[r] = "scrape" /\ s \in plan[r]
    /\ \/ /\ cookieOk[r]
          /\ plan' = [plan EXCEPT ![r] = @ \ {s}]
          /\ scraped' = [scraped EXCEPT ![r] = With(@, s, version[s])]
          /\ UNCHANGED <<stale, failed>>
       \/ /\ ~cookieOk[r]
          /\ plan' = [plan EXCEPT ![r] = @ \ {s}]
          /\ scraped' = [scraped EXCEPT ![r] = With(@, s, 0)]
          /\ stale' = [stale EXCEPT ![r] = TRUE]
          /\ UNCHANGED failed
       \/ /\ failed' = [failed EXCEPT ![r] = TRUE]
          /\ plan' = [plan EXCEPT ![r] = {}]
          /\ UNCHANGED <<scraped, stale>>
    /\ UNCHANGED <<upstream, gei, stage, forced, attempt, cookieOk, list, cached, reply, before>>

\* Mutant: sessions that are no longer offered are served from the cache.
MergeMutant(r) ==
    [s \in DOMAIN scraped[r] \cup DOMAIN cached[r] |->
        IF s \in DOMAIN scraped[r] THEN scraped[r][s] ELSE cached[r][s]]

\* In the order of the list, a fresh scrape wins over the cache.
Merge(r) ==
    [s \in list[r] \cap (DOMAIN scraped[r] \cup DOMAIN cached[r]) |->
        IF s \in DOMAIN scraped[r] THEN scraped[r][s] ELSE cached[r][s]]

Deliver(r) ==
    /\ Goto(r, "scrape", "store")
    /\ served' = [served EXCEPT ![r] = Merge(r)]
    /\ UNCHANGED <<attempt, cookieOk, answer>>

\* Mutant: a stale attempt is made again, however often.
RetryMutant(r) ==
    /\ Goto(r, "scrape", "discover")
    /\ attempt' = [attempt EXCEPT ![r] = @ + 1]
    /\ \E ok \in BOOLEAN : cookieOk' = [cookieOk EXCEPT ![r] = ok]
    /\ UNCHANGED reply

\* runWithRetry: the first stale attempt takes the cookie of refreshSession,
\* which is fresh or, in a race or with faults, stale again.
Retry(r) ==
    /\ attempt[r] = 1
    /\ Goto(r, "scrape", "discover")
    /\ attempt' = [attempt EXCEPT ![r] = 2]
    /\ \E ok \in BOOLEAN : cookieOk' = [cookieOk EXCEPT ![r] = ok]
    /\ UNCHANGED reply

GiveUp(r, what) ==
    /\ Answer(r, "scrape", what)
    /\ UNCHANGED <<attempt, cookieOk, served>>

\* What the attempt read and scraped is gone when it ends.
ForgetAttempt(r) ==
    /\ plan[r] = {}
    /\ cached' = [cached EXCEPT ![r] = Empty]
    /\ scraped' = [scraped EXCEPT ![r] = Empty]
    /\ stale' = [stale EXCEPT ![r] = FALSE]
    /\ failed' = [failed EXCEPT ![r] = FALSE]
    /\ UNCHANGED <<upstream, gei, forced, list, plan, before>>

\* Mutant: only an error stops the attempt.
EndAttemptMutant(r) ==
    /\ IF failed[r] THEN GiveUp(r, "error") ELSE Deliver(r)
    /\ ForgetAttempt(r)

\* An error of any fetch comes first, then the flag; refreshSession may fail.
EndAttempt(r) ==
    /\ \/ failed[r] /\ GiveUp(r, "error")
       \/ ~failed[r] /\ stale[r] /\ Retry(r)
       \/ ~failed[r] /\ stale[r] /\ GiveUp(r, IF attempt[r] = 1 THEN "error" ELSE "stale")
       \/ ~failed[r] /\ ~stale[r] /\ Deliver(r)
    /\ ForgetAttempt(r)

\* StoreSchedule, best effort, and the reply.
Store(r) ==
    /\ Answer(r, "store", "ok")
    /\ \/ HasIndexer /\ gei' = served[r]
       \/ (~HasIndexer \/ GeiFaults) /\ gei' = gei
    /\ UNCHANGED <<upstream, forced, attempt, cookieOk, scrape, served, before>>

-----------------------------------------------------------------------------
(* i-Ma'luum: a cookie dies, the current schedule changes, a semester       *)
(* begins, an old one is taken off the list.                                *)

SessionEnds(r) ==
    /\ cookieOk[r] /\ stage[r] \in {"discover", "lookup", "scrape"}
    /\ cookieOk' = [cookieOk EXCEPT ![r] = FALSE]
    /\ UNCHANGED <<upstream, gei, stage, forced, attempt, scrape, reply, before>>

Edit ==
    /\ version[Max(offered)] < MaxVersion
    /\ version' = [version EXCEPT ![Max(offered)] = @ + 1]
    /\ UNCHANGED <<offered, gei, stage, forced, attempt, cookieOk, scrape, reply, before>>

Rollover ==
    /\ Max(offered) < MaxSession
    /\ offered' = offered \cup {Max(offered) + 1}
    /\ UNCHANGED <<version, gei, stage, forced, attempt, cookieOk, scrape, reply, before>>

Withdraw ==
    /\ Cardinality(offered) > 1
    /\ offered' = offered \ {Min(offered)}
    /\ UNCHANGED <<version, gei, stage, forced, attempt, cookieOk, scrape, reply, before>>

Progress(r) ==
    \/ Discover(r) \/ Lookup(r)
    \/ \E s \in plan[r] : Scrape(r, s)
    \/ EndAttempt(r) \/ Store(r)

Next == \/ \E r \in Requests, refresh \in BOOLEAN : Arrive(r, refresh)
        \/ \E r \in Requests : Progress(r) \/ SessionEnds(r)
        \/ Edit \/ Rollover \/ Withdraw

Spec == Init /\ [][Next]_vars

-----------------------------------------------------------------------------
(* Properties.                                                             *)

\* The type invariant.
TypeOK ==
    /\ version \in [Sessions -> Versions]
    /\ offered \subseteq Sessions /\ offered # {}
    /\ gei \in Schedules
    /\ stage \in [Requests -> Stages]
    /\ {forced, cookieOk, stale, failed} \subseteq [Requests -> BOOLEAN]
    /\ attempt \in [Requests -> 1..2]
    /\ {list, plan} \subseteq [Requests -> SUBSET Sessions]
    /\ {cached, scraped, served, before} \subseteq [Requests -> Schedules]
    /\ answer \in [Requests -> {"none", "ok", "error", "stale"}]

Ok(r) == answer[r] = "ok"

\* The login page never poisons the cache, nor an answer: neither ever holds
\* the empty schedule of a session that was not seen with a live cookie.
NoPoison ==
    /\ \A s \in DOMAIN gei : gei[s] # 0
    /\ \A r \in Requests : Ok(r) => \A s \in DOMAIN served[r] : served[r][s] # 0

\* An answer holds exactly the sessions i-Ma'luum listed: none is missing, and
\* none that was taken off the list comes back from the cache.
AnswersTheList == \A r \in Requests : Ok(r) => DOMAIN served[r] = list[r]

\* The latest session is served as it was when the request came, or newer,
\* however old the cache is.
LatestIsFresh ==
    \A r \in Requests : Ok(r) =>
        served[r][Max(list[r])] >= before[r][Max(list[r])]

\* refresh=1 serves every session as it was when the request came, or newer.
ForcedIsFresh ==
    \A r \in Requests : Ok(r) /\ forced[r] =>
        \A s \in list[r] : served[r][s] >= before[r][s]
=============================================================================
