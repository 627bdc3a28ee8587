----------------------------- MODULE ScrapePool -----------------------------
(***************************************************************************)
(* One attempt of the schedule or of the result handler: a page per        *)
(* session, fetched by a pool of workers.                                  *)
(*                                                                         *)
(* A feeder puts the sessions on the channel jobs and closes it; each      *)
(* worker takes sessions until the channel is drained, and puts one reply  *)
(* per session on the channel results; the handler's goroutine receives as *)
(* many replies as there are sessions.  The workers share one cookie and   *)
(* one atomic flag, stale, raised by whichever fetches the login form.     *)
(*                                                                         *)
(* A schedule takes two fetches, the page that carries the token and then  *)
(* the data; a result page is one.                                         *)
(***************************************************************************)
EXTENDS Naturals, Sequences, FiniteSets

CONSTANTS N,          \* sessions to fetch, numbered in the dropdown's order
          Workers,    \* the pool (maxWorkers goroutines)
          Faults,     \* fetches may fail for other reasons than the session
          Panics      \* the code of a worker may panic

ASSUME ScrapePoolAssumption ==
    /\ N \in Nat \ {0}
    /\ IsFiniteSet(Workers) /\ Workers # {}
    /\ {Faults, Panics} \subseteq BOOLEAN

VARIABLES pool,      \* whose pool it is: the schedule's or the results'
          dead,      \* i-Ma'luum no longer accepts the cookie
          sent,      \* sessions the feeder has put on jobs
          jobs,      \* the channel of sessions
          closed,    \* jobs is closed
          at, job,   \* where each worker is, and with which session
          reply,     \* the kind of reply it has ready
          results,   \* the channel of replies
          stale,     \* the shared flag
          collected, \* the replies received, in the order of arrival
          lost,      \* history: sessions whose worker panicked
          outcome    \* what the attempt returns to runWithRetry

world == <<pool, dead>>
feeder == <<sent, closed>>
worker == <<at, job, reply>>
handler == <<collected, outcome>>
vars == <<world, feeder, jobs, worker, results, stale, handler, lost>>

Sessions == 1..N
Kinds == {"data", "empty", "error"}
Reply == [session : Sessions, kind : Kinds]
Places == {"take", "page", "data", "map", "send", "exit"}

Init == /\ pool \in {"schedule", "result"}
        /\ dead = FALSE
        /\ sent = 0
        /\ jobs = <<>>
        /\ closed = FALSE
        /\ at = [w \in Workers |-> "take"]
        /\ job = [w \in Workers |-> 1]
        /\ reply = [w \in Workers |-> "data"]
        /\ results = <<>>
        /\ stale = FALSE
        /\ collected = <<>>
        /\ lost = {}
        /\ outcome = "none"

-----------------------------------------------------------------------------
(* The feeder.                                                             *)

\* Mutant: the loop runs once too often.
FeedMutant ==
    /\ sent <= N /\ Len(jobs) < N
    /\ sent' = sent + 1
    /\ jobs' = Append(jobs, sent + 1)
    /\ UNCHANGED <<world, closed, worker, results, stale, handler, lost>>

Feed ==
    /\ sent < N /\ Len(jobs) < N
    /\ sent' = sent + 1
    /\ jobs' = Append(jobs, sent + 1)
    /\ UNCHANGED <<world, closed, worker, results, stale, handler, lost>>

\* Mutant: the channel is left open.
CloseMutant ==
    /\ sent = N /\ ~closed /\ outcome # "none"
    /\ UNCHANGED vars

Close ==
    /\ sent = N /\ ~closed
    /\ closed' = TRUE
    /\ UNCHANGED <<world, sent, jobs, worker, results, stale, handler, lost>>

-----------------------------------------------------------------------------
(* The workers.                                                            *)

Goto(w, from, to) == at[w] = from /\ at' = [at EXCEPT ![w] = to]

\* Mutant: a received session is not removed from the channel.
TakeMutant(w) ==
    /\ Goto(w, "take", "page") /\ jobs # <<>>
    /\ job' = [job EXCEPT ![w] = Head(jobs)]
    /\ UNCHANGED <<world, feeder, jobs, reply, results, stale, handler, lost>>

Take(w) ==
    /\ Goto(w, "take", "page") /\ jobs # <<>>
    /\ job' = [job EXCEPT ![w] = Head(jobs)]
    /\ jobs' = Tail(jobs)
    /\ UNCHANGED <<world, feeder, reply, results, stale, handler, lost>>

Exit(w) ==
    /\ Goto(w, "take", "exit") /\ jobs = <<>> /\ closed
    /\ UNCHANGED <<world, feeder, jobs, job, reply, results, stale, handler, lost>>

Fail(w, from) ==
    /\ Faults
    /\ Goto(w, from, "send")
    /\ reply' = [reply EXCEPT ![w] = "error"]
    /\ UNCHANGED <<world, feeder, jobs, job, results, stale, handler, lost>>

\* The page: the login form raises the flag, and the session is answered with
\* an empty one.  A schedule worker that finds the flag up, whoever raised it,
\* goes no further either; a result worker does not look at it.
Page(w) ==
    /\ stale' = (stale \/ dead)
    /\ IF dead \/ (pool = "schedule" /\ stale)
         THEN /\ Goto(w, "page", "send")
              /\ reply' = [reply EXCEPT ![w] = "empty"]
         ELSE /\ Goto(w, "page", IF pool = "schedule" THEN "data" ELSE "map")
              /\ UNCHANGED reply
    /\ UNCHANGED <<world, feeder, jobs, job, results, handler, lost>>

\* The data: with a dead cookie the endpoint answers with something that does
\* not decode, which is an error and raises no flag.
Data(w) ==
    /\ Goto(w, "data", IF dead THEN "send" ELSE "map")
    /\ reply' = [reply EXCEPT ![w] = IF dead THEN "error" ELSE @]
    /\ UNCHANGED <<world, feeder, jobs, job, results, stale, handler, lost>>

Map(w) ==
    /\ Goto(w, "map", "send")
    /\ reply' = [reply EXCEPT ![w] = "data"]
    /\ UNCHANGED <<world, feeder, jobs, job, results, stale, handler, lost>>

\* CatchPanic recovers, the worker goes on, and nothing is sent.
Panic(w) ==
    /\ Panics
    /\ Goto(w, "map", "take")
    /\ lost' = lost \cup {job[w]}
    /\ UNCHANGED <<world, feeder, jobs, job, reply, results, stale, handler>>

\* Mutant: the error path of a worker returns without a reply.
SendMutant(w) ==
    /\ Goto(w, "send", "take") /\ Len(results) < N
    /\ results' = IF reply[w] = "error" THEN results
                  ELSE Append(results, [session |-> job[w], kind |-> reply[w]])
    /\ UNCHANGED <<world, feeder, jobs, job, reply, stale, handler, lost>>

Send(w) ==
    /\ Goto(w, "send", "take") /\ Len(results) < N
    /\ results' = Append(results, [session |-> job[w], kind |-> reply[w]])
    /\ UNCHANGED <<world, feeder, jobs, job, reply, stale, handler, lost>>

-----------------------------------------------------------------------------
(* The handler's goroutine, and i-Ma'luum.                                 *)

Collect ==
    /\ Len(collected) < N /\ results # <<>>
    /\ collected' = Append(collected, Head(results))
    /\ results' = Tail(results)
    /\ UNCHANGED <<world, feeder, jobs, worker, stale, outcome, lost>>

Failed == \E i \in DOMAIN collected : collected[i].kind = "error"

\* Mutant: the flag is not looked at again after the pool.
ReturnMutant ==
    /\ Len(collected) = N /\ outcome = "none"
    /\ outcome' = IF Failed THEN "error" ELSE "ok"
    /\ UNCHANGED <<world, feeder, jobs, worker, results, stale, collected, lost>>

\* An error of any session comes first, then the flag.
Return ==
    /\ Len(collected) = N /\ outcome = "none"
    /\ outcome' = IF Failed THEN "error" ELSE IF stale THEN "stale" ELSE "ok"
    /\ UNCHANGED <<world, feeder, jobs, worker, results, stale, collected, lost>>

SessionEnds ==
    /\ ~dead
    /\ dead' = TRUE
    /\ UNCHANGED <<pool, feeder, jobs, worker, results, stale, handler, lost>>

Work(w) == \/ Take(w) \/ Exit(w)
           \/ Page(w) \/ Data(w) \/ Map(w) \/ Panic(w) \/ Send(w)
           \/ Fail(w, "page") \/ Fail(w, "data")

Next == \/ Feed \/ Close
        \/ \E w \in Workers : Work(w)
        \/ Collect \/ Return
        \/ SessionEnds

Spec == Init /\ [][Next]_vars

\* Goroutines are scheduled, and every fetch ends (scrapeTimeout).
Fairness == /\ WF_vars(Feed \/ Close)
            /\ \A w \in Workers : WF_vars(Work(w))
            /\ WF_vars(Collect \/ Return)
FairSpec == Spec /\ Fairness

-----------------------------------------------------------------------------
(* Properties.                                                             *)

\* The type invariant.
TypeOK ==
    /\ pool \in {"schedule", "result"}
    /\ {dead, closed, stale} \subseteq BOOLEAN
    /\ sent \in 0..N
    /\ jobs \in Seq(Sessions) /\ Len(jobs) <= N
    /\ at \in [Workers -> Places]
    /\ job \in [Workers -> Sessions]
    /\ reply \in [Workers -> Kinds]
    /\ results \in Seq(Reply) /\ Len(results) <= N
    /\ collected \in Seq(Reply) /\ Len(collected) <= N
    /\ lost \subseteq Sessions
    /\ outcome \in {"none", "ok", "stale", "error"}

Busy(s) == {w \in Workers : job[w] = s /\ at[w] \notin {"take", "exit"}}
Positions(seq, s) == {i \in DOMAIN seq : seq[i].session = s}

\* No session is fetched twice or forgotten: once fed, it is in exactly one
\* place: waiting, with one worker, replied to, received, or lost to a panic.
EachSessionOnce ==
    \A s \in Sessions :
        Cardinality({i \in DOMAIN jobs : jobs[i] = s}) + Cardinality(Busy(s))
          + Cardinality(Positions(results, s)) + Cardinality(Positions(collected, s))
          + (IF s \in lost THEN 1 ELSE 0)
        = IF s <= sent THEN 1 ELSE 0

\* A worker never blocks on its reply, so none is left behind when the handler
\* has what it needs: there is room on results for every worker that replies.
RoomForReplies ==
    Len(results) + Cardinality({w \in Workers : at[w] = "send"}) <= N

\* An attempt that succeeds has fetched every session with a live cookie: an
\* empty schedule that stands for the login form is never served.
OkIsComplete ==
    outcome = "ok" => {collected[i] : i \in DOMAIN collected} =
                        [session : Sessions, kind : {"data"}]

\* The attempt returns, unless a worker panicked.
ReturnsUnlessPanic == <>(outcome # "none" \/ lost # {})

\* The workers go away, whatever happened: none is leaked.
WorkersExit == <>(\A w \in Workers : at[w] = "exit")

\* A login form that was seen leads to the recovery of the session.
StaleIsRecovered == stale /\ outcome # "none" => outcome = "stale"
=============================================================================
