--------------------------- MODULE SessionRecovery ---------------------------
(***************************************************************************)
(* Authenticated requests, from the PASETO middleware to the answer: a     *)
(* request takes its user's i-Ma'luum cookie from the TokenManager (L1),   *)
(* whose refresh (sessionFunc) reuses the cookie kept in GEI (L2) or logs  *)
(* in.  A scrape that meets the CAS login form evicts L1 and L2, takes a   *)
(* cookie again and is made once more; a download or a logout uses the     *)
(* cookie as it is.  The server may crash and start again: L1 and all      *)
(* requests are gone, and what GEI keeps is not.                           *)
(*                                                                         *)
(* The TokenManager is the module of that name, on the same variables:     *)
(* every step below is one of its steps, or leaves it alone while the      *)
(* refresh of a leader talks to GEI and to the login service.              *)
(***************************************************************************)
EXTENDS Naturals, FiniteSets

CONSTANTS Users, Requests, None,
          Handlers,    \* the handlers behind the middleware
          HasIndexer,  \* GEI is configured (s.indexer # nil)
          GeiFaults,   \* calls of GEI may fail
          LoginFaults, \* logins may fail
          ScrapeFaults,\* scrapes may fail for other reasons than the session
          MaxKills,    \* bound: sessions i-Ma'luum ends by itself
          MaxHangups,  \* bound: clients that hang up
          MaxCrashes   \* bound: crashes of the server

\* The n-th successful login of a user yields its n-th cookie.  A request
\* takes a cookie at most twice, so this many logins are never exceeded.
MaxCalls == 2 * Cardinality(Requests)
Cookies == [user : Users, n : 1..MaxCalls]
CookieOwner == [c \in Cookies |-> c.user]

ASSUME SessionRecoveryAssumption ==
    /\ IsFiniteSet(Requests)
    /\ {HasIndexer, GeiFaults, LoginFaults, ScrapeFaults} \subseteq BOOLEAN
    /\ Handlers \subseteq {"scrape", "download", "logout"}
    /\ {MaxKills, MaxHangups, MaxCrashes} \subseteq Nat
    /\ None \notin Users \cup Cookies

VARIABLES tokens, inflight, pc, key, val, calls, started, floor, since,
          gei,     \* gei[u]: the cookie GEI keeps for u
          alive,   \* the cookies i-Ma'luum accepts
          logins,  \* successful logins of each user
          stage,   \* where each request is
          user,    \* whose request it is
          cookie,  \* the cookie the request scrapes with
          step,    \* how far the refresh this request leads has come
          got,     \* the cookie its login returned
          answer,  \* what the client got
          gone,    \* requests whose client has hung up
          kills,   \* history: sessions ended by i-Ma'luum
          evicted, \* history: cookies deleted from GEI
          late,    \* history: those deleted by a request that found an older one stale
          clean,   \* history: the request's eviction met no refresh under way
          crashes, \* history: crashes of the server
          lost     \* history: logins of each user that a crash kept out of GEI

TM == INSTANCE TokenManager
        WITH Keys <- Users, Callers <- Requests,
             Tokens <- Cookies, Owner <- CookieOwner

l1 == <<tokens, inflight, pc, key, val, calls, started, floor, since>>
refresh == <<step, got>>
upstream == <<alive, logins, kills>>
l2 == <<gei, evicted, late>>
request == <<stage, user, cookie, answer, clean>>
process == <<crashes, lost>>
vars == <<l1, refresh, upstream, l2, request, gone, process>>

Stages == {"new", "auth", "scrape", "data", "evict", "delete", "reauth", "retry", "redata",
           "download", "logout", "stuck", "done"}
Answers == {"none", "ok", "unauthorized", "upstream", "stale", "relogin",
            "pdf", "login form", "logged out", "cut"}

Init == /\ TM!Init
        /\ gei = [u \in Users |-> None]
        /\ alive = {}
        /\ logins = [u \in Users |-> 0]
        /\ stage = [r \in Requests |-> "new"]
        /\ user = [r \in Requests |-> None]
        /\ cookie = [r \in Requests |-> None]
        /\ step = [r \in Requests |-> "get"]
        /\ got = [r \in Requests |-> None]
        /\ answer = [r \in Requests |-> "none"]
        /\ gone = {}
        /\ kills = 0
        /\ evicted = [u \in Users |-> {}]
        /\ late = [u \in Users |-> {}]
        /\ clean = [r \in Requests |-> FALSE]
        /\ crashes = 0
        /\ lost = [u \in Users |-> 0]

-----------------------------------------------------------------------------
(* sessionFunc, run by the leader of a flight.  A call of GEI fails when   *)
(* GEI does, or when the context it runs under is cancelled: that of the   *)
(* leader's own client.  Calls are atomic: one that failed, or that a      *)
(* crash cut off, was executed at that moment or never; GEI does not get   *)
(* to it after later calls.                                                *)

GeiFails(r) == GeiFaults \/ r \in gone

Refreshing(r, where) == TM!At(r, "refresh") /\ step[r] = where

\* Mutant: the cookie that was found is persisted again, like a new one.
SessionFoundMutant(r) ==
    /\ Refreshing(r, "get")
    /\ HasIndexer /\ gei[key[r]] # None
    /\ got' = [got EXCEPT ![r] = gei[key[r]]]
    /\ step' = [step EXCEPT ![r] = "persist"]
    /\ UNCHANGED <<l1, upstream, l2, request, gone, process>>

SessionFound(r) ==
    /\ Refreshing(r, "get")
    /\ HasIndexer /\ gei[key[r]] # None
    /\ TM!RefreshOk(r, gei[key[r]])
    /\ UNCHANGED <<refresh, upstream, l2, request, gone, process>>

ToLogin(r) ==
    /\ step' = [step EXCEPT ![r] = "login"]
    /\ UNCHANGED <<l1, got, upstream, l2, request, gone, process>>

\* Mutant: GEI is not consulted before a login.
SessionNotFoundMutant(r) == Refreshing(r, "get") /\ ToLogin(r)

SessionNotFound(r) ==
    /\ Refreshing(r, "get")
    /\ ~HasIndexer \/ gei[key[r]] = None \/ GeiFails(r)
    /\ ToLogin(r)

LoginOk(r) ==
    LET u == key[r]
        fresh == [user |-> u, n |-> logins[u] + 1]
    IN  /\ Refreshing(r, "login") /\ fresh \in Cookies
        /\ logins' = [logins EXCEPT ![u] = @ + 1]
        /\ alive' = alive \cup {fresh}
        /\ got' = [got EXCEPT ![r] = fresh]
        /\ step' = [step EXCEPT ![r] = "persist"]
        /\ UNCHANGED <<l1, kills, l2, request, gone, process>>

\* Mutants: the error is taken for an empty cookie; the flight is left without
\* a result; all refreshes run under one context, that any client can cancel.
LoginErrMutantEmpty(r) ==
    /\ Refreshing(r, "login")
    /\ LoginFaults \/ r \in gone
    /\ step' = [step EXCEPT ![r] = "persist"]
    /\ UNCHANGED <<l1, got, upstream, l2, request, gone, process>>

LoginErrMutantAbandon(r) ==
    /\ Refreshing(r, "login")
    /\ LoginFaults \/ r \in gone
    /\ TM!Goto(r, "return")
    /\ val' = [val EXCEPT ![r] = TM!Nothing]
    /\ step' = [step EXCEPT ![r] = "get"]
    /\ UNCHANGED <<tokens, inflight, key, calls, started, floor, since>>
    /\ UNCHANGED <<got, upstream, l2, request, gone, process>>

LoginErrMutantShared(r) ==
    /\ Refreshing(r, "login")
    /\ LoginFaults \/ gone # {}
    /\ TM!RefreshErr(r)
    /\ step' = [step EXCEPT ![r] = "get"]
    /\ UNCHANGED <<got, upstream, l2, request, gone, process>>

LoginErr(r) ==
    /\ Refreshing(r, "login")
    /\ LoginFaults \/ r \in gone
    /\ TM!RefreshErr(r)
    /\ step' = [step EXCEPT ![r] = "get"]
    /\ UNCHANGED <<got, upstream, l2, request, gone, process>>

\* Mutant: the cookie is persisted in the background, after it was returned.
PersistMutant(r, stored) ==
    /\ \/ /\ Refreshing(r, "persist")
          /\ TM!RefreshOk(r, got[r])
          /\ step' = [step EXCEPT ![r] = "get"]
          /\ UNCHANGED <<gei, got>>
       \/ /\ step[r] = "get" /\ got[r] # None
          /\ gei' = [gei EXCEPT ![got[r].user] = got[r]]
          /\ got' = [got EXCEPT ![r] = None]
          /\ UNCHANGED <<l1, step>>
    /\ UNCHANGED <<upstream, evicted, late, request, gone, process>>

\* StoreSession is best effort: the cookie is returned whether or not it was
\* persisted.
Persist(r, stored) ==
    /\ Refreshing(r, "persist")
    /\ stored => HasIndexer
    /\ ~stored => ~HasIndexer \/ GeiFails(r)
    /\ gei' = IF stored THEN [gei EXCEPT ![key[r]] = got[r]] ELSE gei
    /\ TM!RefreshOk(r, got[r])
    /\ step' = [step EXCEPT ![r] = "get"]
    /\ got' = [got EXCEPT ![r] = None]
    /\ UNCHANGED <<upstream, evicted, late, request, gone, process>>

\* The rest of GetToken is the TokenManager's own.
InGetToken(r) ==
    /\ \/ TM!LookupHit(r) \/ TM!LookupMiss(r)
       \/ TM!Lead(r) \/ TM!Join(r)
       \/ TM!RecheckHit(r) \/ TM!RecheckMiss(r)
       \/ \E live \in BOOLEAN : TM!Store(r, live)
       \/ TM!Publish(r)
    /\ UNCHANGED <<refresh, upstream, l2, request, gone, process>>

-----------------------------------------------------------------------------
(* The request: PasetoAuthenticator, scrapeWithRetry and refreshSession.   *)

Advance(r, from, to) == stage[r] = from /\ stage' = [stage EXCEPT ![r] = to]

Respond(r, from, reply) ==
    /\ Advance(r, from, "done")
    /\ answer' = [answer EXCEPT ![r] = reply]

Arrive(r, u) ==
    /\ Advance(r, "new", "auth")
    /\ user' = [user EXCEPT ![r] = u]
    /\ TM!Call(r, u)
    /\ UNCHANGED <<refresh, upstream, l2, cookie, answer, clean, gone, process>>

\* The middleware: an error of GetToken is a 401, a cookie goes to the handler.
Authenticate(r) ==
    /\ TM!Return(r)
    /\ IF val[r].token = None
         THEN /\ Respond(r, "auth", "unauthorized")
              /\ UNCHANGED cookie
         ELSE /\ \E handler \in Handlers : Advance(r, "auth", handler)
              /\ cookie' = [cookie EXCEPT ![r] = val[r].token]
              /\ UNCHANGED answer
    /\ UNCHANGED <<refresh, upstream, l2, user, clean, gone, process>>

Fetching(r, live) == (cookie[r] \in alive) = live

\* These fetches run under the context of the client's request.
FetchFails(r) == ScrapeFaults \/ r \in gone

\* The page that fn(cookie) begins with: a live cookie yields what was asked
\* for, or the page that leads to the data; a dead one the login form.  An
\* attempt with a pool never returns when a worker panics, or when GEI does not
\* answer its calls for past schedules: it is stuck.
Scrape(r) ==
    /\ \/ /\ Fetching(r, TRUE)
          /\ \/ Respond(r, "scrape", "ok") \/ Respond(r, "retry", "ok")
             \/ UNCHANGED answer /\ (Advance(r, "scrape", "data") \/ Advance(r, "retry", "redata"))
       \/ /\ Fetching(r, FALSE)
          /\ \/ Advance(r, "scrape", "evict") /\ UNCHANGED answer
             \/ Respond(r, "retry", "stale")
       \/ /\ ScrapeFaults
          /\ \/ Respond(r, "scrape", "upstream") \/ Respond(r, "retry", "upstream")
             \/ UNCHANGED answer /\ (Advance(r, "scrape", "stuck") \/ Advance(r, "retry", "stuck"))
    /\ UNCHANGED <<l1, refresh, upstream, l2, user, cookie, clean, gone, process>>

\* The data endpoint behind a page.  The login form is no JSON: a session that
\* ended after the page is an error here, and nothing is recovered.
FetchData(r) ==
    /\ \/ /\ Fetching(r, TRUE)
          /\ Respond(r, "data", "ok") \/ Respond(r, "redata", "ok")
       \/ /\ Fetching(r, FALSE) \/ FetchFails(r)
          /\ Respond(r, "data", "upstream") \/ Respond(r, "redata", "upstream")
    /\ UNCHANGED <<l1, refresh, upstream, l2, user, cookie, clean, gone, process>>

\* A download streams any answer of status 200, the login form too.
Download(r) ==
    /\ \/ Fetching(r, TRUE) /\ Respond(r, "download", "pdf")
       \/ Fetching(r, FALSE) /\ Respond(r, "download", "login form")
       \/ FetchFails(r) /\ Respond(r, "download", "upstream")
    /\ UNCHANGED <<l1, refresh, upstream, l2, user, cookie, clean, gone, process>>

\* The CAS logout page is fetched with a jar that has the cookie for another
\* host, so CAS is not told which session is meant: whether i-Ma'luum ends it
\* on the redirect back is left open.  L1 and GEI are left alone.
Logout(r) ==
    /\ \/ /\ Respond(r, "logout", "logged out")
          /\ alive' \in {alive, alive \ {cookie[r]}}
       \/ /\ FetchFails(r) /\ Respond(r, "logout", "upstream")
          /\ UNCHANGED alive
    /\ UNCHANGED <<l1, refresh, logins, kills, l2, user, cookie, clean, gone, process>>

\* Mutant: the map is replaced by an empty one.
EvictMutant(r) ==
    /\ Advance(r, "evict", "delete")
    /\ tokens' = [u \in Users |-> TM!Absent]
    /\ UNCHANGED <<inflight, pc, key, val, calls, started, floor, since>>
    /\ UNCHANGED <<refresh, upstream, l2, user, cookie, answer, clean, gone, process>>

Evict(r) ==
    /\ Advance(r, "evict", "delete")
    /\ TM!Invalidate(user[r])
    /\ UNCHANGED <<refresh, upstream, l2, user, cookie, answer, clean, gone, process>>

DeleteAs(r, deleted, left) ==
    LET u == user[r]
        out == {gei[u]} \ {None}
    IN  /\ Advance(r, "delete", "reauth")
        /\ deleted => HasIndexer
        /\ ~deleted => ~HasIndexer \/ GeiFails(r)
        /\ IF deleted
             THEN /\ gei' = [gei EXCEPT ![u] = left]
                  /\ evicted' = [evicted EXCEPT ![u] = @ \cup out]
                  /\ late' = [late EXCEPT ![u] = @ \cup {c \in out : c.n > cookie[r].n}]
             ELSE UNCHANGED l2
        /\ clean' = [clean EXCEPT ![r] = /\ u \notin inflight
                                         /\ tokens[u] = TM!Absent
                                         /\ deleted \/ ~HasIndexer]
        /\ TM!Call(r, u)
        /\ UNCHANGED <<refresh, upstream, user, cookie, answer, gone, process>>

\* Mutant: only the cache in memory is evicted.
DeleteMutant(r, deleted) == DeleteAs(r, deleted, gei[user[r]])

\* DeleteSession, best effort, and the call of GetToken that follows.
Delete(r, deleted) == DeleteAs(r, deleted, None)

\* The cookie of refreshSession; its error ends the request.
Reauthenticate(r) ==
    /\ TM!Return(r)
    /\ IF val[r].token = None
         THEN /\ Respond(r, "reauth", "relogin")
              /\ UNCHANGED cookie
         ELSE /\ Advance(r, "reauth", "retry")
              /\ cookie' = [cookie EXCEPT ![r] = val[r].token]
              /\ UNCHANGED answer
    /\ UNCHANGED <<refresh, upstream, l2, user, clean, gone, process>>

-----------------------------------------------------------------------------
(* The environment: i-Ma'luum ends a session, a client hangs up, the TTL of *)
(* an entry of L1 passes, the server crashes and is started again.          *)

Kill(c) ==
    /\ c \in alive /\ kills < MaxKills
    /\ alive' = alive \ {c}
    /\ kills' = kills + 1
    /\ UNCHANGED <<l1, refresh, logins, l2, request, gone, process>>

HangUp(r) ==
    /\ stage[r] \notin {"new", "done"} /\ r \notin gone
    /\ Cardinality(gone) < MaxHangups
    /\ gone' = gone \cup {r}
    /\ UNCHANGED <<l1, refresh, upstream, l2, request, process>>

Expire(u) ==
    /\ TM!Expire(u)
    /\ UNCHANGED <<refresh, upstream, l2, request, gone, process>>

\* The requests under way are cut off, wherever they are.  GEI keeps what it
\* was given; a cookie that was not persisted yet is lost with the process.
Crash ==
    /\ crashes < MaxCrashes
    /\ crashes' = crashes + 1
    /\ TM!Restart
    /\ step' = [r \in Requests |-> "get"]
    /\ got' = [r \in Requests |-> None]
    /\ lost' = [u \in Users |-> lost[u] +
                  (IF \E r \in Requests : got[r] # None /\ key[r] = u THEN 1 ELSE 0)]
    /\ stage' = [r \in Requests |-> IF stage[r] = "new" THEN "new" ELSE "done"]
    /\ answer' = [r \in Requests |->
                     IF stage[r] \in {"new", "done"} THEN answer[r] ELSE "cut"]
    /\ UNCHANGED <<upstream, l2, user, cookie, clean, gone>>

SessionFunc(r) ==
    \/ SessionFound(r) \/ SessionNotFound(r)
    \/ LoginOk(r) \/ LoginErr(r)
    \/ \E stored \in BOOLEAN : Persist(r, stored)

Handle(r) == Scrape(r) \/ FetchData(r) \/ Download(r)

\* What the server does by itself: its own code, and fetches with a timeout.
Own(r) == \/ InGetToken(r) \/ Authenticate(r) \/ Handle(r)
          \/ Evict(r) \/ Reauthenticate(r)

\* What it waits for without a deadline: gRPC calls of GEI and of the login
\* service, and the client of the logout.
Upstream(r) == \/ SessionFunc(r) \/ Logout(r)
               \/ \E deleted \in BOOLEAN : Delete(r, deleted)

Next == \/ \E r \in Requests, u \in Users : Arrive(r, u)
        \/ \E r \in Requests : Own(r) \/ Upstream(r) \/ HangUp(r)
        \/ \E c \in alive : Kill(c)
        \/ \E u \in Users : Expire(u)
        \/ Crash

Spec == Init /\ [][Next]_vars

\* A request that has arrived is scheduled, and a fetch with a timeout ends.  A
\* call without a deadline need not: only when the client has hung up, and its
\* context is cancelled, does it end.
Fairness == \A r \in Requests :
              WF_vars(Own(r)) /\ WF_vars(r \in gone /\ Upstream(r))
FairSpec == Spec /\ Fairness
-----------------------------------------------------------------------------
(* Properties.  Those marked [no faults] are stated for a GEI that answers and for *)
(* clients that stay, and checked in runs of that kind.                    *)

\* The type invariant; a request that scrapes has a cookie of its own user,
\* and a refresh has a cookie to persist exactly when it has logged in.
TypeOK ==
    /\ TM!TypeOK
    /\ gei \in [Users -> Cookies \cup {None}]
    /\ alive \subseteq Cookies
    /\ logins \in [Users -> Nat]
    /\ stage \in [Requests -> Stages]
    /\ user \in [Requests -> Users \cup {None}]
    /\ cookie \in [Requests -> Cookies \cup {None}]
    /\ \A r \in Requests : stage[r] \notin {"new", "auth", "done"} => cookie[r].user = user[r]
    /\ step \in [Requests -> {"get", "login", "persist"}]
    /\ got \in [Requests -> Cookies \cup {None}]
    /\ \A r \in Requests : step[r] = "persist" => got[r] # None
    /\ answer \in [Requests -> Answers]
    /\ gone \subseteq Requests
    /\ kills \in 0..MaxKills
    /\ evicted \in [Users -> SUBSET Cookies]
    /\ late \in [Users -> SUBSET Cookies]
    /\ clean \in [Requests -> BOOLEAN]
    /\ crashes \in 0..MaxCrashes
    /\ lost \in [Users -> 0..MaxCrashes]

\* The requests use the TokenManager as it promises to be used: sessionFunc is
\* one of its refreshFuncs, and eviction touches its own user's entry only.
RefinesTokenManager == TM!Spec

\* The two caches never contradict each other: when L1 serves a cookie and GEI
\* keeps one, they are the same.  [no faults]
CachesAgree ==
    \A u \in Users : tokens[u].live /\ gei[u] # None => tokens[u].token = gei[u]

\* A cookie that was deleted from GEI as stale never comes back to it.
EvictedStaysOut ==
    [][\A u \in Users : gei'[u] # gei[u] => gei'[u] \notin evicted[u]]_vars

\* The user's sessions that are over.
Ended(u) == {c \in Cookies : c.user = u /\ c.n <= logins[u] /\ c \notin alive}

\* Every login but the first is owed to a session that is over, to a crash between
\* a login and the storing of its cookie, or to a recovery that came so late that
\* it took a newer cookie out of GEI than the one it had found stale.  The TTL of
\* L1, a restart, and requests that come together cost no login.  [no faults]
LoginsAreOwed ==
    \A u \in Users : logins[u] <= 1 + Cardinality(Ended(u) \cup late[u]) + lost[u]

\* What the design says of a burst of requests that find the same session stale:
\* they log in once.
BurstIsOneLogin ==
    \A u \in Users : logins[u] <= 1 + Cardinality(Ended(u)) + lost[u]

Recovers(r) == stage[r] = "reauth" /\ stage'[r] = "retry"

\* Recovery never falls back: the cookie a request retries with is not older
\* than the one it found stale.  [no faults]
NeverOlder ==
    [][\A r \in Requests : Recovers(r) => cookie'[r].n >= cookie[r].n]_vars

\* When no refresh of the user was under way at its eviction, and GEI did
\* delete, the retry runs with a newer cookie than the stale one.
RecoveryReplaces ==
    [][\A r \in Requests :
         Recovers(r) /\ clean[r] => cookie'[r].n > cookie[r].n]_vars

\* What refreshSession's comment says of every recovery.
ForcesFreshLogin ==
    [][\A r \in Requests : Recovers(r) => cookie'[r].n > cookie[r].n]_vars

\* When logins work, a request is refused for want of a session only if a
\* client of the same user hung up: the users do not fail each other.
FailureContained ==
    \A r \in Requests : answer[r] \in {"unauthorized", "relogin"} =>
        LoginFaults \/ \E q \in gone : user[q] = user[r]

\* What can hold a request for ever: its attempt is stuck; its client stays, and a
\* call without a deadline is not answered; or it waits for the refresh of another
\* request that is held in such a call (its own client hanging up does not help).
Unanswered(r) == r \notin gone /\ (pc[r] = "refresh" \/ stage[r] \in {"delete", "logout"})

Held(r) == \/ stage[r] = "stuck" \/ Unanswered(r)
           \/ /\ pc[r] = "wait"
              /\ \E l \in Requests : key[l] = key[r] /\ pc[l] = "refresh" /\ Unanswered(l)

\* Every request is answered, the ones that wait for another's refresh too, unless
\* it is held for good: no error and no client that hangs up loses one.
AnsweredUnlessHeld ==
    \A r \in Requests : []<>(stage[r] \in {"new", "done"}) \/ <>[]Held(r)

\* A request that found its cookie stale does not wait for another one while GEI
\* still has the stale one: neither its own deletion nor the persisting of others
\* leaves it there.  [no faults]
StalePurged == \A r \in Requests : stage[r] = "reauth" => gei[user[r]] # cookie[r]
=============================================================================
