------------------------------ MODULE Lifecycle ------------------------------
(***************************************************************************)
(* The process of the server, from NewServer to the end of main: requests, *)
(* the goroutine each authenticated one leaves behind to count its student *)
(* (UpdateAnalytics), and the graceful shutdown, which waits for requests  *)
(* up to a deadline and for the goroutines not at all.  A process may      *)
(* crash at any time, and another one may be started when it is down.      *)
(***************************************************************************)
EXTENDS Analytics

CONSTANTS Requests,
          UserNames,    \* the names that users log in with
          None,         \* no name
          HasDatabase,  \* DATABASE_URL is set
          MaxStarts     \* bound: starts of the server

ASSUME LifecycleAssumption ==
    /\ UserNames \subseteq Names /\ None \notin Names
    /\ HasDatabase \in BOOLEAN
    /\ MaxStarts \in Nat

VARIABLES server,  \* where the process is
          db,      \* its database connection, or "nil"
          forced,  \* its shutdown met the deadline
          starts,  \* starts so far
          stage,   \* where each request is
          name,    \* whose it is
          update   \* where the goroutine is that it spawned

process == <<server, db, forced, starts>>
request == <<stage, name>>
lifecycle == <<process, request, update>>

Active == {r \in Requests : stage[r] \in {"arrived", "served"}}

LifecycleInit ==
    /\ server = "down"
    /\ db = "nil"
    /\ forced = FALSE
    /\ starts = 0
    /\ stage = [r \in Requests |-> "new"]
    /\ name = [r \in Requests |-> None]
    /\ update = [r \in Requests |-> "none"]

-----------------------------------------------------------------------------
(* The process.                                                            *)

\* A server whose schema statements fail runs without a database until it is
\* started again.
Start(connected) ==
    /\ server = "down" /\ starts < MaxStarts
    /\ connected => HasDatabase
    /\ ~connected => ~HasDatabase \/ DbFaults
    /\ server' = "up"
    /\ db' = IF connected THEN "open" ELSE "nil"
    /\ forced' = FALSE
    /\ starts' = starts + 1
    /\ UNCHANGED <<request, update, table>>

\* Mutant: main returns at the signal, without waiting for done.
SignalMutant ==
    /\ server = "up"
    /\ server' = "exiting"
    /\ UNCHANGED <<db, forced, starts, request, update, table>>

\* SIGINT or SIGTERM: Shutdown closes the listener.  The signals that follow are
\* swallowed, as stop() is deferred to the end of the shutdown.
Signal ==
    /\ server = "up"
    /\ server' = "draining"
    /\ UNCHANGED <<db, forced, starts, request, update, table>>

Drained ==
    /\ server = "draining" /\ Active = {}
    /\ server' = "exiting"
    /\ UNCHANGED <<db, forced, starts, request, update, table>>

\* Mutant: the context of Shutdown has no deadline.
DeadlineMutant == Drained

\* The 5 s of Shutdown's context have passed.
Deadline ==
    /\ server = "draining" /\ Active # {}
    /\ server' = "exiting"
    /\ forced' = TRUE
    /\ UNCHANGED <<db, starts, request, update, table>>

\* The process is gone, with what it still had under way; a statement that it
\* has sent may yet be executed.
Gone(how) ==
    /\ server' = "down"
    /\ db' = "nil"
    /\ stage' = [r \in Requests |-> IF r \in Active THEN how ELSE stage[r]]
    /\ update' = [r \in Requests |-> CASE update[r] = "spawned" -> "lost"
                                       [] update[r] = "sent"    -> "orphan"
                                       [] OTHER                 -> update[r]]
    /\ UNCHANGED <<forced, starts, name, table>>

Exit == server = "exiting" /\ Gone("cut")
Crash == server # "down" /\ Gone("crashed")

-----------------------------------------------------------------------------
(* A request, and the goroutine it leaves behind.                          *)

Arrive(r, n) ==
    /\ server = "up" /\ stage[r] = "new"
    /\ stage' = [stage EXCEPT ![r] = "arrived"]
    /\ name' = [name EXCEPT ![r] = n]
    /\ UNCHANGED <<process, update, table>>

\* The middleware has the cookie of the user: go s.UpdateAnalytics(username).
Authenticated(r) ==
    /\ stage[r] = "arrived"
    /\ stage' = [stage EXCEPT ![r] = "served"]
    /\ update' = [update EXCEPT ![r] = "spawned"]
    /\ UNCHANGED <<process, name, table>>

\* Mutant: the goroutine runs under the context of its request.
AnswerMutant(r) ==
    /\ r \in Active
    /\ stage' = [stage EXCEPT ![r] = "answered"]
    /\ update' = [update EXCEPT ![r] = IF @ \in {"spawned", "sent"} THEN "cancelled" ELSE @]
    /\ UNCHANGED <<process, name, table>>

\* With what the handler found, or with a 401.
Answer(r) ==
    /\ r \in Active
    /\ stage' = [stage EXCEPT ![r] = "answered"]
    /\ UNCHANGED <<process, name, update, table>>

Becomes(r, from, to) == update[r] = from /\ update' = [update EXCEPT ![r] = to]

\* Mutant: the connection is used without looking whether there is one.
SendMutant(r) ==
    /\ Becomes(r, "spawned", "sent")
    /\ UNCHANGED <<process, request, table>>

\* Without a database there is nothing to do.
Send(r) ==
    /\ Becomes(r, "spawned", IF db = "open" THEN "sent" ELSE "skipped")
    /\ UNCHANGED <<process, request, table>>

\* Mutant: the row of a student who is there already is left as it is.
ApplyMutant(r) ==
    /\ Becomes(r, "sent", "counted") \/ Becomes(r, "orphan", "counted")
    /\ Accepts(Matric(name[r]))
    /\ InsertNew(Matric(name[r]), "seen")
    /\ UNCHANGED <<process, request>>

Apply(r) ==
    /\ Becomes(r, "sent", "counted") \/ Becomes(r, "orphan", "counted")
    /\ Accepts(Matric(name[r]))
    /\ Upsert(Matric(name[r]))
    /\ UNCHANGED <<process, request>>

\* The error is logged, and the student is not counted.
Refuse(r) ==
    /\ Becomes(r, "sent", "failed") \/ Becomes(r, "orphan", "failed")
    /\ DbFaults \/ ~Accepts(Matric(name[r]))
    /\ UNCHANGED <<process, request, table>>

UpdateAnalytics(r) == Send(r) \/ Apply(r) \/ Refuse(r)

-----------------------------------------------------------------------------

LifecycleNext ==
    \/ \E connected \in BOOLEAN : Start(connected)
    \/ Signal \/ Drained \/ Deadline \/ Exit \/ Crash
    \/ \E r \in Requests : \/ \E n \in UserNames : Arrive(r, n)
                           \/ Authenticated(r) \/ Answer(r)
                           \/ UpdateAnalytics(r)

\* The type invariant; only a process that is there has a connection, requests
\* and goroutines, and only one with a connection has a statement under way.
LifecycleTypeOK ==
    /\ server \in {"down", "up", "draining", "exiting"}
    /\ db \in {"nil", "open"} /\ forced \in BOOLEAN
    /\ starts \in 0..MaxStarts
    /\ stage \in [Requests -> {"new", "arrived", "served", "answered", "cut", "crashed"}]
    /\ name \in [Requests -> UserNames \cup {None}]
    /\ \A r \in Requests : name[r] = None <=> stage[r] = "new"
    /\ update \in [Requests -> {"none", "spawned", "sent", "counted", "skipped", "failed",
                                "lost", "orphan"}]
    /\ \A r \in Requests : /\ stage[r] = "new" => update[r] = "none"
                           /\ update[r] = "sent" => db = "open"
    /\ server = "down" => /\ db = "nil" /\ Active = {}
                          /\ \A r \in Requests : update[r] \notin {"spawned", "sent"}
=============================================================================
