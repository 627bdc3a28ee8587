---------------------------- MODULE TokenManager ----------------------------
(***************************************************************************)
(* pkg/sf: the in-memory cache (L1) of one session cookie per user.        *)
(*                                                                         *)
(* GetToken is called by many request goroutines at once.  A call reads    *)
(* the map under the read lock; on a miss it enters the singleflight       *)
(* group, where the first call of a key becomes the leader and the others  *)
(* join it.  The leader looks again, runs refreshFunc, stores the token    *)
(* under the write lock and publishes its result to everyone who joined.   *)
(* Each critical section is one action; everything may happen in between,  *)
(* including Invalidate, the passing of an entry's expiry, and a restart   *)
(* of the server, which loses everything that is kept here.                *)
(*                                                                         *)
(* refreshFunc is the caller's: here it returns any token of that key, or  *)
(* fails.  SessionRecovery supplies the real one.                          *)
(***************************************************************************)
EXTENDS Naturals, FiniteSets

CONSTANTS Keys,      \* matric numbers
          Callers,   \* goroutines that may be inside GetToken
          Tokens,    \* what refreshFunc can return
          Owner,     \* the key each token belongs to
          None,      \* no key, no token
          MaxCalls   \* bound: calls of GetToken in a behaviour

ASSUME TokenManagerAssumption ==
    /\ Owner \in [Tokens -> Keys]
    /\ None \notin Keys \cup Tokens
    /\ MaxCalls \in Nat

VARIABLES tokens,    \* tokens[k]: the map's entry for k
          inflight,  \* keys in the singleflight group's map
          pc, key,   \* where each call is, and the key it was called with
          val,       \* the result each call holds
          calls,     \* calls of GetToken so far
          started,   \* history: runs of refreshFunc started for each key
          floor,     \* history: runs that the last Invalidate made obsolete
          since      \* history: floor[key[c]] when the call c began

group == <<inflight, key, calls>>
history == <<started, floor, since>>
vars == <<tokens, inflight, pc, key, val, calls, started, floor, since>>

(***************************************************************************)
(* A result remembers which run of refreshFunc made its token; an entry is *)
(* live while time.Now() is before its Expiry.                             *)
(***************************************************************************)
Nothing == [token |-> None, run |-> 0]
Absent == [token |-> None, run |-> 0, live |-> FALSE]
Result == [token : Tokens \cup {None}, run : Nat]
Entry == [token : Tokens \cup {None}, run : Nat, live : BOOLEAN]
HeldIn(k) == [token |-> tokens[k].token, run |-> tokens[k].run]

Leading == {"recheck", "refresh", "store", "publish"}
Steps == {"idle", "lookup", "do", "wait", "return"} \cup Leading

Leaders(k) == {c \in Callers : key[c] = k /\ pc[c] \in Leading}
Waiters(k) == {c \in Callers : key[c] = k /\ pc[c] = "wait"}
InHand(k) == {val[c].run : c \in Leaders(k)} \ {0}

Init == /\ tokens = [k \in Keys |-> Absent]
        /\ inflight = {}
        /\ pc = [c \in Callers |-> "idle"]
        /\ key = [c \in Callers |-> None]
        /\ val = [c \in Callers |-> Nothing]
        /\ calls = 0
        /\ started = [k \in Keys |-> 0]
        /\ floor = [k \in Keys |-> 0]
        /\ since = [c \in Callers |-> 0]

-----------------------------------------------------------------------------
(* GetToken, one action per critical section.                              *)

At(c, here) == pc[c] = here
Goto(c, there) == pc' = [pc EXCEPT ![c] = there]

Call(c, k) ==
    /\ At(c, "idle") /\ calls < MaxCalls
    /\ Goto(c, "lookup")
    /\ key' = [key EXCEPT ![c] = k]
    /\ calls' = calls + 1
    /\ since' = [since EXCEPT ![c] = floor[k]]
    /\ UNCHANGED <<tokens, inflight, val, started, floor>>

LookupHit(c) ==
    /\ At(c, "lookup") /\ tokens[key[c]].live
    /\ Goto(c, "return")
    /\ val' = [val EXCEPT ![c] = HeldIn(key[c])]
    /\ UNCHANGED <<tokens, group, history>>

LookupMiss(c) ==
    /\ At(c, "lookup") /\ ~tokens[key[c]].live
    /\ Goto(c, "do")
    /\ UNCHANGED <<tokens, val, group, history>>

\* Mutant: the group does not notice a flight of the same key.
LeadMutant(c) ==
    /\ At(c, "do")
    /\ Goto(c, "recheck")
    /\ inflight' = inflight \cup {key[c]}
    /\ UNCHANGED <<tokens, key, val, calls, history>>

Lead(c) ==
    /\ At(c, "do") /\ key[c] \notin inflight
    /\ Goto(c, "recheck")
    /\ inflight' = inflight \cup {key[c]}
    /\ UNCHANGED <<tokens, key, val, calls, history>>

Join(c) ==
    /\ At(c, "do") /\ key[c] \in inflight
    /\ Goto(c, "wait")
    /\ UNCHANGED <<tokens, val, group, history>>

RecheckHit(c) ==
    /\ At(c, "recheck") /\ tokens[key[c]].live
    /\ Goto(c, "publish")
    /\ val' = [val EXCEPT ![c] = HeldIn(key[c])]
    /\ UNCHANGED <<tokens, group, history>>

\* The leader starts refreshFunc: the run gets the next ordinal of its key.
BeginRefresh(c) ==
    /\ Goto(c, "refresh")
    /\ started' = [started EXCEPT ![key[c]] = @ + 1]
    /\ val' = [val EXCEPT ![c] = [token |-> None, run |-> started[key[c]] + 1]]
    /\ UNCHANGED <<tokens, group, floor, since>>

\* Mutant: no double-check after winning the flight.
RecheckMissMutant(c) ==
    /\ At(c, "recheck")
    /\ BeginRefresh(c)

RecheckMiss(c) ==
    /\ At(c, "recheck") /\ ~tokens[key[c]].live
    /\ BeginRefresh(c)

RefreshOk(c, t) ==
    /\ At(c, "refresh") /\ Owner[t] = key[c]
    /\ Goto(c, "store")
    /\ val' = [val EXCEPT ![c].token = t]
    /\ UNCHANGED <<tokens, group, history>>

\* Mutant: the error of refreshFunc is ignored and its "" token is stored.
RefreshErrMutant(c) ==
    /\ At(c, "refresh")
    /\ Goto(c, "store")
    /\ UNCHANGED <<tokens, val, group, history>>

RefreshErr(c) ==
    /\ At(c, "refresh")
    /\ Goto(c, "publish")
    /\ val' = [val EXCEPT ![c] = Nothing]
    /\ UNCHANGED <<tokens, group, history>>

\* The expiry was fixed when refreshFunc began, so it may already be past.
Store(c, live) ==
    /\ At(c, "store")
    /\ Goto(c, "publish")
    /\ tokens' = [tokens EXCEPT ![key[c]] =
                    [token |-> val[c].token, run |-> val[c].run, live |-> live]]
    /\ UNCHANGED <<val, group, history>>

Deliver(c, served) ==
    /\ At(c, "publish")
    /\ inflight' = inflight \ {key[c]}
    /\ pc' = [d \in Callers |-> IF d \in served \cup {c} THEN "return" ELSE pc[d]]
    /\ val' = [d \in Callers |-> IF d \in served THEN val[c] ELSE val[d]]
    /\ UNCHANGED <<tokens, key, calls, history>>

\* Mutants: the callers that joined are never woken; the wrong ones are.
PublishMutantLost(c) == Deliver(c, {})
PublishMutantAll(c) == Deliver(c, {d \in Callers : pc[d] = "wait"})

\* The group forgets the key and wakes everyone who joined, with one result.
Publish(c) == Deliver(c, Waiters(key[c]))

Return(c) ==
    /\ At(c, "return")
    /\ Goto(c, "idle")
    /\ key' = [key EXCEPT ![c] = None]
    /\ val' = [val EXCEPT ![c] = Nothing]
    /\ since' = [since EXCEPT ![c] = 0]
    /\ UNCHANGED <<tokens, inflight, calls, started, floor>>

-----------------------------------------------------------------------------
(* Invalidate, the clock, and the end of the process.  What the last       *)
(* Invalidate of k made obsolete is every run of refreshFunc but the one   *)
(* the current leader has in hand.                                         *)

Forget(k) ==
    floor' = [floor EXCEPT ![k] = IF InHand(k) = {} THEN started[k]
                                  ELSE (CHOOSE n \in InHand(k) : TRUE) - 1]

\* Mutant: the entry is marked, not removed, and stays live.
InvalidateMutant(k) ==
    /\ Forget(k)
    /\ UNCHANGED <<tokens, pc, val, group, started, since>>

Invalidate(k) ==
    /\ tokens' = [tokens EXCEPT ![k] = Absent]
    /\ Forget(k)
    /\ UNCHANGED <<inflight, pc, key, val, calls, started, since>>

Expire(k) ==
    /\ tokens[k].live
    /\ tokens' = [tokens EXCEPT ![k].live = FALSE]
    /\ UNCHANGED <<pc, val, group, history>>

\* The map, the group and the goroutines end with the process; the next one
\* starts with NewTokenManager.
Restart ==
    /\ tokens' = [k \in Keys |-> Absent]
    /\ inflight' = {}
    /\ pc' = [c \in Callers |-> "idle"]
    /\ key' = [c \in Callers |-> None]
    /\ val' = [c \in Callers |-> Nothing]
    /\ since' = [c \in Callers |-> 0]
    /\ UNCHANGED <<calls, started, floor>>

-----------------------------------------------------------------------------

Refresh(c) == (\E t \in Tokens : RefreshOk(c, t)) \/ RefreshErr(c)

Step(c) == \/ LookupHit(c) \/ LookupMiss(c)
           \/ Lead(c) \/ Join(c)
           \/ RecheckHit(c) \/ RecheckMiss(c)
           \/ Refresh(c)
           \/ \E live \in BOOLEAN : Store(c, live)
           \/ Publish(c)
           \/ Return(c)

Next == \/ \E c \in Callers, k \in Keys : Call(c, k)
        \/ \E c \in Callers : Step(c)
        \/ \E k \in Keys : Invalidate(k) \/ Expire(k)
        \/ Restart

Spec == Init /\ [][Next]_vars

-----------------------------------------------------------------------------
(* Properties.                                                             *)

\* The type invariant; a live entry always carries a token.
TypeOK ==
    /\ tokens \in [Keys -> Entry]
    /\ \A k \in Keys : tokens[k].live => tokens[k].token # None
    /\ inflight \subseteq Keys
    /\ pc \in [Callers -> Steps]
    /\ key \in [Callers -> Keys \cup {None}]
    /\ \A c \in Callers : key[c] = None <=> pc[c] = "idle"
    /\ val \in [Callers -> Result]
    /\ \A c \in Callers : pc[c] = "store" => val[c].token # None
    /\ calls \in 0..MaxCalls
    /\ started \in [Keys -> Nat]
    /\ floor \in [Keys -> Nat]
    /\ since \in [Callers -> Nat]

\* The group's map tells the truth: a key is in it exactly while one call,
\* and only one, runs the refresh of that key.
SingleFlight ==
    \A k \in Keys :
        /\ \A c, d \in Leaders(k) : c = d
        /\ k \in inflight <=> Leaders(k) # {}

\* A call that joined a flight is never left behind: as long as it waits, the
\* flight that will answer it is still under way.
NoLostWaiter == \A c \in Callers : pc[c] = "wait" => Leaders(key[c]) # {}

\* Nobody is handed another user's session: neither the map, nor a result
\* shared through a flight, ever holds a token of a different key.
NoMixUp ==
    /\ \A k \in Keys : tokens[k].token # None => Owner[tokens[k].token] = k
    /\ \A c \in Callers : val[c].token # None => Owner[val[c].token] = key[c]

\* After Invalidate(k), a new call gets no token that was made before it, but
\* for the one the flight under way at that moment already had in hand.
InvalidateForgets ==
    \A c \in Callers :
        pc[c] = "return" /\ val[c].token # None => val[c].run > since[c]

\* No refresh is wasted: the double-check and the flight together see to it
\* that a token is never stored over one that is still live.
NoWastedRefresh ==
    [][\A k \in Keys : tokens[k].live => tokens'[k] \in
         {tokens[k], [tokens[k] EXCEPT !.live = FALSE], Absent}]_vars
=============================================================================
