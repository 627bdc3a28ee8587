------------------------- MODULE SessionCachesProofs -------------------------
(***************************************************************************)
(* What SessionRecovery promises, proved for any users and requests.       *)
(* The TokenManager's theorems are taken over by refinement: TMP is the    *)
(* module of its proofs on the variables of SessionRecovery, and a step    *)
(* that TM allows is one that TMP allows.                                  *)
(***************************************************************************)
EXTENDS SessionRecoveryProofs

TMP == INSTANCE TokenManagerProofs
        WITH Keys <- Users, Callers <- Requests,
             Tokens <- Cookies, Owner <- CookieOwner

LEMMA Assumptions == TMP!TokenManagerAssumption
  BY FS_CardinalityType, SessionRecoveryAssumption
     DEF TMP!TokenManagerAssumption, CookieOwner, Cookies, MaxCalls

LEMMA SameInit == TM!Init => TMP!Init
  BY DEF TM!Init, TMP!Init, TM!Absent, TMP!Absent, TM!Nothing, TMP!Nothing

LEMMA SameNext == [TM!Next]_(TM!vars) => [TMP!Next]_(TMP!vars)
<1> SUFFICES ASSUME [TM!Next]_(TM!vars) PROVE TMP!Next \/ UNCHANGED TMP!vars
  OBVIOUS
<1> USE DEF TM!At, TM!Goto, TM!group, TM!history, TMP!At, TMP!Goto, TMP!group, TMP!history
<1>1. ASSUME NEW r \in Requests, NEW u \in Users, TM!Call(r, u) PROVE TMP!Next
  <2>1. TMP!Call(r, u)  BY <1>1 DEF TM!Call, TMP!Call
  <2> QED  BY <2>1 DEF TMP!Next
<1>2. ASSUME NEW r \in Requests, TM!LookupHit(r) PROVE TMP!Step(r)
  <2>1. TMP!LookupHit(r)
    BY <1>2 DEF TM!LookupHit, TMP!LookupHit, TM!HeldIn, TMP!HeldIn
  <2> QED  BY <2>1 DEF TMP!Step
<1>3. ASSUME NEW r \in Requests, TM!LookupMiss(r) PROVE TMP!Step(r)
  <2>1. TMP!LookupMiss(r)  BY <1>3 DEF TM!LookupMiss, TMP!LookupMiss
  <2> QED  BY <2>1 DEF TMP!Step
<1>4. ASSUME NEW r \in Requests, TM!Lead(r) PROVE TMP!Step(r)
  <2>1. TMP!Lead(r)  BY <1>4 DEF TM!Lead, TMP!Lead
  <2> QED  BY <2>1 DEF TMP!Step
<1>5. ASSUME NEW r \in Requests, TM!Join(r) PROVE TMP!Step(r)
  <2>1. TMP!Join(r)  BY <1>5 DEF TM!Join, TMP!Join
  <2> QED  BY <2>1 DEF TMP!Step
<1>6. ASSUME NEW r \in Requests, TM!RecheckHit(r) PROVE TMP!Step(r)
  <2>1. TMP!RecheckHit(r)
    BY <1>6 DEF TM!RecheckHit, TMP!RecheckHit, TM!HeldIn, TMP!HeldIn
  <2> QED  BY <2>1 DEF TMP!Step
<1>7. ASSUME NEW r \in Requests, TM!RecheckMiss(r) PROVE TMP!Step(r)
  <2>1. TMP!RecheckMiss(r)
    BY <1>7 DEF TM!RecheckMiss, TMP!RecheckMiss, TM!BeginRefresh, TMP!BeginRefresh
  <2> QED  BY <2>1 DEF TMP!Step
<1>8. ASSUME NEW r \in Requests, TM!Refresh(r) PROVE TMP!Step(r)
  <2>1. TMP!Refresh(r)
    BY <1>8 DEF TM!Refresh, TMP!Refresh, TM!RefreshOk, TMP!RefreshOk, TM!RefreshErr,
         TMP!RefreshErr, TM!Nothing, TMP!Nothing
  <2> QED  BY <2>1 DEF TMP!Step
<1>9. ASSUME NEW r \in Requests, NEW live \in BOOLEAN, TM!Store(r, live) PROVE TMP!Step(r)
  <2>1. TMP!Store(r, live)  BY <1>9 DEF TM!Store, TMP!Store
  <2> QED  BY <2>1 DEF TMP!Step
<1>10. ASSUME NEW r \in Requests, TM!Publish(r) PROVE TMP!Step(r)
  <2>1. TMP!Publish(r)
    BY <1>10 DEF TM!Publish, TMP!Publish, TM!Deliver, TMP!Deliver, TM!Waiters, TMP!Waiters
  <2> QED  BY <2>1 DEF TMP!Step
<1>11. ASSUME NEW r \in Requests, TM!Return(r) PROVE TMP!Step(r)
  <2>1. TMP!Return(r)  BY <1>11 DEF TM!Return, TMP!Return, TM!Nothing, TMP!Nothing
  <2> QED  BY <2>1 DEF TMP!Step
<1>12. ASSUME NEW u \in Users, TM!Invalidate(u) PROVE TMP!Next
  <2>1. TM!InHand(u) = TMP!InHand(u)
    BY DEF TM!InHand, TMP!InHand, TM!Leaders, TMP!Leaders, TM!Leading, TMP!Leading
  <2>2. TMP!Invalidate(u)
    BY <1>12, <2>1 DEF TM!Invalidate, TMP!Invalidate, TM!Forget, TMP!Forget,
         TM!Absent, TMP!Absent
  <2> QED  BY <2>2 DEF TMP!Next
<1>13. ASSUME NEW u \in Users, TM!Expire(u) PROVE TMP!Next
  <2>1. TMP!Expire(u)  BY <1>13 DEF TM!Expire, TMP!Expire
  <2> QED  BY <2>1 DEF TMP!Next
<1>14. CASE TM!Restart
  <2>1. TMP!Restart
    BY <1>14 DEF TM!Restart, TMP!Restart, TM!Absent, TMP!Absent, TM!Nothing, TMP!Nothing
  <2> QED  BY <2>1 DEF TMP!Next
<1>15. CASE UNCHANGED TM!vars
  BY <1>15 DEF TM!vars, TMP!vars
<1>16. ASSUME NEW r \in Requests, TM!Step(r) PROVE TMP!Next
  <2>1. TMP!Step(r)
    BY <1>2, <1>3, <1>4, <1>5, <1>6, <1>7, <1>8, <1>9, <1>10, <1>11, <1>16 DEF TM!Step
  <2> QED  BY <2>1 DEF TMP!Next
<1> QED
  BY <1>1, <1>12, <1>13, <1>14, <1>15, <1>16 DEF TM!Next

(***************************************************************************)
(* What the TokenManager's proofs give: its invariants, inductive together *)
(* with RefreshInv, and what they say of the variables.                    *)
(***************************************************************************)
BaseInv ==
    /\ RefreshInv
    /\ TMP!TypeOK /\ TMP!FlightInv /\ TMP!OwnInv /\ TMP!MissInv

LEMMA InitBase == Init => BaseInv
<1> SUFFICES ASSUME Init PROVE BaseInv
  OBVIOUS
<1>1. RefreshInv
  BY InitRefreshInv
<1>2. TMP!Init
  BY SameInit DEF Init
<1>3. TMP!TypeOK
  BY <1>2, Assumptions, TMP!InitTypeOK
<1>4. TMP!FlightInv /\ TMP!OwnInv /\ TMP!MissInv
  BY <1>2, Assumptions DEF TMP!Init, TMP!FlightInv, TMP!SingleFlight, TMP!NoLostWaiter,
     TMP!Leaders, TMP!Leading, TMP!OwnInv, TMP!NoMixUp, TMP!IdleHoldsNothing,
     TMP!MissInv, TMP!Nothing, TMP!Absent
<1> QED  BY <1>1, <1>3, <1>4 DEF BaseInv

LEMMA NextBase == BaseInv /\ [Next]_vars => BaseInv'
<1> SUFFICES ASSUME BaseInv, [Next]_vars PROVE BaseInv'
  OBVIOUS
<1>1. RefreshInv'
  BY NextRefreshInv DEF BaseInv
<1>2. [TMP!Next]_(TMP!vars)
  <2>1. [TM!Next]_(TM!vars)
    BY StepRefines DEF BaseInv
  <2> QED  BY <2>1, SameNext
<1>3. TMP!TypeOK'
  BY <1>2, Assumptions, TMP!NextTypeOK DEF BaseInv
<1>4. TMP!FlightInv'
  BY <1>2, Assumptions, TMP!NextFlightInv DEF BaseInv
<1>5. TMP!OwnInv'
  BY <1>2, Assumptions, TMP!NextOwnInv DEF BaseInv
<1>6. TMP!MissInv'
  BY <1>2, Assumptions, TMP!NextMissInv DEF BaseInv
<1> QED  BY <1>1, <1>3, <1>4, <1>5, <1>6 DEF BaseInv

LEMMA BaseHolds == Spec => []BaseInv
  BY InitBase, NextBase, PTL DEF Spec


\* What the invariants below use of BaseInv, in plain terms.
Leads(r) == pc[r] \in {"recheck", "refresh", "store", "publish"}
Shape ==
    /\ RefreshInv
    /\ tokens \in [Users -> TM!Entry]
    /\ val \in [Requests -> TM!Result]
    /\ \A r \in Requests : key[r] = None <=> pc[r] = "idle"
    /\ \A q, r \in Requests : key[q] = key[r] /\ Leads(q) /\ Leads(r) => q = r
    /\ \A r \in Requests : Leads(r) => key[r] \in inflight
    /\ \A u \in Users : tokens[u].token # None => tokens[u].token \in OwnedBy(u)
    /\ \A r \in Requests : val[r].token # None => val[r].token \in OwnedBy(key[r])
    /\ \A u \in Users : tokens[u].live => tokens[u].token # None
    /\ \A r \in Requests : pc[r] = "store" => val[r].token # None
    /\ \A r \in Requests : pc[r] \in {"refresh", "store"} => ~tokens[key[r]].live

LEMMA BaseShape == BaseInv => Shape
<1> SUFFICES ASSUME BaseInv PROVE Shape
  OBVIOUS
<1> USE DEF BaseInv, TMP!Entry, TM!Entry, TMP!Result, TM!Result
<1>1. RefreshInv /\ tokens \in [Users -> TM!Entry] /\ val \in [Requests -> TM!Result]
  BY DEF TMP!TypeOK
<1>2. \A r \in Requests : key[r] = None <=> pc[r] = "idle"
  BY DEF TMP!TypeOK
<1>3. /\ \A q, r \in Requests : key[q] = key[r] /\ Leads(q) /\ Leads(r) => q = r
      /\ \A r \in Requests : Leads(r) => key[r] \in inflight
  BY DEF TMP!TypeOK, TMP!FlightInv, TMP!SingleFlight, TMP!Leaders, TMP!Leading, Leads,
     RefreshInv
<1>4. /\ \A u \in Users : tokens[u].token # None => tokens[u].token \in OwnedBy(u)
      /\ \A r \in Requests : val[r].token # None => val[r].token \in OwnedBy(key[r])
  <2>1. /\ \A u \in Users : tokens[u].token \in Cookies \cup {None}
        /\ \A r \in Requests : val[r].token \in Cookies \cup {None}
    BY DEF TMP!TypeOK
  <2>2. \A c \in Cookies : CookieOwner[c] = c.user
    BY DEF CookieOwner
  <2> QED  BY <2>1, <2>2 DEF TMP!OwnInv, TMP!NoMixUp, OwnedBy
<1>5. /\ \A u \in Users : tokens[u].live => tokens[u].token # None
      /\ \A r \in Requests : pc[r] = "store" => val[r].token # None
      /\ \A r \in Requests : pc[r] \in {"refresh", "store"} => ~tokens[key[r]].live
  BY DEF TMP!TypeOK, TMP!MissInv
<1> QED  BY <1>1, <1>2, <1>3, <1>4, <1>5 DEF Shape


USE SessionRecoveryAssumption DEF TM!At, TM!Goto, TM!group, TM!history

(***************************************************************************)
(* The end of a call of GetToken, and the handlers, in one form each.      *)
(***************************************************************************)
LEMMA ReturnEffect ==
    ASSUME NEW r \in Requests, Authenticate(r) \/ Reauthenticate(r)
    PROVE  /\ TM!Return(r) /\ stage[r] \in {"auth", "reauth"}
           /\ UNCHANGED <<refresh, upstream, l2, user, clean, gone, process>>
           /\ \/ /\ val[r].token = None
                 /\ Respond(r, stage[r], IF stage[r] = "auth" THEN "unauthorized" ELSE "relogin")
                 /\ UNCHANGED cookie
              \/ /\ val[r].token # None
                 /\ \E to \in {"scrape", "download", "logout", "retry"} :
                      /\ stage' = [stage EXCEPT ![r] = to]
                      /\ stage[r] = "reauth" => to = "retry"
                 /\ cookie' = [cookie EXCEPT ![r] = val[r].token]
                 /\ UNCHANGED answer
<1> USE DEF Advance, Respond
<1>1. ASSUME Authenticate(r), val[r].token # None
      PROVE  /\ stage[r] = "auth"
             /\ \E to \in {"scrape", "download", "logout", "retry"} : stage' = [stage EXCEPT ![r] = to]
  <2>1. PICK handler \in Handlers : Advance(r, "auth", handler)
    BY <1>1 DEF Authenticate
  <2> QED  BY <2>1
<1>2. CASE Authenticate(r) /\ val[r].token # None
  BY <1>1, <1>2 DEF Authenticate
<1>3. CASE Authenticate(r) /\ val[r].token = None
  BY <1>3 DEF Authenticate
<1>4. CASE Reauthenticate(r)
  BY <1>4 DEF Reauthenticate
<1> QED  BY <1>2, <1>3, <1>4

LEMMA ServeEffect ==
    ASSUME NEW r \in Requests, Serve(r)
    PROVE  /\ UNCHANGED <<l1, refresh, logins, kills, l2, user, cookie, clean, gone, process>>
           /\ alive' \subseteq alive
           /\ stage[r] \notin {"new", "auth", "reauth", "delete", "done"}
           /\ \E to \in {"data", "redata", "evict", "stuck", "done"} : stage' = [stage EXCEPT ![r] = to]
           /\ \/ UNCHANGED answer
              \/ \E reply \in {"ok", "stale", "upstream", "pdf", "login form", "logged out"} :
                   answer' = [answer EXCEPT ![r] = reply]
  BY DEF Serve, Handle, Scrape, FetchData, Download, Logout, Respond, Advance, l1, refresh, upstream,
     l2, process

(***************************************************************************)
(* The types of the variables that are SessionRecovery's own.              *)
(***************************************************************************)
TypeInv ==
    /\ alive \subseteq Cookies
    /\ logins \in [Users -> Nat]
    /\ cookie \in [Requests -> Cookies \cup {None}]
    /\ answer \in [Requests -> Answers]
    /\ gone \subseteq Requests
    /\ kills \in 0..MaxKills
    /\ evicted \in [Users -> SUBSET Cookies]
    /\ late \in [Users -> SUBSET Cookies]
    /\ clean \in [Requests -> BOOLEAN]
    /\ crashes \in 0..MaxCrashes
    /\ lost \in [Users -> 0..crashes]

LEMMA InitTypeInv == Init => TypeInv
  BY DEF Init, TypeInv, Answers

LEMMA NextTypeInv == BaseInv /\ TypeInv /\ [Next]_vars => TypeInv'
<1> SUFFICES ASSUME BaseInv, TypeInv, [Next]_vars PROVE TypeInv'
  OBVIOUS
<1>0. /\ gei \in [Users -> Cookies \cup {None}]
      /\ user \in [Requests -> Users \cup {None}]
      /\ \A r \in Requests : val[r].token \in Cookies \cup {None}
      /\ \A r \in Requests : pc[r] # "idle" => key[r] \in Users
      /\ \A r \in Requests : stage[r] # "new" => user[r] \in Users
  BY BaseShape DEF Shape, RefreshInv, TM!Result
<1> USE DEF TypeInv, upstream, l2, request, process
<1>1. ASSUME NEW r \in Requests,
             SessionFound(r) \/ SessionNotFound(r) \/ LoginErr(r) \/ InGetToken(r)
               \/ \E stored \in BOOLEAN : Persist(r, stored)
      PROVE  TypeInv'
  BY <1>1 DEF SessionFound, SessionNotFound, ToLogin, LoginErr, InGetToken, Persist
<1>2. ASSUME NEW r \in Requests, LoginOk(r) PROVE TypeInv'
  <2>1. key[r] \in Users
    BY <1>0, <1>2 DEF LoginOk, Refreshing
  <2> QED  BY <1>2, <2>1 DEF LoginOk
<1>3. ASSUME NEW r \in Requests, Authenticate(r) \/ Reauthenticate(r) PROVE TypeInv'
  <2>1. cookie' = cookie \/ cookie' = [cookie EXCEPT ![r] = val[r].token]
    BY <1>3, ReturnEffect
  <2>2. answer' = answer \/ \E reply \in {"unauthorized", "relogin"} :
                               answer' = [answer EXCEPT ![r] = reply]
    BY <1>3, ReturnEffect DEF Respond
  <2>3. answer' \in [Requests -> Answers]
    BY <2>2 DEF Answers
  <2>4. cookie' \in [Requests -> Cookies \cup {None}]
    BY <1>0, <2>1
  <2>5. UNCHANGED <<upstream, l2, clean, gone, process>>
    BY <1>3, ReturnEffect
  <2> QED  BY <2>3, <2>4, <2>5
<1>4. ASSUME NEW r \in Requests, NEW u \in Users, Arrive(r, u) PROVE TypeInv'
  BY <1>4 DEF Arrive
<1>5. ASSUME NEW r \in Requests, Serve(r) PROVE TypeInv'
  <2>1. answer' = answer \/
          \E reply \in {"ok", "stale", "upstream", "pdf", "login form", "logged out"} :
            answer' = [answer EXCEPT ![r] = reply]
    BY <1>5, ServeEffect
  <2>2. answer' \in [Requests -> Answers]
    BY <2>1 DEF Answers
  <2>3. alive' \subseteq alive /\ UNCHANGED <<logins, kills, l2, cookie, clean, gone, process>>
    BY <1>5, ServeEffect
  <2> QED  BY <2>2, <2>3
<1>6. ASSUME NEW r \in Requests, Evict(r) \/ HangUp(r) PROVE TypeInv'
  BY <1>6 DEF Evict, HangUp
<1>7. ASSUME NEW r \in Requests, NEW deleted \in BOOLEAN, Delete(r, deleted)
      PROVE  TypeInv'
  <2>1. user[r] \in Users /\ gei[user[r]] \in Cookies \cup {None}
    BY <1>0, <1>7 DEF Delete, DeleteAs, Advance
  <2>2. \/ evicted' = evicted
        \/ evicted' = [evicted EXCEPT ![user[r]] = evicted[user[r]] \cup ({gei[user[r]]} \ {None})]
    BY <1>7, <2>1 DEF Delete, DeleteAs
  <2>3. evicted' \in [Users -> SUBSET Cookies]
    BY <2>1, <2>2
  <2>4. late' \in [Users -> SUBSET Cookies]
    <3> DEFINE newer == {c \in {gei[user[r]]} \ {None} : c.n > cookie[r].n}
    <3>1. late' = late \/ late' = [late EXCEPT ![user[r]] = late[user[r]] \cup newer]
      BY <1>7 DEF Delete, DeleteAs
    <3>2. newer \subseteq Cookies
      BY <2>1
    <3> HIDE DEF newer
    <3> QED  BY <2>1, <3>1, <3>2
  <2>5. clean' \in [Requests -> BOOLEAN]
    <3> DEFINE met == /\ user[r] \notin inflight
                      /\ tokens[user[r]] = TM!Absent
                      /\ deleted \/ ~HasIndexer
    <3>1. met \in BOOLEAN /\ clean' = [clean EXCEPT ![r] = met]
      BY <1>7 DEF Delete, DeleteAs
    <3> HIDE DEF met
    <3> QED  BY <3>1, Zenon
  <2>6. UNCHANGED <<upstream, cookie, answer, gone, process>>
    BY <1>7 DEF Delete, DeleteAs
  <2> QED  BY <2>3, <2>4, <2>5, <2>6
<1>8. ASSUME NEW c \in alive, Kill(c) PROVE TypeInv'
  BY <1>8 DEF Kill
<1>9. ASSUME NEW u \in Users, Expire(u) PROVE TypeInv'
  BY <1>9 DEF Expire
<1>10. CASE Crash
  <2>1. crashes' \in 0..MaxCrashes /\ crashes' = crashes + 1
    BY <1>10 DEF Crash
  <2>2. lost' \in [Users -> 0..crashes']
    <3> DEFINE more(u) == IF \E r \in Requests : got[r] # None /\ key[r] = u THEN 1 ELSE 0
    <3>1. lost' = [u \in Users |-> lost[u] + more(u)]
      BY <1>10 DEF Crash
    <3>2. \A u \in Users : more(u) = 0 \/ more(u) = 1
      OBVIOUS
    <3> HIDE DEF more
    <3> QED  BY <2>1, <3>1, <3>2
  <2>3. answer' \in [Requests -> Answers]
    BY <1>10 DEF Crash, Answers
  <2>4. UNCHANGED <<upstream, l2, cookie, clean, gone>>
    BY <1>10 DEF Crash
  <2> QED  BY <2>1, <2>2, <2>3, <2>4
<1>11. CASE UNCHANGED vars
  BY <1>11 DEF vars
<1> QED
  BY <1>1, <1>2, <1>3, <1>4, <1>5, <1>6, <1>7, <1>8, <1>9, <1>10, <1>11
     DEF Next, Own, Upstream, Serve, SessionFunc

(***************************************************************************)
(* The stages of a request and the steps of its call go together.          *)
(***************************************************************************)
LinkInv ==
    \A r \in Requests :
      /\ pc[r] # "idle" <=> stage[r] \in {"auth", "reauth"}
      /\ pc[r] # "idle" => key[r] = user[r]
      /\ step[r] # "get" => pc[r] = "refresh"
      /\ got[r] # None <=> step[r] = "persist"
      /\ pc[r] \in {"idle", "lookup", "do", "wait", "recheck", "refresh"} => val[r].token = None
      /\ stage[r] \notin {"new", "auth", "done"} => cookie[r] \in OwnedBy(user[r])

LEMMA NextLinkInv == BaseInv /\ TypeInv /\ LinkInv /\ [Next]_vars => LinkInv'
<1> SUFFICES ASSUME BaseInv, Shape, TypeInv, LinkInv, [Next]_vars PROVE LinkInv'
  BY BaseShape
<1>0. cookie \in [Requests -> Cookies \cup {None}]
  BY DEF TypeInv
<1> USE <1>0 DEF Shape, RefreshInv, LinkInv, OwnedBy, TM!Steps, TM!Leading, TM!Result, Stages, Advance,
           Respond, refresh, l2, request, l1
<1>1. ASSUME NEW r \in Requests, SessionFound(r) PROVE LinkInv'
  BY <1>1 DEF SessionFound, Refreshing, TM!RefreshOk
<1>2. ASSUME NEW r \in Requests, SessionNotFound(r) PROVE LinkInv'
  BY <1>2 DEF SessionNotFound, ToLogin, Refreshing
<1>3. ASSUME NEW r \in Requests, LoginOk(r) PROVE LinkInv'
  BY <1>3 DEF LoginOk, Refreshing
<1>4. ASSUME NEW r \in Requests, LoginErr(r) PROVE LinkInv'
  BY <1>4 DEF LoginErr, Refreshing, TM!RefreshErr, TM!Nothing
<1>5. ASSUME NEW r \in Requests, NEW stored \in BOOLEAN, Persist(r, stored)
      PROVE  LinkInv'
  BY <1>5 DEF Persist, Refreshing, TM!RefreshOk
<1>6. ASSUME NEW r \in Requests, InGetToken(r) PROVE LinkInv'
  <2>1. CASE TM!Publish(r)
    BY <1>6, <2>1 DEF InGetToken, TM!Publish, TM!Deliver, TM!Waiters
  <2>2. CASE ~ TM!Publish(r)
    BY <1>6, <2>2 DEF InGetToken, TM!LookupHit, TM!LookupMiss, TM!Lead, TM!Join,
           TM!RecheckHit, TM!RecheckMiss, TM!BeginRefresh, TM!Store
  <2> QED  BY <2>1, <2>2
<1>7. ASSUME NEW r \in Requests, Authenticate(r) \/ Reauthenticate(r) PROVE LinkInv'
  <2>1. /\ pc' = [pc EXCEPT ![r] = "idle"] /\ val' = [val EXCEPT ![r] = TM!Nothing]
        /\ key' = [key EXCEPT ![r] = None] /\ UNCHANGED <<user, step, got>>
        /\ pc[r] = "return"
    BY <1>7, ReturnEffect DEF TM!Return
  <2>2. \E to \in {"scrape", "download", "logout", "retry", "done"} :
             /\ stage' = [stage EXCEPT ![r] = to]
             /\ \/ to = "done" /\ cookie' = cookie
                \/ val[r].token # None /\ cookie' = [cookie EXCEPT ![r] = val[r].token]
    BY <1>7, ReturnEffect
  <2>3. val[r].token # None => val[r].token \in OwnedBy(user[r])
    BY <2>1
  <2>4. /\ pc'[r] = "idle" /\ key'[r] = None /\ val'[r].token = None
        /\ \A q \in Requests \ {r} : pc'[q] = pc[q] /\ key'[q] = key[q] /\ val'[q] = val[q]
    BY <2>1 DEF TM!Nothing
  <2>5. /\ cookie'[r] \in {cookie[r], val[r].token}
        /\ stage'[r] = "done" \/ cookie'[r] \in OwnedBy(user[r])
        /\ stage'[r] \in {"scrape", "download", "logout", "retry", "done"}
        /\ \A q \in Requests \ {r} : stage'[q] = stage[q] /\ cookie'[q] = cookie[q]
    <3>1. PICK to \in {"scrape", "download", "logout", "retry", "done"} :
             /\ stage' = [stage EXCEPT ![r] = to]
             /\ \/ to = "done" /\ cookie' = cookie
                \/ val[r].token # None /\ cookie' = [cookie EXCEPT ![r] = val[r].token]
      BY <2>2
    <3> QED  BY <2>3, <3>1
  <2>6. step[r] = "get" /\ got[r] = None /\ key[r] \in Users
    BY <2>1
  <2>7. \A q \in Requests : step'[q] = step[q] /\ got'[q] = got[q] /\ user'[q] = user[q]
    BY <2>1
  <2> QED  BY <2>4, <2>5, <2>6, <2>7
<1>9. ASSUME NEW r \in Requests, NEW u \in Users, Arrive(r, u) PROVE LinkInv'
  BY <1>9 DEF Arrive, TM!Call
<1>10. ASSUME NEW r \in Requests, Serve(r) PROVE LinkInv'
  <2>1. /\ UNCHANGED <<pc, key, val, step, got, user, cookie>>
        /\ stage[r] \notin {"new", "auth", "reauth", "done"}
        /\ \E to \in {"data", "redata", "evict", "stuck", "done"} : stage' = [stage EXCEPT ![r] = to]
    BY <1>10, ServeEffect
  <2> QED  BY <2>1
<1>11. ASSUME NEW r \in Requests, Evict(r) PROVE LinkInv'
  BY <1>11 DEF Evict, TM!Invalidate
<1>12. ASSUME NEW r \in Requests, NEW deleted \in BOOLEAN, Delete(r, deleted)
       PROVE  LinkInv'
  BY <1>12 DEF Delete, DeleteAs, TM!Call
<1>13. CASE (\E c \in alive : Kill(c)) \/ \E r \in Requests : HangUp(r)
  BY <1>13 DEF Kill, HangUp
<1>14. ASSUME NEW u \in Users, Expire(u) PROVE LinkInv'
  BY <1>14 DEF Expire, TM!Expire
<1>15. CASE Crash
  BY <1>15 DEF Crash, TM!Restart, TM!Nothing
<1>16. CASE UNCHANGED vars
  BY <1>16 DEF vars
<1> QED
  BY <1>1, <1>2, <1>3, <1>4, <1>5, <1>6, <1>7, <1>9, <1>10, <1>11, <1>12,
     <1>13, <1>14, <1>15, <1>16 DEF Next, Own, Upstream, Serve, SessionFunc

SharedInv == BaseInv /\ TypeInv /\ LinkInv

LEMMA InitShared == Init => SharedInv
<1>1. Init => LinkInv
  BY DEF Init, TM!Init, TM!Nothing, LinkInv
<1> QED  BY <1>1, InitBase, InitTypeInv DEF SharedInv

LEMMA NextShared == SharedInv /\ [Next]_vars => SharedInv'
  BY NextBase, NextTypeInv, NextLinkInv DEF SharedInv

LEMMA SharedHolds == Spec => []SharedInv
  BY InitShared, NextShared, PTL DEF Spec

\* Every variable stays in its type; a request that scrapes has a cookie of its
\* own user, and a refresh that logged in has a cookie to persist.
THEOREM SessionTypes == Spec => []TypeOK
<1>1. SharedInv => TypeOK
  <2> SUFFICES ASSUME SharedInv PROVE TypeOK
    OBVIOUS
  <2>1. TM!TypeOK
    BY DEF SharedInv, BaseInv, TM!TypeOK, TMP!TypeOK, TM!Entry, TMP!Entry, TM!Result,
       TMP!Result, TM!Steps, TMP!Steps, TM!Leading, TMP!Leading
  <2>2. lost \in [Users -> 0..MaxCrashes]
    BY DEF SharedInv, TypeInv
  <2>3. /\ \A r \in Requests : stage[r] \notin {"new", "auth", "done"} => cookie[r].user = user[r]
        /\ \A r \in Requests : step[r] = "persist" => got[r] # None
    BY DEF SharedInv, LinkInv, OwnedBy
  <2> QED  BY <2>1, <2>2, <2>3 DEF TypeOK, SharedInv, BaseInv, RefreshInv, TypeInv
<1> QED  BY <1>1, SharedHolds, PTL

(***************************************************************************)
(* Failures are contained.  An empty result is made by a leader whose      *)
(* login failed, and handed only to requests of the same user.             *)
(***************************************************************************)
Excused(r) == LoginFaults \/ \E q \in gone : user[q] = user[r]
ExcuseInv ==
    /\ \A r \in Requests : pc[r] \in {"publish", "return"} /\ val[r].token = None
                             => Excused(r)
    /\ \A r \in gone : stage[r] # "new"
    /\ \A r \in Requests : answer[r] \in {"unauthorized", "relogin"} =>
                             stage[r] = "done" /\ Excused(r)

LEMMA UserStays ==
    ASSUME SharedInv, [Next]_vars
    PROVE  /\ gone \subseteq gone'
           /\ \A r \in Requests : stage[r] # "new" => user'[r] = user[r] /\ stage'[r] # "new"
<1>0. /\ stage \in [Requests -> Stages] /\ user \in [Requests -> Users \cup {None}]
  BY DEF SharedInv, BaseInv, RefreshInv
<1> USE <1>0 DEF request, Advance, Respond
<1>1. ASSUME NEW r \in Requests, NEW u \in Users, Arrive(r, u)
      PROVE  /\ gone \subseteq gone'
             /\ \A q \in Requests : stage[q] # "new" => user'[q] = user[q] /\ stage'[q] # "new"
  BY <1>1 DEF Arrive
<1>2. ASSUME NEW r \in Requests,
             SessionFunc(r) \/ InGetToken(r) \/ HangUp(r)
      PROVE  gone \subseteq gone' /\ UNCHANGED <<stage, user>>
  BY <1>2 DEF SessionFunc, SessionFound, SessionNotFound, ToLogin, LoginOk, LoginErr, Persist,
     InGetToken, HangUp
<1>3. ASSUME NEW r \in Requests,
             Authenticate(r) \/ Reauthenticate(r) \/ Serve(r) \/ Evict(r)
               \/ \E deleted \in BOOLEAN : Delete(r, deleted)
      PROVE  /\ UNCHANGED <<gone, user>>
             /\ \E to \in Stages \ {"new"} : stage' = [stage EXCEPT ![r] = to]
  BY <1>3, ReturnEffect, ServeEffect DEF Evict, Delete, DeleteAs, Stages
<1>4. CASE Crash
  BY <1>4 DEF Crash
<1>5. CASE UNCHANGED vars \/ (\E c \in alive : Kill(c)) \/ (\E u \in Users : Expire(u))
  BY <1>5 DEF vars, Kill, Expire
<1>6. ASSUME NEW r \in Requests, Own(r) \/ Upstream(r) \/ HangUp(r)
      PROVE  /\ gone \subseteq gone'
             /\ \A q \in Requests : stage[q] # "new" => user'[q] = user[q] /\ stage'[q] # "new"
  <2>1. CASE SessionFunc(r) \/ InGetToken(r) \/ HangUp(r)
    BY <1>2, <2>1
  <2>2. CASE Authenticate(r) \/ Reauthenticate(r) \/ Serve(r) \/ Evict(r)
               \/ \E deleted \in BOOLEAN : Delete(r, deleted)
    BY <1>3, <2>2
  <2> QED  BY <1>6, <2>1, <2>2 DEF Own, Upstream, Serve
<1> QED
  BY <1>1, <1>4, <1>5, <1>6 DEF Next

\* Who is excused stays so: nobody takes a hang-up back.
LEMMA ExcuseStays ==
    ASSUME SharedInv, ExcuseInv, [Next]_vars,
           NEW r \in Requests, stage[r] # "new", Excused(r)
    PROVE  Excused(r)'
<1>1. gone \subseteq Requests
  BY DEF SharedInv, TypeInv
<1> QED  BY <1>1, UserStays DEF Excused, ExcuseInv

LEMMA NextExcuse == SharedInv /\ ExcuseInv /\ [Next]_vars => ExcuseInv'
<1> SUFFICES ASSUME SharedInv, ExcuseInv, [Next]_vars PROVE ExcuseInv'
  OBVIOUS
<1>a. /\ pc \in [Requests -> TM!Steps] /\ val \in [Requests -> TM!Result]
      /\ stage \in [Requests -> Stages] /\ answer \in [Requests -> Answers]
      /\ gone \subseteq Requests
  BY BaseShape DEF SharedInv, Shape, RefreshInv, TypeInv
<1>b. /\ \A r \in Requests : pc[r] = "store" => val[r].token # None
      /\ \A u \in Users : tokens[u].live => tokens[u].token # None
      /\ \A r \in Requests : pc[r] # "idle" => key[r] = user[r] /\ key[r] \in Users
      /\ \A r \in Requests : pc[r] # "idle" => stage[r] # "new"
  BY BaseShape DEF SharedInv, Shape, RefreshInv, LinkInv
<1>1. ASSUME NEW r \in Requests, pc'[r] \in {"publish", "return"}, val'[r].token = None
      PROVE  stage[r] # "new" /\ Excused(r)
  <2> USE <1>a, <1>b DEF ExcuseInv
  <2>1. CASE pc'[r] = pc[r] /\ val'[r] = val[r]
    BY <1>1, <2>1
  <2>2. ASSUME NEW q \in Requests, SessionFunc(q) PROVE stage[r] # "new" /\ Excused(r)
    <3>1. CASE LoginErr(q)
      <4>1. CASE q = r
        BY <3>1, <4>1 DEF LoginErr, Refreshing, Excused
      <4>2. CASE q # r
        BY <2>1, <3>1, <4>2 DEF LoginErr, TM!RefreshErr
      <4> QED  BY <4>1, <4>2
    <3>2. CASE ~ LoginErr(q)
      <4>1. \/ UNCHANGED <<pc, val>>
            \/ pc' = [pc EXCEPT ![q] = "store"] /\ \E t : val' = [val EXCEPT ![q].token = t]
        BY <2>2, <3>2 DEF SessionFunc, SessionFound, SessionNotFound, ToLogin, LoginOk,
           Persist, TM!RefreshOk, l1
      <4> QED  BY <1>1, <2>1, <4>1
    <3> QED  BY <3>1, <3>2
  <2>3. ASSUME NEW q \in Requests, InGetToken(q) PROVE stage[r] # "new" /\ Excused(r)
    <3>1. CASE TM!Publish(q)
      <4>1. \/ pc'[r] = pc[r] /\ val'[r] = val[r]
            \/ r = q /\ pc[q] = "publish" /\ val'[r] \in {val[q], val[r]}
            \/ pc[q] = "publish" /\ val'[r] = val[q] /\ key[r] = key[q] /\ pc[r] = "wait"
        BY <3>1 DEF TM!Publish, TM!Deliver, TM!Waiters
      <4>2. CASE pc[q] = "publish" /\ val'[r] = val[q] /\ key[r] = key[q] /\ pc[r] = "wait"
        BY <1>1, <4>2 DEF Excused
      <4> QED  BY <1>1, <2>1, <4>1, <4>2
    <3>2. CASE TM!LookupHit(q) \/ TM!RecheckHit(q)
      <4>1. /\ key[q] \in Users /\ tokens[key[q]].token # None
            /\ val' = [val EXCEPT ![q] = TM!HeldIn(key[q])]
            /\ \E to : pc' = [pc EXCEPT ![q] = to]
        BY <3>2 DEF TM!LookupHit, TM!RecheckHit
      <4> QED  BY <1>1, <2>1, <4>1 DEF TM!HeldIn
    <3>3. CASE TM!Store(q, TRUE) \/ TM!Store(q, FALSE)
      BY <1>1, <2>1, <3>3 DEF TM!Store
    <3>4. CASE TM!LookupMiss(q) \/ TM!Lead(q) \/ TM!Join(q)
      BY <1>1, <2>1, <3>4 DEF TM!LookupMiss, TM!Lead, TM!Join
    <3>5. CASE TM!RecheckMiss(q)
      BY <1>1, <2>1, <3>5 DEF TM!RecheckMiss, TM!BeginRefresh
    <3> QED  BY <2>3, <3>1, <3>2, <3>3, <3>4, <3>5 DEF InGetToken
  <2>4. ASSUME NEW q \in Requests, Authenticate(q) \/ Reauthenticate(q)
        PROVE  stage[r] # "new" /\ Excused(r)
    BY <1>1, <2>1, <2>4, ReturnEffect DEF TM!Return
  <2>5. ASSUME NEW q \in Requests, NEW u \in Users, TM!Call(q, u)
        PROVE  stage[r] # "new" /\ Excused(r)
    BY <1>1, <2>1, <2>5 DEF TM!Call
  <2>6. CASE UNCHANGED <<pc, val>>
    BY <2>1, <2>6
  <2>7. ASSUME NEW q \in Requests, Serve(q) \/ Evict(q) \/ HangUp(q) PROVE UNCHANGED <<pc, val>>
    BY <2>7, ServeEffect DEF Evict, TM!Invalidate, HangUp, l1
  <2>8. (\E c \in alive : Kill(c)) \/ (\E u \in Users : Expire(u)) \/ UNCHANGED vars
          => UNCHANGED <<pc, val>>
    BY DEF Kill, Expire, TM!Expire, vars, l1
  <2>9. ASSUME NEW q \in Requests, NEW deleted \in BOOLEAN, Delete(q, deleted)
        PROVE  \E u \in Users : TM!Call(q, u)
    BY <2>9, BaseShape DEF SharedInv, Shape, RefreshInv, Delete, DeleteAs, Advance
  <2>10. Crash => pc'[r] = "idle"
    BY DEF Crash, TM!Restart
  <2>11. ASSUME NEW q \in Requests, NEW u \in Users, Arrive(q, u) PROVE TM!Call(q, u)
    BY <2>11 DEF Arrive
  <2> QED
    BY <1>1, <2>2, <2>3, <2>4, <2>5, <2>6, <2>7, <2>8, <2>9, <2>10, <2>11 DEF Next, Own, Upstream, Serve
<1>2. ASSUME NEW r \in Requests, answer'[r] \in {"unauthorized", "relogin"}
      PROVE  stage[r] # "new" /\ stage'[r] = "done" /\ Excused(r)
  <2> USE <1>a, <1>b DEF ExcuseInv
  <2>1. CASE answer'[r] = answer[r] /\ (stage[r] = "done" => stage'[r] = "done")
    BY <1>2, <2>1
  <2>2. ASSUME NEW q \in Requests, Authenticate(q) \/ Reauthenticate(q)
        PROVE  stage[r] # "new" /\ stage'[r] = "done" /\ Excused(r)
    <3>1. /\ stage[q] \in {"auth", "reauth"} /\ pc[q] = "return"
          /\ \E to : stage' = [stage EXCEPT ![q] = to]
      BY <2>2, ReturnEffect DEF TM!Return, Respond, Advance
    <3>2. \/ UNCHANGED answer
          \/ /\ val[q].token = None
             /\ \E reply : answer' = [answer EXCEPT ![q] = reply]
             /\ stage' = [stage EXCEPT ![q] = "done"]
      BY <2>2, ReturnEffect DEF Respond, Advance
    <3> QED  BY <1>2, <2>1, <3>1, <3>2
  <2>3. ASSUME NEW q \in Requests, Serve(q)
        PROVE  stage[r] # "new" /\ stage'[r] = "done" /\ Excused(r)
    <3>1. /\ stage[q] # "done" /\ \E to : stage' = [stage EXCEPT ![q] = to]
          /\ \/ UNCHANGED answer
             \/ \E reply \in {"ok", "stale", "upstream", "pdf", "login form", "logged out"} :
                   answer' = [answer EXCEPT ![q] = reply]
      BY <2>3, ServeEffect
    <3> QED  BY <1>2, <2>1, <3>1
  <2>4. ASSUME NEW q \in Requests,
               Evict(q) \/ (\E deleted \in BOOLEAN : Delete(q, deleted))
                 \/ \E u \in Users : Arrive(q, u)
        PROVE  UNCHANGED answer /\ stage[q] # "done" /\ \E to : stage' = [stage EXCEPT ![q] = to]
    BY <2>4 DEF Evict, Delete, DeleteAs, Arrive, Advance
  <2>5. ASSUME NEW q \in Requests, SessionFunc(q) \/ InGetToken(q) \/ HangUp(q)
        PROVE  UNCHANGED <<answer, stage>>
    BY <2>5 DEF SessionFunc, SessionFound, SessionNotFound, ToLogin, LoginOk, LoginErr, Persist,
       InGetToken, HangUp, request
  <2>6. CASE Crash
    BY <1>2, <2>6 DEF Crash
  <2>7. (\E c \in alive : Kill(c)) \/ (\E u \in Users : Expire(u)) \/ UNCHANGED vars
          => UNCHANGED <<answer, stage>>
    BY DEF Kill, Expire, vars, request
  <2> QED
    BY <1>2, <2>1, <2>2, <2>3, <2>4, <2>5, <2>6, <2>7 DEF Next, Own, Upstream, Serve
<1>3. \A r \in gone' : stage'[r] # "new"
  <2>1. ASSUME NEW r \in Requests, HangUp(r) PROVE \A q \in gone' : stage'[q] # "new"
    BY <2>1 DEF HangUp, request, ExcuseInv
  <2>2. (\A r \in Requests : ~ HangUp(r)) => gone' = gone
    <3>1. ASSUME NEW r \in Requests, Serve(r) \/ Authenticate(r) \/ Reauthenticate(r)
          PROVE  gone' = gone
      BY <3>1, ServeEffect, ReturnEffect
    <3> QED
      BY <3>1 DEF Next, Own, Upstream, Serve, SessionFunc, SessionFound, SessionNotFound, ToLogin, LoginOk,
         LoginErr, Persist, InGetToken, Evict, Delete, DeleteAs, Arrive, Kill, Expire, Crash, vars
  <2> QED  BY <1>a, <2>1, <2>2, UserStays DEF ExcuseInv
<1> QED  BY <1>1, <1>2, <1>3, ExcuseStays DEF ExcuseInv

\* When logins work, a request is refused for want of a session only if a client
\* of the same user hung up, whatever GEI, i-Ma'luum and the crashes do.
THEOREM UsersDoNotFailEachOther == Spec => []FailureContained
<1>1. Init => ExcuseInv
  BY DEF Init, TM!Init, ExcuseInv
<1>2. ExcuseInv => FailureContained
  BY DEF ExcuseInv, FailureContained, Excused
<1> QED  BY <1>1, <1>2, NextExcuse, SharedHolds, PTL DEF Spec

(***************************************************************************)
(* Every cookie that is kept anywhere was returned by a login of its user, *)
(* so the next login returns a newer one.                                  *)
(***************************************************************************)
Issued == {c \in Cookies : c.n <= logins[c.user]} \cup {None}
KnownInv ==
    /\ \A u \in Users : gei[u] \in Issued /\ tokens[u].token \in Issued /\ evicted[u] \subseteq Issued
    /\ \A r \in Requests : got[r] \in Issued /\ val[r].token \in Issued /\ cookie[r] \in Issued

LEMMA InitKnown == Init => KnownInv
  BY DEF Init, TM!Init, TM!Absent, TM!Nothing, KnownInv, Issued

LEMMA NextKnown == SharedInv /\ KnownInv /\ [Next]_vars => KnownInv'
<1> SUFFICES ASSUME SharedInv, KnownInv, [Next]_vars PROVE KnownInv'
  OBVIOUS
<1>a. /\ tokens \in [Users -> TM!Entry] /\ val \in [Requests -> TM!Result]
      /\ gei \in [Users -> Cookies \cup {None}] /\ got \in [Requests -> Cookies \cup {None}]
      /\ cookie \in [Requests -> Cookies \cup {None}] /\ evicted \in [Users -> SUBSET Cookies]
      /\ logins \in [Users -> Nat] /\ None \in Issued
      /\ \A r \in Requests : stage[r] # "new" => user[r] \in Users
      /\ \A r \in Requests : pc[r] # "idle" => key[r] \in Users
  BY BaseShape DEF SharedInv, Shape, RefreshInv, TypeInv, Issued
<1>b. UNCHANGED logins => Issued' = Issued
  BY DEF Issued
<1> USE DEF KnownInv
<1>1. ASSUME NEW r \in Requests, SessionFound(r) PROVE KnownInv'
  <2>1. /\ key[r] \in Users
        /\ val' = [val EXCEPT ![r].token = gei[key[r]]]
        /\ UNCHANGED <<tokens, gei, evicted, got, cookie, logins>>
    BY <1>1, <1>a DEF SessionFound, Refreshing, TM!RefreshOk, refresh, upstream, l2, request
  <2>2. val'[r].token = gei[key[r]] /\ \A q \in Requests \ {r} : val'[q] = val[q]
    BY <1>a, <2>1 DEF TM!Result
  <2> QED  BY <1>b, <2>1, <2>2
<1>2. ASSUME NEW r \in Requests, NEW stored \in BOOLEAN, Persist(r, stored) PROVE KnownInv'
  <2>1. /\ key[r] \in Users
        /\ val' = [val EXCEPT ![r].token = got[r]]
        /\ gei' = gei \/ gei' = [gei EXCEPT ![key[r]] = got[r]]
        /\ got' = [got EXCEPT ![r] = None]
        /\ UNCHANGED <<tokens, evicted, cookie, logins>>
    BY <1>2, <1>a DEF Persist, Refreshing, TM!RefreshOk, upstream, request
  <2>2. val'[r].token = got[r] /\ \A q \in Requests \ {r} : val'[q] = val[q]
    BY <1>a, <2>1 DEF TM!Result
  <2>3. \A u \in Users : gei'[u] \in {gei[u], got[r]}
    BY <1>a, <2>1
  <2>4. \A q \in Requests : got'[q] \in {got[q], None}
    BY <1>a, <2>1
  <2> QED  BY <1>a, <1>b, <2>1, <2>2, <2>3, <2>4
<1>3. ASSUME NEW r \in Requests, LoginOk(r) PROVE KnownInv'
  <2> DEFINE fresh == [user |-> key[r], n |-> logins[key[r]] + 1]
  <2>1. /\ key[r] \in Users /\ fresh \in Cookies
        /\ logins' = [logins EXCEPT ![key[r]] = @ + 1]
        /\ got' = [got EXCEPT ![r] = fresh]
        /\ UNCHANGED <<tokens, val, gei, evicted, cookie>>
    BY <1>3, <1>a DEF LoginOk, Refreshing, l1, l2, request
  <2>2. Issued \subseteq Issued'
    BY <1>a, <2>1 DEF Issued, Cookies
  <2>3. fresh \in Issued'
    BY <1>a, <2>1 DEF Issued
  <2> HIDE DEF fresh
  <2>4. \A q \in Requests : got'[q] \in {got[q], fresh}
    BY <1>a, <2>1
  <2> QED  BY <2>1, <2>2, <2>3, <2>4
<1>4. ASSUME NEW r \in Requests, SessionNotFound(r) \/ LoginErr(r) PROVE KnownInv'
  <2>1. /\ UNCHANGED <<tokens, gei, evicted, got, cookie, logins>>
        /\ val' = val \/ val' = [val EXCEPT ![r] = TM!Nothing]
    BY <1>4 DEF SessionNotFound, ToLogin, LoginErr, TM!RefreshErr, l1, l2, request, upstream
  <2>2. \A q \in Requests : val'[q] \in {val[q], TM!Nothing}
    BY <1>a, <2>1
  <2> QED  BY <1>a, <1>b, <2>1, <2>2 DEF TM!Nothing
<1>5. ASSUME NEW r \in Requests, InGetToken(r) PROVE KnownInv'
  <2>1. UNCHANGED <<gei, evicted, got, cookie, logins>>
    BY <1>5 DEF InGetToken, refresh, upstream, l2, request
  <2>2. /\ \A u \in Users : tokens'[u].token \in Issued
        /\ \A q \in Requests : val'[q].token \in Issued
    <3>1. CASE TM!Publish(r)
      <4>1. tokens' = tokens /\ \A q \in Requests : val'[q] \in {val[q], val[r]}
        BY <3>1 DEF TM!Publish, TM!Deliver
      <4> QED  BY <4>1
    <3>2. CASE TM!LookupHit(r) \/ TM!RecheckHit(r)
      <4>1. /\ key[r] \in Users /\ tokens' = tokens
            /\ val' = [val EXCEPT ![r] = TM!HeldIn(key[r])]
        BY <1>a, <3>2 DEF TM!LookupHit, TM!RecheckHit
      <4> QED  BY <1>a, <4>1 DEF TM!HeldIn
    <3>3. ASSUME NEW live \in BOOLEAN, TM!Store(r, live)
          PROVE  /\ \A u \in Users : tokens'[u].token \in Issued
                 /\ \A q \in Requests : val'[q].token \in Issued
      BY <1>a, <3>3 DEF TM!Store
    <3>4. CASE TM!LookupMiss(r) \/ TM!Lead(r) \/ TM!Join(r)
      BY <3>4 DEF TM!LookupMiss, TM!Lead, TM!Join
    <3>5. CASE TM!RecheckMiss(r)
      BY <1>a, <3>5 DEF TM!RecheckMiss, TM!BeginRefresh
    <3> QED  BY <1>5, <3>1, <3>2, <3>3, <3>4, <3>5 DEF InGetToken
  <2> QED  BY <1>b, <2>1, <2>2
<1>6. ASSUME NEW r \in Requests, Authenticate(r) \/ Reauthenticate(r) PROVE KnownInv'
  <2>1. /\ UNCHANGED <<tokens, gei, evicted, got, logins>>
        /\ val' = [val EXCEPT ![r] = TM!Nothing]
        /\ cookie' = cookie \/ cookie' = [cookie EXCEPT ![r] = val[r].token]
    BY <1>6, ReturnEffect DEF TM!Return, refresh, l2, upstream
  <2>2. \A q \in Requests : val'[q] \in {val[q], TM!Nothing} /\ cookie'[q] \in {cookie[q], val[r].token}
    BY <1>a, <2>1
  <2> QED  BY <1>a, <1>b, <2>1, <2>2 DEF TM!Nothing
<1>7. ASSUME NEW r \in Requests, Evict(r) PROVE KnownInv'
  <2>1. /\ user[r] \in Users /\ tokens' = [tokens EXCEPT ![user[r]] = TM!Absent]
        /\ UNCHANGED <<val, gei, evicted, got, cookie, logins>>
    BY <1>7, <1>a DEF Evict, Advance, TM!Invalidate, refresh, upstream, l2
  <2> QED  BY <1>a, <1>b, <2>1 DEF TM!Absent
<1>8. ASSUME NEW r \in Requests, NEW deleted \in BOOLEAN, Delete(r, deleted) PROVE KnownInv'
  <2>1. /\ user[r] \in Users
        /\ gei' = gei \/ gei' = [gei EXCEPT ![user[r]] = None]
        /\ \/ evicted' = evicted
           \/ evicted' = [evicted EXCEPT ![user[r]] = evicted[user[r]] \cup ({gei[user[r]]} \ {None})]
        /\ UNCHANGED <<tokens, val, got, cookie, logins>>
    BY <1>8, <1>a DEF Delete, DeleteAs, Advance, TM!Call, refresh, upstream, l2
  <2>2. \A u \in Users : gei'[u] \in {gei[u], None} /\ evicted'[u] \subseteq evicted[u] \cup {gei[u]}
    BY <1>a, <2>1
  <2> QED  BY <1>a, <1>b, <2>1, <2>2
<1>9. ASSUME NEW u \in Users, Expire(u) PROVE KnownInv'
  <2>1. /\ tokens' = [tokens EXCEPT ![u].live = FALSE]
        /\ UNCHANGED <<val, gei, evicted, got, cookie, logins>>
    BY <1>9 DEF Expire, TM!Expire, refresh, upstream, l2, request
  <2>2. \A v \in Users : tokens'[v].token = tokens[v].token
    BY <1>a, <2>1 DEF TM!Entry
  <2> QED  BY <1>b, <2>1, <2>2
<1>10. ASSUME NEW r \in Requests,
              Serve(r) \/ HangUp(r) \/ (\E u \in Users : Arrive(r, u))
       PROVE  UNCHANGED <<tokens, val, gei, evicted, got, cookie, logins>>
  BY <1>10, ServeEffect DEF HangUp, Arrive, TM!Call, l1, refresh, upstream, l2, request
<1>11. (\E c \in alive : Kill(c)) \/ UNCHANGED vars
         => UNCHANGED <<tokens, val, gei, evicted, got, cookie, logins>>
  BY DEF Kill, vars, l1, refresh, upstream, l2, request
<1>12. UNCHANGED <<tokens, val, gei, evicted, got, cookie, logins>> => KnownInv'
  BY <1>b
<1>13. CASE Crash
  BY <1>a, <1>b, <1>13 DEF Crash, TM!Restart, TM!Absent, TM!Nothing, l2, upstream
<1> QED
  BY <1>1, <1>2, <1>3, <1>4, <1>5, <1>6, <1>7, <1>8, <1>9, <1>10, <1>11, <1>12, <1>13
     DEF Next, Own, Upstream, Serve, SessionFunc

LEMMA KnownHolds == Spec => []KnownInv
  BY InitKnown, NextKnown, SharedHolds, PTL DEF Spec

(***************************************************************************)
(* Recovery replaces the cookie.  After a clean eviction nothing that can   *)
(* reach the request is as old as the cookie it found stale: not what GEI  *)
(* or L1 keep, not what a leader of its user holds or has been given.      *)
(***************************************************************************)
Newer(r) == {c \in Cookies : c.n > cookie[r].n} \cup {None}
Replaced(r) ==
    /\ HasIndexer => gei[user[r]] \in Newer(r)
    /\ tokens[user[r]].token \in Newer(r)
    /\ val[r].token \in Newer(r)
    /\ \A q \in Requests : key[q] = user[r] /\ Leads(q) => val[q].token \in Newer(r)
    /\ \A q \in Requests : key[q] = user[r] => got[q] \in Newer(r)
NewerInv == \A r \in Requests : stage[r] = "reauth" /\ clean[r] => Replaced(r)

\* The eviction that finds no refresh under way leaves nothing old behind.
LEMMA DeleteReplaces ==
    ASSUME SharedInv, NEW r \in Requests, NEW deleted \in BOOLEAN, Delete(r, deleted), clean'[r]
    PROVE  Replaced(r)'
<1>a. /\ tokens \in [Users -> TM!Entry] /\ gei \in [Users -> Cookies \cup {None}]
      /\ clean \in [Requests -> BOOLEAN] /\ pc \in [Requests -> TM!Steps]
      /\ key \in [Requests -> Users \cup {None}]
      /\ user[r] \in Users
  BY BaseShape DEF SharedInv, Shape, RefreshInv, TypeInv, Delete, DeleteAs, Advance
<1>b. /\ \A q \in Requests : Leads(q) => key[q] \in inflight
      /\ \A q \in Requests : got[q] # None => pc[q] = "refresh"
      /\ \A q \in Requests : pc[q] = "idle" => val[q].token = None /\ got[q] = None
  BY BaseShape DEF SharedInv, Shape, LinkInv
<1>1. /\ pc[r] = "idle" /\ pc' = [pc EXCEPT ![r] = "lookup"]
      /\ key' = [key EXCEPT ![r] = user[r]]
      /\ UNCHANGED <<tokens, val, got, user, cookie>>
      /\ gei' = IF deleted THEN [gei EXCEPT ![user[r]] = None] ELSE gei
  BY DEF Delete, DeleteAs, TM!Call, refresh, l2
<1>2. user[r] \notin inflight /\ tokens[user[r]] = TM!Absent /\ (HasIndexer => deleted)
  <2> DEFINE met == /\ user[r] \notin inflight
                    /\ tokens[user[r]] = TM!Absent
                    /\ deleted \/ ~HasIndexer
  <2>1. met \in BOOLEAN /\ clean' = [clean EXCEPT ![r] = met]
    BY DEF Delete, DeleteAs
  <2> HIDE DEF met
  <2>2. clean'[r] = met
    BY <1>a, <2>1, Zenon
  <2>3. met
    BY <2>2, Zenon
  <2> QED  BY <2>3 DEF met
<1>3. None \in Newer(r)'
  BY DEF Newer
<1>4. HasIndexer => gei'[user'[r]] = None
  BY <1>a, <1>1, <1>2
<1>5. tokens'[user'[r]].token = None /\ val'[r].token = None
  BY <1>b, <1>1, <1>2 DEF TM!Absent
<1>6. \A q \in Requests : key'[q] = user'[r] => ~Leads(q)' /\ got'[q] = None
  <2> SUFFICES ASSUME NEW q \in Requests, key'[q] = user'[r] PROVE ~Leads(q)' /\ got'[q] = None
    OBVIOUS
  <2>1. CASE q = r
    BY <1>a, <1>b, <1>1, <2>1 DEF Leads
  <2>2. CASE q # r
    BY <1>a, <1>b, <1>1, <1>2, <2>2 DEF Leads
  <2> QED  BY <2>1, <2>2
<1> QED  BY <1>3, <1>4, <1>5, <1>6 DEF Replaced

\* Until the request has its new cookie, only newer ones come within its reach.
LEMMA ReplacedStays ==
    ASSUME SharedInv, KnownInv, [Next]_vars, NEW r \in Requests,
           stage[r] = "reauth", stage'[r] = "reauth", Replaced(r)
    PROVE  Replaced(r)' /\ UNCHANGED <<clean[r], cookie[r]>>
<1>a. /\ tokens \in [Users -> TM!Entry] /\ val \in [Requests -> TM!Result]
      /\ gei \in [Users -> Cookies \cup {None}] /\ got \in [Requests -> Cookies \cup {None}]
      /\ cookie \in [Requests -> Cookies \cup {None}] /\ clean \in [Requests -> BOOLEAN]
      /\ logins \in [Users -> Nat] /\ stage \in [Requests -> Stages]
      /\ pc \in [Requests -> TM!Steps] /\ key \in [Requests -> Users \cup {None}]
      /\ user \in [Requests -> Users \cup {None}]
  BY BaseShape DEF SharedInv, Shape, RefreshInv, TypeInv
<1>b. /\ \A q \in Requests : stage[q] # "new" => user[q] \in Users
      /\ \A q \in Requests : pc[q] # "idle" => key[q] \in Users
      /\ \A q \in Requests : got[q] # None => pc[q] = "refresh"
      /\ \A q \in Requests : pc[q] \in {"idle", "do"} => val[q].token = None
      /\ \A q \in Requests : stage[q] = "reauth" => pc[q] # "idle"
      /\ pc[r] # "idle" /\ key[r] = user[r] /\ user[r] \in Users
  BY BaseShape DEF SharedInv, Shape, RefreshInv, LinkInv
<1>c. cookie[r] \in Issued \ {None} /\ cookie[r].user = user[r]
  BY DEF KnownInv, SharedInv, LinkInv, OwnedBy
<1>d. UNCHANGED cookie[r] => Newer(r)' = Newer(r)
  BY DEF Newer
<1>e. None \in Newer(r)
  BY DEF Newer
<1> USE <1>e DEF Replaced
<1>1. ASSUME NEW q \in Requests, SessionFound(q)
      PROVE  Replaced(r)' /\ UNCHANGED <<clean[r], cookie[r]>>
  <2>1. /\ pc[q] = "refresh" /\ HasIndexer
        /\ val' = [val EXCEPT ![q].token = gei[key[q]]]
        /\ pc' = [pc EXCEPT ![q] = "store"]
        /\ UNCHANGED <<tokens, gei, got, cookie, user, clean, key>>
    BY <1>1 DEF SessionFound, Refreshing, TM!RefreshOk, refresh, l2, request
  <2>2. val'[q].token = gei[key[q]] /\ \A x \in Requests \ {q} : val'[x] = val[x]
    BY <1>a, <2>1 DEF TM!Result
  <2>3. \A x \in Requests : Leads(x)' => Leads(x)
    BY <1>a, <2>1 DEF Leads
  <2> QED  BY <1>b, <1>d, <2>1, <2>2, <2>3
<1>2. ASSUME NEW q \in Requests, NEW stored \in BOOLEAN, Persist(q, stored)
      PROVE  Replaced(r)' /\ UNCHANGED <<clean[r], cookie[r]>>
  <2>1. /\ pc[q] = "refresh" /\ key[q] \in Users
        /\ val' = [val EXCEPT ![q].token = got[q]]
        /\ pc' = [pc EXCEPT ![q] = "store"]
        /\ gei' = gei \/ gei' = [gei EXCEPT ![key[q]] = got[q]]
        /\ got' = [got EXCEPT ![q] = None]
        /\ UNCHANGED <<tokens, cookie, user, clean, key>>
    BY <1>2, <1>b DEF Persist, Refreshing, TM!RefreshOk, request
  <2>2. val'[q].token = got[q] /\ \A x \in Requests \ {q} : val'[x] = val[x]
    BY <1>a, <2>1 DEF TM!Result
  <2>3. \A x \in Requests : Leads(x)' => Leads(x)
    BY <1>a, <2>1 DEF Leads
  <2>4. gei'[user[r]] = gei[user[r]] \/ (key[q] = user[r] /\ gei'[user[r]] = got[q])
    BY <1>a, <1>b, <2>1
  <2>5. \A x \in Requests : got'[x] \in {got[x], None}
    BY <1>a, <2>1
  <2> QED  BY <1>b, <1>d, <2>1, <2>2, <2>3, <2>4, <2>5
<1>3. ASSUME NEW q \in Requests, LoginOk(q)
      PROVE  Replaced(r)' /\ UNCHANGED <<clean[r], cookie[r]>>
  <2> DEFINE fresh == [user |-> key[q], n |-> logins[key[q]] + 1]
  <2>1. /\ fresh \in Cookies
        /\ got' = [got EXCEPT ![q] = fresh]
        /\ UNCHANGED <<tokens, val, gei, cookie, user, clean, key, pc>>
    BY <1>3 DEF LoginOk, Refreshing, l1, l2, request
  <2>2. key[q] = user[r] => fresh \in Newer(r)
    BY <1>a, <1>b, <1>c, <2>1 DEF Newer, Issued, Cookies
  <2> HIDE DEF fresh
  <2>3. got'[q] = fresh /\ \A x \in Requests \ {q} : got'[x] = got[x]
    BY <1>a, <2>1
  <2> QED  BY <1>d, <2>1, <2>2, <2>3 DEF Leads
<1>4. ASSUME NEW q \in Requests, SessionNotFound(q) \/ LoginErr(q)
      PROVE  Replaced(r)' /\ UNCHANGED <<clean[r], cookie[r]>>
  <2>1. /\ pc[q] = "refresh"
        /\ UNCHANGED <<tokens, gei, got, cookie, user, clean, key>>
        /\ val' = val \/ val' = [val EXCEPT ![q] = TM!Nothing]
        /\ pc' = pc \/ pc' = [pc EXCEPT ![q] = "publish"]
    BY <1>4 DEF SessionNotFound, ToLogin, LoginErr, Refreshing, TM!RefreshErr, l1, l2, request
  <2>2. \A x \in Requests : val'[x] \in {val[x], TM!Nothing}
    BY <1>a, <2>1
  <2>3. \A x \in Requests : Leads(x)' => Leads(x)
    BY <1>a, <2>1 DEF Leads
  <2> QED  BY <1>d, <2>1, <2>2, <2>3 DEF TM!Nothing
<1>5. ASSUME NEW q \in Requests, InGetToken(q)
      PROVE  Replaced(r)' /\ UNCHANGED <<clean[r], cookie[r]>>
  <2>1. UNCHANGED <<gei, got, cookie, user, clean>>
    BY <1>5 DEF InGetToken, refresh, l2, request
  <2>2. CASE TM!Publish(q)
    <3>1. /\ pc[q] = "publish" /\ UNCHANGED <<tokens, key>>
          /\ \A x \in Requests :
               \/ val'[x] = val[q] /\ key[x] = key[q] /\ pc'[x] = "return"
               \/ val'[x] = val[x] /\ pc'[x] \in {pc[x], "return"}
      BY <2>2 DEF TM!Publish, TM!Deliver, TM!Waiters
    <3>2. Leads(q) /\ \A x \in Requests : Leads(x)' => Leads(x) /\ val'[x] = val[x]
      BY <3>1 DEF Leads
    <3>3. val'[r].token \in Newer(r)
      BY <1>b, <3>1, <3>2
    <3> QED  BY <1>d, <2>1, <3>1, <3>2, <3>3
  <2>3. CASE TM!LookupHit(q) \/ TM!RecheckHit(q)
    <3>1. /\ key[q] \in Users /\ UNCHANGED <<tokens, key>>
          /\ val' = [val EXCEPT ![q] = TM!HeldIn(key[q])]
          /\ pc' = [pc EXCEPT ![q] = "return"] \/ (pc' = [pc EXCEPT ![q] = "publish"] /\ pc[q] = "recheck")
      BY <1>b, <2>3 DEF TM!LookupHit, TM!RecheckHit
    <3>2. /\ val'[q].token = tokens[key[q]].token
          /\ \A x \in Requests \ {q} : val'[x] = val[x]
      BY <1>a, <3>1 DEF TM!HeldIn
    <3>3. \A x \in Requests : Leads(x)' => Leads(x)
      BY <1>a, <3>1 DEF Leads
    <3> QED  BY <1>b, <1>d, <2>1, <3>1, <3>2, <3>3
  <2>4. ASSUME NEW live \in BOOLEAN, TM!Store(q, live)
        PROVE  Replaced(r)' /\ UNCHANGED <<clean[r], cookie[r]>>
    <3>1. /\ pc[q] = "store" /\ key[q] \in Users /\ UNCHANGED <<val, key>>
          /\ tokens' = [tokens EXCEPT ![key[q]] =
                          [token |-> val[q].token, run |-> val[q].run, live |-> live]]
          /\ pc' = [pc EXCEPT ![q] = "publish"]
      BY <1>b, <2>4 DEF TM!Store
    <3>2. Leads(q) /\ \A x \in Requests : Leads(x)' => Leads(x)
      BY <1>a, <3>1 DEF Leads
    <3>3. \/ tokens'[user[r]] = tokens[user[r]]
          \/ key[q] = user[r] /\ tokens'[user[r]].token = val[q].token
      BY <1>a, <1>b, <3>1
    <3> QED  BY <1>d, <2>1, <3>1, <3>2, <3>3
  <2>5. CASE TM!LookupMiss(q) \/ TM!Lead(q) \/ TM!Join(q)
    <3>1. /\ UNCHANGED <<tokens, val, key>>
          /\ \/ pc[q] = "do" /\ \E to : pc' = [pc EXCEPT ![q] = to]
             \/ pc' = [pc EXCEPT ![q] = "do"]
      BY <2>5 DEF TM!LookupMiss, TM!Lead, TM!Join
    <3>2. \A x \in Requests : Leads(x)' => Leads(x) \/ val[x].token = None
      BY <1>a, <1>b, <3>1 DEF Leads
    <3> QED  BY <1>d, <2>1, <3>1, <3>2
  <2>6. CASE TM!RecheckMiss(q)
    <3>1. /\ UNCHANGED <<tokens, key>> /\ pc[q] = "recheck"
          /\ pc' = [pc EXCEPT ![q] = "refresh"]
          /\ val' = [val EXCEPT ![q] = [token |-> None, run |-> started[key[q]] + 1]]
      BY <2>6 DEF TM!RecheckMiss, TM!BeginRefresh
    <3>2. val'[q].token = None /\ \A x \in Requests \ {q} : val'[x] = val[x]
      BY <1>a, <3>1
    <3>3. \A x \in Requests : Leads(x)' => Leads(x)
      BY <1>a, <3>1 DEF Leads
    <3> QED  BY <1>d, <2>1, <3>1, <3>2, <3>3
  <2> QED  BY <1>5, <2>2, <2>3, <2>4, <2>5, <2>6 DEF InGetToken
<1>6. ASSUME NEW q \in Requests, Authenticate(q) \/ Reauthenticate(q)
      PROVE  Replaced(r)' /\ UNCHANGED <<clean[r], cookie[r]>>
  <2>1. /\ pc' = [pc EXCEPT ![q] = "idle"] /\ val' = [val EXCEPT ![q] = TM!Nothing]
        /\ key' = [key EXCEPT ![q] = None]
        /\ UNCHANGED <<tokens, gei, got, user, clean>>
    BY <1>6, ReturnEffect DEF TM!Return, refresh, l2
  <2>2. /\ \E to : to # "reauth" /\ stage' = [stage EXCEPT ![q] = to]
        /\ cookie' = cookie \/ \E c : cookie' = [cookie EXCEPT ![q] = c]
    BY <1>6, ReturnEffect DEF Respond, Advance
  <2>3. q # r
    BY <1>a, <2>2
  <2>4. UNCHANGED cookie[r]
    BY <1>a, <2>2, <2>3
  <2>5. \A x \in Requests : Leads(x)' => Leads(x) /\ key'[x] = key[x] /\ val'[x] = val[x]
    BY <1>a, <2>1 DEF Leads
  <2>6. \A x \in Requests : key'[x] = key[x] \/ key'[x] = None
    BY <1>a, <2>1
  <2>7. None \notin Users
    OBVIOUS
  <2>8. val'[r] = val[r]
    BY <1>a, <2>1, <2>3
  <2> QED  BY <1>b, <1>d, <2>1, <2>4, <2>5, <2>6, <2>7, <2>8
<1>7. ASSUME NEW q \in Requests, Evict(q)
      PROVE  Replaced(r)' /\ UNCHANGED <<clean[r], cookie[r]>>
  <2>1. /\ tokens' = [tokens EXCEPT ![user[q]] = TM!Absent]
        /\ UNCHANGED <<val, gei, got, cookie, user, clean, key, pc>>
    BY <1>7 DEF Evict, TM!Invalidate, refresh, l2
  <2>2. tokens'[user[r]] \in {tokens[user[r]], TM!Absent}
    BY <1>a, <1>b, <2>1
  <2> QED  BY <1>d, <2>1, <2>2 DEF TM!Absent, Leads
<1>8. ASSUME NEW q \in Requests, NEW u \in Users, TM!Call(q, u),
             UNCHANGED <<tokens, got, user, cookie>>, UNCHANGED clean[r],
             gei'[user[r]] \in {gei[user[r]], None}
      PROVE  Replaced(r)' /\ UNCHANGED <<clean[r], cookie[r]>>
  <2>1. /\ pc[q] = "idle" /\ pc' = [pc EXCEPT ![q] = "lookup"]
        /\ key' = [key EXCEPT ![q] = u] /\ val' = val
    BY <1>8 DEF TM!Call
  <2>2. \A x \in Requests : Leads(x)' => Leads(x) /\ key'[x] = key[x]
    BY <1>a, <2>1 DEF Leads
  <2>3. \A x \in Requests : key'[x] = key[x] \/ got[x] = None
    BY <1>a, <1>b, <2>1
  <2> QED  BY <1>8, <1>d, <2>1, <2>2, <2>3
<1>9. ASSUME NEW q \in Requests, NEW deleted \in BOOLEAN, Delete(q, deleted)
      PROVE  Replaced(r)' /\ UNCHANGED <<clean[r], cookie[r]>>
  <2>1. /\ user[q] \in Users /\ q # r /\ TM!Call(q, user[q])
        /\ UNCHANGED <<tokens, got, user, cookie>>
        /\ gei' = gei \/ gei' = [gei EXCEPT ![user[q]] = None]
        /\ \E met : clean' = [clean EXCEPT ![q] = met]
    BY <1>9, <1>b DEF Delete, DeleteAs, Advance, TM!Call, refresh, l2
  <2>2. UNCHANGED clean[r] /\ gei'[user[r]] \in {gei[user[r]], None}
    BY <1>a, <1>b, <2>1
  <2> QED  BY <1>8, <2>1, <2>2
<1>10. ASSUME NEW q \in Requests, NEW u \in Users, Arrive(q, u)
       PROVE  Replaced(r)' /\ UNCHANGED <<clean[r], cookie[r]>>
  <2>1. /\ stage[q] = "new" /\ TM!Call(q, u) /\ user' = [user EXCEPT ![q] = u]
        /\ UNCHANGED <<got, cookie, clean, gei>>
    BY <1>10 DEF Arrive, Advance, refresh, l2
  <2>2. user'[r] = user[r] /\ UNCHANGED tokens
    BY <1>a, <2>1 DEF TM!Call
  <2>3. /\ pc[q] = "idle" /\ pc' = [pc EXCEPT ![q] = "lookup"]
        /\ key' = [key EXCEPT ![q] = u] /\ val' = val
    BY <2>1 DEF TM!Call
  <2>4. \A x \in Requests : Leads(x)' => Leads(x) /\ key'[x] = key[x]
    BY <1>a, <2>3 DEF Leads
  <2>5. \A x \in Requests : key'[x] = key[x] \/ got[x] = None
    BY <1>a, <1>b, <2>3
  <2> QED  BY <1>d, <2>1, <2>2, <2>3, <2>4, <2>5
<1>11. ASSUME NEW u \in Users, Expire(u)
       PROVE  Replaced(r)' /\ UNCHANGED <<clean[r], cookie[r]>>
  <2>1. /\ tokens' = [tokens EXCEPT ![u].live = FALSE]
        /\ UNCHANGED <<val, gei, got, cookie, user, clean, key, pc>>
    BY <1>11 DEF Expire, TM!Expire, refresh, l2, request
  <2>2. \A v \in Users : tokens'[v].token = tokens[v].token
    BY <1>a, <2>1 DEF TM!Entry
  <2> QED  BY <1>b, <1>d, <2>1, <2>2 DEF Leads
<1>12. ASSUME UNCHANGED <<tokens, val, gei, got, cookie, user, clean, key, pc>>
       PROVE  Replaced(r)' /\ UNCHANGED <<clean[r], cookie[r]>>
  BY <1>d, <1>12 DEF Leads
<1>13. ASSUME NEW q \in Requests, Serve(q) \/ HangUp(q)
       PROVE  UNCHANGED <<tokens, val, gei, got, cookie, user, clean, key, pc>>
  BY <1>13, ServeEffect DEF HangUp, l1, refresh, l2, request
<1>14. (\E c \in alive : Kill(c)) \/ UNCHANGED vars
          => UNCHANGED <<tokens, val, gei, got, cookie, user, clean, key, pc>>
  BY DEF Kill, vars, l1, refresh, l2, request
<1>15. ~ Crash
  BY DEF Crash
<1> QED
  BY <1>1, <1>2, <1>3, <1>4, <1>5, <1>6, <1>7, <1>9, <1>10, <1>11, <1>12, <1>13, <1>14, <1>15
     DEF Next, Own, Upstream, Serve, SessionFunc

\* A request begins to wait for a new cookie with Delete, and ends with Reauthenticate.
LEMMA ReauthStage ==
    ASSUME SharedInv, [Next]_vars, NEW r \in Requests
    PROVE  /\ stage'[r] = "reauth" =>
                stage[r] = "reauth" \/ \E deleted \in BOOLEAN : Delete(r, deleted)
           /\ Recovers(r) => val[r].token # None /\ cookie'[r] = val[r].token
<1>a. /\ stage \in [Requests -> Stages] /\ cookie \in [Requests -> Cookies \cup {None}]
  BY DEF SharedInv, BaseInv, RefreshInv, TypeInv
<1> DEFINE Goal == /\ stage'[r] = "reauth" =>
                        stage[r] = "reauth" \/ \E deleted \in BOOLEAN : Delete(r, deleted)
                   /\ Recovers(r) => val[r].token # None /\ cookie'[r] = val[r].token
<1>1. CASE stage'[r] = stage[r]
  BY <1>1 DEF Recovers
<1>2. ASSUME NEW q \in Requests, Authenticate(q) \/ Reauthenticate(q) PROVE Goal
  <2>1. CASE q = r
    <3>1. CASE val[r].token = None
      <4>1. stage' = [stage EXCEPT ![r] = "done"]
        BY <1>2, <2>1, <3>1, ReturnEffect DEF Respond, Advance
      <4> QED  BY <1>a, <4>1 DEF Recovers
    <3>2. CASE val[r].token # None
      <4>1. /\ cookie' = [cookie EXCEPT ![r] = val[r].token]
            /\ \E to \in {"scrape", "download", "logout", "retry"} : stage' = [stage EXCEPT ![r] = to]
        BY <1>2, <2>1, <3>2, ReturnEffect
      <4> QED  BY <1>a, <3>2, <4>1 DEF Recovers
    <3> QED  BY <3>1, <3>2
  <2>2. CASE q # r
    <3>1. \E to : stage' = [stage EXCEPT ![q] = to]
      BY <1>2, ReturnEffect DEF Respond, Advance
    <3> QED  BY <1>a, <1>1, <2>2, <3>1
  <2> QED  BY <2>1, <2>2
<1>3. ASSUME NEW q \in Requests, Serve(q) \/ Evict(q) \/ (\E u \in Users : Arrive(q, u)) PROVE Goal
  <2>1. /\ stage[q] # "reauth"
        /\ \E to : to # "reauth" /\ stage' = [stage EXCEPT ![q] = to]
    BY <1>3, ServeEffect DEF Evict, Arrive, Advance
  <2> QED  BY <1>a, <2>1 DEF Recovers
<1>4. ASSUME NEW q \in Requests, NEW deleted \in BOOLEAN, Delete(q, deleted) PROVE Goal
  <2>1. stage[q] = "delete" /\ stage' = [stage EXCEPT ![q] = "reauth"]
    BY <1>4 DEF Delete, DeleteAs, Advance
  <2> QED  BY <1>a, <1>4, <2>1 DEF Recovers
<1>5. CASE Crash
  BY <1>5 DEF Crash, Recovers
<1>6. ASSUME NEW q \in Requests, SessionFunc(q) \/ InGetToken(q) \/ HangUp(q) PROVE UNCHANGED stage
  BY <1>6 DEF SessionFunc, SessionFound, SessionNotFound, ToLogin, LoginOk, LoginErr, Persist,
     InGetToken, HangUp, request
<1>7. (\E c \in alive : Kill(c)) \/ (\E u \in Users : Expire(u)) \/ UNCHANGED vars
        => UNCHANGED stage
  BY DEF Kill, Expire, vars, request
<1> QED  BY <1>1, <1>2, <1>3, <1>4, <1>5, <1>6, <1>7 DEF Next, Own, Upstream, Serve

LEMMA NextNewer == SharedInv /\ KnownInv /\ NewerInv /\ [Next]_vars => NewerInv'
<1> SUFFICES ASSUME SharedInv, KnownInv, NewerInv, [Next]_vars,
                    NEW r \in Requests, stage'[r] = "reauth", clean'[r]
             PROVE  Replaced(r)'
  BY DEF NewerInv
<1>1. CASE stage[r] = "reauth"
  <2>1. UNCHANGED clean[r]
    <3>1. ASSUME NEW q \in Requests, NEW deleted \in BOOLEAN, Delete(q, deleted)
          PROVE  UNCHANGED clean[r]
      <4>1. stage[q] = "delete" /\ \E met : clean' = [clean EXCEPT ![q] = met]
        BY <3>1 DEF Delete, DeleteAs, Advance
      <4> QED  BY <1>1, <4>1 DEF SharedInv, TypeInv
    <3>2. ASSUME NEW q \in Requests, Authenticate(q) \/ Reauthenticate(q) \/ Serve(q)
          PROVE  UNCHANGED clean
      BY <3>2, ReturnEffect, ServeEffect
    <3> QED
      BY <3>1, <3>2 DEF Next, Own, Upstream, Serve, SessionFunc, SessionFound, SessionNotFound, ToLogin,
         LoginOk, LoginErr, Persist, InGetToken, Evict, Arrive, HangUp, Kill, Expire, Crash,
         vars, request
  <2> QED  BY <1>1, <2>1, ReplacedStays DEF NewerInv
<1>2. CASE stage[r] # "reauth"
  BY <1>2, ReauthStage, DeleteReplaces
<1> QED  BY <1>1, <1>2

LEMMA NewerHolds == Spec => []NewerInv
<1>1. Init => NewerInv
  BY DEF Init, NewerInv
<1> QED  BY <1>1, NextNewer, SharedHolds, KnownHolds, PTL DEF Spec

\* When no refresh of the user was under way at its eviction and GEI did delete,
\* the retry runs with a newer cookie, whatever fails and whoever else evicts.
THEOREM CleanEvictionReplaces == Spec => RecoveryReplaces
<1>1. ASSUME SharedInv, NewerInv, [Next]_vars, NEW r \in Requests, Recovers(r), clean[r]
      PROVE  cookie'[r].n > cookie[r].n
  <2>1. val[r].token # None /\ cookie'[r] = val[r].token
    BY <1>1, ReauthStage
  <2>2. Replaced(r)
    BY <1>1 DEF NewerInv, Recovers
  <2> QED  BY <2>1, <2>2 DEF Replaced, Newer
<1>2. SharedInv /\ NewerInv /\ [Next]_vars =>
        [\A r \in Requests : Recovers(r) /\ clean[r] => cookie'[r].n > cookie[r].n]_vars
  BY <1>1
<1> QED  BY <1>2, SharedHolds, NewerHolds, PTL DEF Spec, RecoveryReplaces

(***************************************************************************)
(* A cookie that a leader is about to persist has been seen by nobody, and *)
(* GEI keeps no cookie that was deleted from it.                           *)
(***************************************************************************)
Unseen(c) ==
    /\ \A r \in Requests : c # val[r].token /\ c # cookie[r]
    /\ \A u \in Users : c # tokens[u].token /\ c # gei[u] /\ c \notin evicted[u]
UnseenInv ==
    /\ \A r \in Requests : step[r] = "persist" => Unseen(got[r])
    /\ \A u \in Users : gei[u] \notin evicted[u]

LEMMA NextUnseen ==
    SharedInv /\ KnownInv /\ UnseenInv /\ [Next]_vars => UnseenInv'
<1> SUFFICES ASSUME SharedInv, KnownInv, UnseenInv, [Next]_vars
             PROVE  UnseenInv'
  OBVIOUS
<1>a. /\ tokens \in [Users -> TM!Entry] /\ val \in [Requests -> TM!Result]
      /\ gei \in [Users -> Cookies \cup {None}] /\ got \in [Requests -> Cookies \cup {None}]
      /\ cookie \in [Requests -> Cookies \cup {None}] /\ evicted \in [Users -> SUBSET Cookies]
      /\ step \in [Requests -> {"get", "login", "persist"}]
      /\ logins \in [Users -> Nat] /\ user \in [Requests -> Users \cup {None}]
  BY BaseShape DEF SharedInv, Shape, RefreshInv, TypeInv
<1>b. /\ \A r \in Requests : stage[r] # "new" => user[r] \in Users
      /\ \A r \in Requests : pc[r] # "idle" => key[r] \in Users
      /\ \A r \in Requests : step[r] = "persist" => pc[r] = "refresh" /\ got[r] # None
      /\ \A q, r \in Requests : key[q] = key[r] /\ pc[q] = "refresh" /\ pc[r] = "refresh" => q = r
  BY BaseShape DEF SharedInv, Shape, RefreshInv, LinkInv, Leads
<1>d. \A q, r \in Requests : step[q] = "persist" /\ step[r] = "persist" /\ q # r => got[q] # got[r]
  BY <1>a, <1>b DEF SharedInv, BaseInv, RefreshInv, OwnedBy
<1>1. ASSUME NEW q \in Requests, SessionFound(q) PROVE UnseenInv'
  <2>1. /\ key[q] \in Users
        /\ val' = [val EXCEPT ![q].token = gei[key[q]]]
        /\ UNCHANGED <<tokens, gei, evicted, cookie, step, got>>
    BY <1>1, <1>b DEF SessionFound, Refreshing, TM!RefreshOk, refresh, l2, request
  <2>2. val'[q].token = gei[key[q]] /\ \A x \in Requests \ {q} : val'[x] = val[x]
    BY <1>a, <2>1 DEF TM!Result
  <2> QED  BY <1>b, <2>1, <2>2 DEF UnseenInv, Unseen
<1>2. ASSUME NEW q \in Requests, NEW stored \in BOOLEAN, Persist(q, stored) PROVE UnseenInv'
  <2>1. /\ pc[q] = "refresh" /\ step[q] = "persist" /\ key[q] \in Users
        /\ val' = [val EXCEPT ![q].token = got[q]]
        /\ step' = [step EXCEPT ![q] = "get"] /\ got' = [got EXCEPT ![q] = None]
        /\ gei' = gei \/ gei' = [gei EXCEPT ![key[q]] = got[q]]
        /\ UNCHANGED <<tokens, evicted, cookie>>
    BY <1>2, <1>b DEF Persist, Refreshing, TM!RefreshOk, request
  <2>2. val'[q].token = got[q] /\ \A x \in Requests \ {q} : val'[x] = val[x]
    BY <1>a, <2>1 DEF TM!Result
  <2>3. step'[q] = "get" /\ \A x \in Requests \ {q} : step'[x] = step[x] /\ got'[x] = got[x]
    BY <1>a, <2>1
  <2>4. \A u \in Users : gei'[u] \in {gei[u], got[q]}
    BY <1>a, <2>1
  <2>5. \A u \in Users : gei'[u] \notin evicted'[u]
    BY <2>1, <2>4 DEF UnseenInv, Unseen
  <2>6. \A x \in Requests : step'[x] = "persist" => x # q /\ step[x] = "persist" /\ got'[x] = got[x]
    BY <2>3
  <2>7. \A x \in Requests : step'[x] = "persist" => Unseen(got[x])'
    BY <1>d, <2>1, <2>2, <2>4, <2>6 DEF UnseenInv, Unseen
  <2> QED  BY <2>5, <2>7 DEF UnseenInv
<1>3. ASSUME NEW q \in Requests, LoginOk(q) PROVE UnseenInv'
  <2> DEFINE fresh == [user |-> key[q], n |-> logins[key[q]] + 1]
  <2>1. /\ pc[q] = "refresh" /\ key[q] \in Users /\ fresh \in Cookies
        /\ got' = [got EXCEPT ![q] = fresh]
        /\ step' = [step EXCEPT ![q] = "persist"]
        /\ UNCHANGED <<tokens, val, gei, evicted, cookie>>
    BY <1>3, <1>b DEF LoginOk, Refreshing, l1, l2, request
  <2>2. fresh \notin Issued
    BY <1>a, <2>1 DEF Issued, Cookies
  <2> HIDE DEF fresh
  <2>3. Unseen(fresh)
    BY <2>2 DEF KnownInv, Unseen
  <2>4. \A x \in Requests : step'[x] = "persist" =>
          got'[x] = fresh \/ (step[x] = "persist" /\ got'[x] = got[x])
    BY <1>a, <2>1
  <2> QED  BY <2>1, <2>3, <2>4 DEF UnseenInv, Unseen
<1>4. ASSUME NEW q \in Requests, SessionNotFound(q) \/ LoginErr(q) PROVE UnseenInv'
  <2>1. /\ UNCHANGED <<tokens, gei, evicted, got, cookie>>
        /\ val' = val \/ val' = [val EXCEPT ![q] = TM!Nothing]
        /\ \E to \in {"login", "get"} : step' = [step EXCEPT ![q] = to]
    BY <1>4 DEF SessionNotFound, ToLogin, LoginErr, TM!RefreshErr, l1, l2, request
  <2>2. /\ \A x \in Requests : val'[x] \in {val[x], TM!Nothing}
        /\ \A x \in Requests : step'[x] = "persist" => step[x] = "persist"
    BY <1>a, <2>1
  <2> QED  BY <1>b, <2>1, <2>2 DEF TM!Nothing, UnseenInv, Unseen
<1>5. ASSUME NEW q \in Requests, InGetToken(q) PROVE UnseenInv'
  <2>1. UNCHANGED <<gei, evicted, got, cookie, step>>
    BY <1>5 DEF InGetToken, refresh, l2, request
  <2>2. /\ \A u \in Users : \/ tokens'[u].token = tokens[u].token
                            \/ \E x \in Requests : tokens'[u].token = val[x].token
        /\ \A x \in Requests : \/ val'[x].token = None
                               \/ \E y \in Requests : val'[x].token = val[y].token
                               \/ \E u \in Users : val'[x].token = tokens[u].token
    <3>1. CASE TM!Publish(q)
      <4>1. tokens' = tokens /\ \A x \in Requests : val'[x] \in {val[x], val[q]}
        BY <3>1 DEF TM!Publish, TM!Deliver
      <4> QED  BY <4>1
    <3>2. CASE TM!LookupHit(q) \/ TM!RecheckHit(q)
      <4>1. /\ key[q] \in Users /\ tokens' = tokens
            /\ val' = [val EXCEPT ![q] = TM!HeldIn(key[q])]
        BY <1>b, <3>2 DEF TM!LookupHit, TM!RecheckHit
      <4>2. val'[q].token = tokens[key[q]].token /\ \A x \in Requests \ {q} : val'[x] = val[x]
        BY <1>a, <4>1 DEF TM!HeldIn
      <4> QED  BY <4>1, <4>2
    <3>3. ASSUME NEW live \in BOOLEAN, TM!Store(q, live)
          PROVE  /\ val' = val
                 /\ \A u \in Users : tokens'[u].token \in {tokens[u].token, val[q].token}
      BY <1>a, <3>3 DEF TM!Store
    <3>4. CASE TM!LookupMiss(q) \/ TM!Lead(q) \/ TM!Join(q)
      BY <3>4 DEF TM!LookupMiss, TM!Lead, TM!Join
    <3>5. CASE TM!RecheckMiss(q)
      <4>1. /\ tokens' = tokens
            /\ val' = [val EXCEPT ![q] = [token |-> None, run |-> started[key[q]] + 1]]
        BY <3>5 DEF TM!RecheckMiss, TM!BeginRefresh
      <4>2. val'[q].token = None /\ \A x \in Requests \ {q} : val'[x] = val[x]
        BY <1>a, <4>1
      <4> QED  BY <4>1, <4>2
    <3>6. CASE val' = val /\ \A u \in Users : tokens'[u].token \in {tokens[u].token, val[q].token}
      BY <3>6
    <3> QED  BY <1>5, <3>1, <3>2, <3>3, <3>4, <3>5, <3>6 DEF InGetToken
  <2> QED  BY <1>b, <2>1, <2>2 DEF UnseenInv, Unseen
<1>6. ASSUME NEW q \in Requests, Authenticate(q) \/ Reauthenticate(q) PROVE UnseenInv'
  <2>1. /\ UNCHANGED <<tokens, gei, evicted, got, step>>
        /\ val' = [val EXCEPT ![q] = TM!Nothing]
        /\ cookie' = cookie \/ cookie' = [cookie EXCEPT ![q] = val[q].token]
    BY <1>6, ReturnEffect DEF TM!Return, refresh, l2
  <2>2. \A x \in Requests : val'[x] \in {val[x], TM!Nothing} /\ cookie'[x] \in {cookie[x], val[q].token}
    BY <1>a, <2>1
  <2> QED  BY <1>b, <2>1, <2>2 DEF TM!Nothing, UnseenInv, Unseen
<1>7. ASSUME NEW q \in Requests, Evict(q) PROVE UnseenInv'
  <2>1. /\ tokens' = [tokens EXCEPT ![user[q]] = TM!Absent]
        /\ UNCHANGED <<val, gei, evicted, got, cookie, step>>
    BY <1>7 DEF Evict, TM!Invalidate, refresh, l2
  <2>2. \A u \in Users : tokens'[u] \in {tokens[u], TM!Absent}
    BY <1>a, <2>1
  <2> QED  BY <1>b, <2>1, <2>2 DEF TM!Absent, UnseenInv, Unseen
<1>8. ASSUME NEW q \in Requests, NEW deleted \in BOOLEAN, Delete(q, deleted), deleted
      PROVE  UnseenInv'
  <2>1. /\ user[q] \in Users /\ UNCHANGED <<tokens, val, got, cookie, step>>
        /\ gei' = [gei EXCEPT ![user[q]] = None]
        /\ evicted' = [evicted EXCEPT ![user[q]] = evicted[user[q]] \cup ({gei[user[q]]} \ {None})]
    BY <1>8, <1>b DEF Delete, DeleteAs, Advance, TM!Call, refresh
  <2>2. /\ gei'[user[q]] = None /\ \A u \in Users \ {user[q]} : gei'[u] = gei[u]
        /\ evicted'[user[q]] \subseteq Cookies
        /\ evicted'[user[q]] \subseteq evicted[user[q]] \cup {gei[user[q]]}
        /\ \A u \in Users \ {user[q]} : evicted'[u] = evicted[u]
    BY <1>a, <2>1
  <2> QED  BY <1>b, <2>1, <2>2 DEF UnseenInv, Unseen
<1>9. ASSUME NEW u \in Users, Expire(u) PROVE UnseenInv'
  <2>1. /\ tokens' = [tokens EXCEPT ![u].live = FALSE]
        /\ UNCHANGED <<val, gei, evicted, got, cookie, step>>
    BY <1>9 DEF Expire, TM!Expire, refresh, l2, request
  <2>2. \A v \in Users : tokens'[v].token = tokens[v].token
    BY <1>a, <2>1 DEF TM!Entry
  <2> QED  BY <2>1, <2>2 DEF UnseenInv, Unseen
<1>10. ASSUME NEW q \in Requests,
              Delete(q, FALSE) \/ Serve(q) \/ HangUp(q) \/ (\E u \in Users : Arrive(q, u))
       PROVE  UNCHANGED <<tokens, val, gei, evicted, got, cookie, step>>
  BY <1>10, ServeEffect DEF Delete, DeleteAs, HangUp, Arrive, TM!Call, l1, refresh, l2, request
<1>11. (\E c \in alive : Kill(c)) \/ UNCHANGED vars
         => UNCHANGED <<tokens, val, gei, evicted, got, cookie, step>>
  BY DEF Kill, vars, l1, refresh, l2, request
<1>12. UNCHANGED <<tokens, val, gei, evicted, got, cookie, step>> => UnseenInv'
  BY DEF UnseenInv, Unseen
<1>13. CASE Crash
  BY <1>13 DEF Crash, l2, UnseenInv
<1> QED
  BY <1>1, <1>2, <1>3, <1>4, <1>5, <1>6, <1>7, <1>8, <1>9, <1>10, <1>11, <1>12, <1>13
     DEF Next, Own, Upstream, Serve, SessionFunc

LEMMA UnseenHolds == Spec => []UnseenInv
<1>1. Init => UnseenInv
  BY DEF Init, UnseenInv
<1> QED  BY <1>1, NextUnseen, SharedHolds, KnownHolds, PTL DEF Spec

\* GEI's cookie of a user is left alone, deleted, or replaced by a leader's.
LEMMA GeiStep ==
    ASSUME SharedInv, [Next]_vars, NEW u \in Users
    PROVE  \/ gei'[u] \in {gei[u], None}
           \/ \E q \in Requests : step[q] = "persist" /\ key[q] = u /\ gei'[u] = got[q]
<1>a. gei \in [Users -> Cookies \cup {None}]
  BY DEF SharedInv, BaseInv, RefreshInv
<1>1. ASSUME NEW q \in Requests, NEW stored \in BOOLEAN, Persist(q, stored)
      PROVE  gei'[u] = gei[u] \/ (step[q] = "persist" /\ key[q] = u /\ gei'[u] = got[q])
  <2>1. step[q] = "persist" /\ (gei' = gei \/ gei' = [gei EXCEPT ![key[q]] = got[q]])
    BY <1>1 DEF Persist, Refreshing
  <2> QED  BY <1>a, <2>1
<1>2. ASSUME NEW q \in Requests, NEW deleted \in BOOLEAN, Delete(q, deleted)
      PROVE  gei'[u] \in {gei[u], None}
  <2>1. gei' = gei \/ gei' = [gei EXCEPT ![user[q]] = None]
    BY <1>2 DEF Delete, DeleteAs, l2
  <2> QED  BY <1>a, <2>1
<1>3. ASSUME NEW q \in Requests, Authenticate(q) \/ Reauthenticate(q) \/ Serve(q)
      PROVE  gei' = gei
  BY <1>3, ReturnEffect, ServeEffect DEF l2
<1>4. ASSUME NEW q \in Requests,
             SessionFound(q) \/ SessionNotFound(q) \/ LoginOk(q) \/ LoginErr(q) \/ InGetToken(q)
               \/ Evict(q) \/ HangUp(q) \/ \E v \in Users : Arrive(q, v)
      PROVE  gei' = gei
  BY <1>4 DEF SessionFound, SessionNotFound, ToLogin, LoginOk, LoginErr, InGetToken, Evict,
     HangUp, Arrive, l2
<1>5. (\E c \in alive : Kill(c)) \/ (\E v \in Users : Expire(v)) \/ Crash \/ UNCHANGED vars
         => gei' = gei
  BY DEF Kill, Expire, Crash, vars, l2
<1> QED  BY <1>1, <1>2, <1>3, <1>4, <1>5 DEF Next, Own, Upstream, Serve, SessionFunc

\* A cookie that was deleted from GEI as stale never comes back to it, whichever
\* calls of GEI fail.
THEOREM EvictedNeverReturns == Spec => EvictedStaysOut
<1>1. ASSUME SharedInv, UnseenInv, [Next]_vars, NEW u \in Users, gei'[u] # gei[u]
      PROVE  gei'[u] \notin evicted[u]
  <2>1. evicted[u] \subseteq Cookies /\ None \notin Cookies
    BY <1>1 DEF SharedInv, TypeInv
  <2> QED  BY <1>1, <2>1, GeiStep DEF UnseenInv, Unseen
<1>2. SharedInv /\ UnseenInv /\ [Next]_vars =>
        [\A u \in Users : gei'[u] # gei[u] => gei'[u] \notin evicted[u]]_vars
  BY <1>1
<1> QED  BY <1>2, SharedHolds, UnseenHolds, PTL DEF Spec, EvictedStaysOut

(***************************************************************************)
(* While GEI, if there is one, answers: it has no faults and no client has *)
(* hung up.  Then a login is made only when GEI has no cookie of the user, *)
(* and its cookie is persisted before it is shown to anyone, so the caches *)
(* and the leaders know one cookie only, the newest one.                   *)
(***************************************************************************)
GeiAnswers == HasIndexer => ~GeiFaults /\ gone = {}

Newest(u) == [user |-> u, n |-> logins[u]]
NewestInv ==
    /\ \A r \in Requests : step[r] # "get" => gei[key[r]] = None
    /\ \A u \in Users : gei[u] \in {None, Newest(u)} /\ (~HasIndexer => gei[u] = None)
    /\ \A u \in Users : tokens[u].live => tokens[u].token = Newest(u)
    /\ \A r \in Requests : step[r] = "persist" => got[r] = Newest(key[r])
    /\ \A r \in Requests : pc[r] \in {"store", "publish"} => val[r].token \in {None, Newest(key[r])}

LEMMA NextNewest == SharedInv /\ NewestInv /\ GeiAnswers /\ [Next]_vars => NewestInv'
<1> SUFFICES ASSUME SharedInv, NewestInv, GeiAnswers, [Next]_vars PROVE NewestInv'
  OBVIOUS
<1>a. /\ tokens \in [Users -> TM!Entry] /\ val \in [Requests -> TM!Result]
      /\ gei \in [Users -> Cookies \cup {None}] /\ got \in [Requests -> Cookies \cup {None}]
      /\ step \in [Requests -> {"get", "login", "persist"}]
      /\ logins \in [Users -> Nat] /\ user \in [Requests -> Users \cup {None}]
      /\ pc \in [Requests -> TM!Steps] /\ key \in [Requests -> Users \cup {None}]
  BY BaseShape DEF SharedInv, Shape, RefreshInv, TypeInv
<1>b. /\ \A r \in Requests : stage[r] # "new" => user[r] \in Users
      /\ \A r \in Requests : pc[r] # "idle" => key[r] \in Users
      /\ \A r \in Requests : step[r] # "get" => pc[r] = "refresh"
      /\ \A q, r \in Requests : key[q] = key[r] /\ Leads(q) /\ Leads(r) => q = r
      /\ \A r \in Requests : pc[r] = "store" => val[r].token # None
      /\ \A r \in Requests : pc[r] = "refresh" => ~tokens[key[r]].live
  BY BaseShape DEF SharedInv, Shape, RefreshInv, LinkInv
<1>c. UNCHANGED logins => \A u : Newest(u)' = Newest(u)
  BY DEF Newest
<1> USE DEF NewestInv
<1>1. ASSUME NEW q \in Requests, SessionFound(q) PROVE NewestInv'
  <2>1. /\ pc[q] = "refresh"
        /\ val' = [val EXCEPT ![q].token = gei[key[q]]]
        /\ pc' = [pc EXCEPT ![q] = "store"]
        /\ UNCHANGED <<tokens, gei, step, got, key, logins>>
    BY <1>1 DEF SessionFound, Refreshing, TM!RefreshOk, refresh, upstream, l2
  <2>2. val'[q].token = gei[key[q]] /\ \A x \in Requests \ {q} : val'[x] = val[x] /\ pc'[x] = pc[x]
    BY <1>a, <2>1 DEF TM!Result
  <2> QED  BY <1>b, <1>c, <2>1, <2>2
<1>2. ASSUME NEW q \in Requests, NEW stored \in BOOLEAN, Persist(q, stored) PROVE NewestInv'
  <2>1. /\ pc[q] = "refresh" /\ step[q] = "persist" /\ key[q] \in Users /\ Leads(q)
        /\ val' = [val EXCEPT ![q].token = got[q]]
        /\ pc' = [pc EXCEPT ![q] = "store"]
        /\ step' = [step EXCEPT ![q] = "get"] /\ got' = [got EXCEPT ![q] = None]
        /\ UNCHANGED <<tokens, key, logins>>
    BY <1>2, <1>b DEF Persist, Refreshing, TM!RefreshOk, upstream, Leads
  <2>2. IF HasIndexer THEN gei' = [gei EXCEPT ![key[q]] = got[q]] ELSE gei' = gei
    BY <1>2 DEF Persist, GeiFails, GeiAnswers
  <2>3. val'[q].token = got[q] /\ \A x \in Requests \ {q} : val'[x] = val[x] /\ pc'[x] = pc[x]
    BY <1>a, <2>1 DEF TM!Result
  <2>4. step'[q] = "get" /\ \A x \in Requests \ {q} : step'[x] = step[x] /\ got'[x] = got[x]
    BY <1>a, <2>1
  <2>5. \A x \in Requests \ {q} : step[x] # "get" => key[x] # key[q] /\ key[x] \in Users
    BY <1>b, <2>1 DEF Leads
  <2>6. /\ gei'[key[q]] = IF HasIndexer THEN Newest(key[q]) ELSE None
        /\ \A u \in Users \ {key[q]} : gei'[u] = gei[u]
    BY <1>a, <2>1, <2>2
  <2> QED  BY <1>c, <2>1, <2>3, <2>4, <2>5, <2>6
<1>3. ASSUME NEW q \in Requests, SessionNotFound(q) PROVE NewestInv'
  <2>1. /\ pc[q] = "refresh" /\ gei[key[q]] = None
        /\ step' = [step EXCEPT ![q] = "login"]
        /\ UNCHANGED <<pc, val, tokens, gei, got, key, logins>>
    BY <1>3, <1>b DEF SessionNotFound, ToLogin, Refreshing, GeiFails, GeiAnswers, l1, l2, upstream
  <2>2. step'[q] = "login" /\ \A x \in Requests \ {q} : step'[x] = step[x]
    BY <1>a, <2>1
  <2> QED  BY <1>c, <2>1, <2>2
<1>4. ASSUME NEW q \in Requests, LoginOk(q) PROVE NewestInv'
  <2>1. /\ pc[q] = "refresh" /\ step[q] = "login" /\ key[q] \in Users /\ Leads(q)
        /\ logins' = [logins EXCEPT ![key[q]] = @ + 1]
        /\ got' = [got EXCEPT ![q] = [user |-> key[q], n |-> logins[key[q]] + 1]]
        /\ step' = [step EXCEPT ![q] = "persist"]
        /\ UNCHANGED <<pc, val, tokens, gei, key>>
    BY <1>4, <1>b DEF LoginOk, Refreshing, l1, l2, Leads
  <2>2. Newest(key[q])' = got'[q] /\ \A u \in Users \ {key[q]} : Newest(u)' = Newest(u)
    BY <1>a, <2>1 DEF Newest
  <2>3. gei[key[q]] = None /\ ~tokens[key[q]].live
    BY <1>b, <2>1
  <2>4. \A x \in Requests \ {q} :
          /\ step'[x] = step[x] /\ got'[x] = got[x]
          /\ Leads(x) => key[x] # key[q] /\ key[x] \in Users
    BY <1>a, <1>b, <2>1 DEF Leads
  <2>5. \A x \in Requests : step[x] = "persist" \/ pc[x] \in {"store", "publish"} => Leads(x)
    BY <1>b DEF Leads
  <2> QED  BY <2>1, <2>2, <2>3, <2>4, <2>5
<1>5. ASSUME NEW q \in Requests, LoginErr(q) PROVE NewestInv'
  <2>1. /\ val' = [val EXCEPT ![q] = TM!Nothing]
        /\ pc' = [pc EXCEPT ![q] = "publish"]
        /\ step' = [step EXCEPT ![q] = "get"]
        /\ UNCHANGED <<tokens, gei, got, key, logins>>
    BY <1>5 DEF LoginErr, TM!RefreshErr, upstream, l2
  <2> QED  BY <1>a, <1>c, <2>1 DEF TM!Nothing
<1>6. ASSUME NEW q \in Requests, InGetToken(q) PROVE NewestInv'
  <2>1. UNCHANGED <<gei, got, step, logins>>
    BY <1>6 DEF InGetToken, refresh, upstream, l2
  <2>2. CASE TM!Publish(q)
    <3>1. /\ UNCHANGED <<tokens, key>>
          /\ \A x \in Requests : pc'[x] = "return" \/ (val'[x] = val[x] /\ pc'[x] = pc[x])
      BY <2>2 DEF TM!Publish, TM!Deliver, TM!Waiters
    <3> QED  BY <1>c, <2>1, <3>1
  <2>3. CASE TM!LookupHit(q) \/ TM!RecheckHit(q)
    <3>1. /\ key[q] \in Users /\ UNCHANGED <<tokens, key>> /\ tokens[key[q]].live
          /\ val' = [val EXCEPT ![q] = TM!HeldIn(key[q])]
          /\ \E to : pc' = [pc EXCEPT ![q] = to]
      BY <1>b, <2>3 DEF TM!LookupHit, TM!RecheckHit
    <3>2. /\ val'[q].token = tokens[key[q]].token
          /\ \A x \in Requests \ {q} : val'[x] = val[x] /\ pc'[x] = pc[x]
      BY <1>a, <3>1 DEF TM!HeldIn
    <3> QED  BY <1>c, <2>1, <3>1, <3>2
  <2>4. ASSUME NEW live \in BOOLEAN, TM!Store(q, live) PROVE NewestInv'
    <3>1. /\ pc[q] = "store" /\ key[q] \in Users /\ UNCHANGED <<val, key>>
          /\ tokens' = [tokens EXCEPT ![key[q]] =
                          [token |-> val[q].token, run |-> val[q].run, live |-> live]]
          /\ pc' = [pc EXCEPT ![q] = "publish"]
      BY <1>b, <2>4 DEF TM!Store
    <3>2. tokens'[key[q]].token = Newest(key[q]) /\ \A u \in Users \ {key[q]} : tokens'[u] = tokens[u]
      BY <1>a, <1>b, <3>1
    <3>3. \A x \in Requests : pc'[x] \in {"store", "publish"} => pc[x] \in {"store", "publish"}
      BY <1>a, <3>1
    <3> QED  BY <1>c, <2>1, <3>1, <3>2, <3>3
  <2>5. CASE TM!LookupMiss(q) \/ TM!Lead(q) \/ TM!Join(q)
    <3>1. /\ UNCHANGED <<tokens, val, key>>
          /\ \E to \in {"do", "recheck", "wait"} : pc' = [pc EXCEPT ![q] = to]
      BY <2>5 DEF TM!LookupMiss, TM!Lead, TM!Join
    <3>2. \A x \in Requests : pc'[x] \in {"store", "publish"} => pc'[x] = pc[x]
      BY <1>a, <3>1
    <3> QED  BY <1>c, <2>1, <3>1, <3>2
  <2>6. CASE TM!RecheckMiss(q)
    <3>1. /\ UNCHANGED <<tokens, key>>
          /\ pc' = [pc EXCEPT ![q] = "refresh"]
          /\ val' = [val EXCEPT ![q] = [token |-> None, run |-> started[key[q]] + 1]]
      BY <2>6 DEF TM!RecheckMiss, TM!BeginRefresh
    <3>2. pc'[q] = "refresh" /\ \A x \in Requests \ {q} : val'[x] = val[x] /\ pc'[x] = pc[x]
      BY <1>a, <3>1
    <3> QED  BY <1>c, <2>1, <3>1, <3>2
  <2> QED  BY <1>6, <2>2, <2>3, <2>4, <2>5, <2>6 DEF InGetToken
<1>7. ASSUME NEW q \in Requests, TM!Return(q) \/ \E u \in Users : TM!Call(q, u),
             UNCHANGED <<step, got, logins>>, \A u \in Users : gei'[u] \in {gei[u], None}
      PROVE  NewestInv'
  <2>1. /\ UNCHANGED tokens
        /\ \E to \in {"idle", "lookup"} : pc' = [pc EXCEPT ![q] = to]
        /\ \E u : key' = [key EXCEPT ![q] = u]
        /\ \E v : val' = [val EXCEPT ![q] = v]
        /\ step[q] = "get"
    <3>1. CASE TM!Return(q)
      BY <1>b, <3>1 DEF TM!Return
    <3>2. CASE \E u \in Users : TM!Call(q, u)
      <4>1. val' = [val EXCEPT ![q] = val[q]]
        BY <1>a, <3>2 DEF TM!Call
      <4> QED  BY <1>b, <3>2, <4>1 DEF TM!Call
    <3> QED  BY <1>7, <3>1, <3>2
  <2>2. /\ pc'[q] \in {"idle", "lookup"}
        /\ \A x \in Requests \ {q} : pc'[x] = pc[x] /\ key'[x] = key[x] /\ val'[x] = val[x]
    BY <1>a, <2>1
  <2>3. \A x \in Requests : step[x] # "get" => key[x] \in Users
    BY <1>b
  <2> QED  BY <1>7, <1>c, <2>1, <2>2, <2>3
<1>8. ASSUME NEW q \in Requests, Authenticate(q) \/ Reauthenticate(q) PROVE NewestInv'
  <2>1. TM!Return(q) /\ UNCHANGED <<step, got, logins, gei>>
    BY <1>8, ReturnEffect DEF refresh, upstream, l2
  <2> QED  BY <1>7, <2>1
<1>9. ASSUME NEW q \in Requests, NEW u \in Users, Arrive(q, u) PROVE NewestInv'
  <2>1. TM!Call(q, u) /\ UNCHANGED <<step, got, logins, gei>>
    BY <1>9 DEF Arrive, refresh, upstream, l2
  <2> QED  BY <1>7, <2>1
<1>10. ASSUME NEW q \in Requests, NEW deleted \in BOOLEAN, Delete(q, deleted) PROVE NewestInv'
  <2>1. /\ user[q] \in Users /\ TM!Call(q, user[q]) /\ UNCHANGED <<step, got, logins>>
        /\ gei' = gei \/ gei' = [gei EXCEPT ![user[q]] = None]
    BY <1>10, <1>b DEF Delete, DeleteAs, Advance, refresh, upstream, l2
  <2>2. \A u \in Users : gei'[u] \in {gei[u], None}
    BY <1>a, <2>1
  <2> QED  BY <1>7, <2>1, <2>2
<1>11. ASSUME NEW q \in Requests, Evict(q) PROVE NewestInv'
  <2>1. /\ tokens' = [tokens EXCEPT ![user[q]] = TM!Absent]
        /\ UNCHANGED <<pc, val, key, gei, step, got, logins>>
    BY <1>11 DEF Evict, TM!Invalidate, refresh, upstream, l2
  <2>2. \A u \in Users : tokens'[u] \in {tokens[u], TM!Absent}
    BY <1>a, <2>1
  <2> QED  BY <1>c, <2>1, <2>2 DEF TM!Absent
<1>12. ASSUME NEW u \in Users, Expire(u) PROVE NewestInv'
  <2>1. /\ tokens' = [tokens EXCEPT ![u].live = FALSE]
        /\ UNCHANGED <<pc, val, key, gei, step, got, logins>>
    BY <1>12 DEF Expire, TM!Expire, refresh, upstream, l2
  <2>2. \A v \in Users : tokens'[v].token = tokens[v].token /\ (tokens'[v].live => tokens[v].live)
    BY <1>a, <2>1 DEF TM!Entry
  <2> QED  BY <1>c, <2>1, <2>2
<1>13. ASSUME NEW q \in Requests, Serve(q) \/ HangUp(q)
       PROVE  UNCHANGED <<tokens, pc, val, key, gei, step, got, logins>>
  BY <1>13, ServeEffect DEF HangUp, l1, refresh, upstream, l2
<1>14. (\E c \in alive : Kill(c)) \/ UNCHANGED vars
          => UNCHANGED <<tokens, pc, val, key, gei, step, got, logins>>
  BY DEF Kill, vars, l1, refresh, upstream, l2
<1>15. UNCHANGED <<tokens, pc, val, key, gei, step, got, logins>> => NewestInv'
  BY <1>c
<1>16. CASE Crash
  BY <1>c, <1>16 DEF Crash, TM!Restart, TM!Absent, upstream, l2
<1> QED
  BY <1>1, <1>2, <1>3, <1>4, <1>5, <1>6, <1>8, <1>9, <1>10, <1>11, <1>12, <1>13, <1>14, <1>15, <1>16
     DEF Next, Own, Upstream, Serve, SessionFunc

LEMMA NewestHolds == Spec /\ []GeiAnswers => []NewestInv
<1>1. Init => NewestInv
  BY DEF Init, TM!Init, TM!Absent, NewestInv
<1> QED  BY <1>1, NextNewest, SharedHolds, PTL DEF Spec

\* While GEI answers and nobody hangs up, L1 never serves another cookie than the
\* one that GEI keeps.
THEOREM CachesNeverDisagree == Spec /\ []GeiAnswers => []CachesAgree
<1>1. NewestInv => CachesAgree
  BY DEF NewestInv, CachesAgree
<1> QED  BY <1>1, NewestHolds, PTL

(***************************************************************************)
(* Logins are owed.  A login is spent for good by an eviction or a crash;  *)
(* until then its cookie is in GEI or in the hands of the one leader that  *)
(* is about to persist it.                                                 *)
(***************************************************************************)
Holds(u) == gei[u] # None \/ \E r \in Requests : step[r] = "persist" /\ key[r] = u
OwedInv ==
    \A u \in Users :
      /\ IsFiniteSet(evicted[u])
      /\ logins[u] <= Cardinality(evicted[u]) + lost[u] + 1
      /\ ~Holds(u) => logins[u] <= Cardinality(evicted[u]) + lost[u]

LEMMA NextOwed ==
    SharedInv /\ NewestInv /\ UnseenInv /\ OwedInv /\ HasIndexer /\ GeiAnswers /\ [Next]_vars => OwedInv'
<1> SUFFICES ASSUME SharedInv, NewestInv, UnseenInv, OwedInv, HasIndexer, GeiAnswers, [Next]_vars
             PROVE  OwedInv'
  OBVIOUS
<1>a. /\ gei \in [Users -> Cookies \cup {None}] /\ got \in [Requests -> Cookies \cup {None}]
      /\ evicted \in [Users -> SUBSET Cookies] /\ lost \in [Users -> Nat]
      /\ step \in [Requests -> {"get", "login", "persist"}]
      /\ key \in [Requests -> Users \cup {None}]
      /\ logins \in [Users -> Nat] /\ user \in [Requests -> Users \cup {None}]
  BY DEF SharedInv, BaseInv, RefreshInv, TypeInv
<1>b. /\ \A r \in Requests : stage[r] # "new" => user[r] \in Users
      /\ \A r \in Requests : pc[r] # "idle" => key[r] \in Users
      /\ \A r \in Requests : step[r] # "get" => pc[r] = "refresh"
      /\ \A r \in Requests : step[r] = "persist" => got[r] # None
      /\ \A q, r \in Requests : key[q] = key[r] /\ pc[q] = "refresh" /\ pc[r] = "refresh" => q = r
  BY BaseShape DEF SharedInv, Shape, RefreshInv, LinkInv, Leads
<1>c. \A u \in Users : Cardinality(evicted[u]) \in Nat
  BY FS_CardinalityType DEF OwedInv
<1>1. ASSUME UNCHANGED <<logins, evicted, lost>>, \A u \in Users : Holds(u) => Holds(u)'
      PROVE  OwedInv'
  BY <1>1 DEF OwedInv
<1>2. ASSUME UNCHANGED gei,
             \A r \in Requests : step[r] = "persist" => step'[r] = "persist" /\ key'[r] = key[r]
      PROVE  \A u \in Users : Holds(u) => Holds(u)'
  BY <1>2 DEF Holds
<1>3. ASSUME NEW q \in Requests, LoginOk(q) PROVE OwedInv'
  <2>1. /\ pc[q] = "refresh" /\ step[q] = "login" /\ key[q] \in Users
        /\ logins' = [logins EXCEPT ![key[q]] = @ + 1]
        /\ step' = [step EXCEPT ![q] = "persist"]
        /\ UNCHANGED <<key, gei, evicted, lost>>
    BY <1>3, <1>b DEF LoginOk, Refreshing, l1, l2, process
  <2>2. ~Holds(key[q])
    BY <1>b, <2>1 DEF Holds, NewestInv
  <2>3. Holds(key[q])' /\ \A u \in Users : Holds(u) => Holds(u)'
    BY <1>a, <2>1 DEF Holds
  <2>4. logins'[key[q]] = logins[key[q]] + 1 /\ \A u \in Users \ {key[q]} : logins'[u] = logins[u]
    BY <1>a, <2>1
  <2> QED  BY <1>a, <1>c, <2>1, <2>2, <2>3, <2>4 DEF OwedInv
<1>4. ASSUME NEW q \in Requests, NEW stored \in BOOLEAN, Persist(q, stored) PROVE OwedInv'
  <2>1. /\ pc[q] = "refresh" /\ step[q] = "persist" /\ key[q] \in Users
        /\ step' = [step EXCEPT ![q] = "get"]
        /\ UNCHANGED <<key, logins, evicted, lost>>
        /\ gei' = [gei EXCEPT ![key[q]] = got[q]]
    BY <1>4, <1>b DEF Persist, Refreshing, TM!RefreshOk, upstream, process, GeiAnswers, GeiFails
  <2>2. \A u \in Users : Holds(u) => Holds(u)'
    BY <1>a, <1>b, <2>1 DEF Holds
  <2> QED  BY <1>1, <2>1, <2>2
<1>5. ASSUME NEW q \in Requests, NEW deleted \in BOOLEAN, Delete(q, deleted) PROVE OwedInv'
  <2>1. /\ user[q] \in Users /\ pc[q] = "idle" /\ UNCHANGED <<step, logins, lost, user>>
        /\ \E u : key' = [key EXCEPT ![q] = u]
        /\ gei' = [gei EXCEPT ![user[q]] = None]
        /\ evicted' = [evicted EXCEPT ![user[q]] = evicted[user[q]] \cup ({gei[user[q]]} \ {None})]
    BY <1>5, <1>b DEF Delete, DeleteAs, Advance, TM!Call, refresh, upstream, process, GeiAnswers, GeiFails
  <2>2. \A r \in Requests : step[r] = "persist" => step'[r] = "persist" /\ key'[r] = key[r]
    BY <1>a, <1>b, <2>1
  <2>3. \A u \in Users \ {user[q]} : gei'[u] = gei[u] /\ evicted'[u] = evicted[u]
    BY <1>a, <2>1
  <2>4. \A u \in Users \ {user[q]} : Holds(u) => Holds(u)'
    BY <2>2, <2>3 DEF Holds
  <2>5. CASE gei[user[q]] = None
    <3>1. evicted'[user[q]] = evicted[user[q]]
      BY <1>a, <2>1, <2>5
    <3>2. gei' = gei
      BY <1>a, <2>1, <2>5
    <3>3. \A u \in Users : evicted'[u] = evicted[u] /\ (Holds(u) => Holds(u)')
      BY <1>2, <2>2, <2>3, <3>1, <3>2
    <3> QED  BY <2>1, <3>3 DEF OwedInv
  <2>6. CASE gei[user[q]] # None
    <3>1. evicted'[user[q]] = evicted[user[q]] \cup {gei[user[q]]}
      BY <1>a, <2>1, <2>6
    <3>2. gei[user[q]] \notin evicted[user[q]]
      BY <2>1 DEF UnseenInv
    <3>3. /\ IsFiniteSet(evicted'[user[q]])
          /\ Cardinality(evicted'[user[q]]) = Cardinality(evicted[user[q]]) + 1
      <4>1. IsFiniteSet(evicted[user[q]])
        BY <2>1 DEF OwedInv
      <4>2. /\ IsFiniteSet(evicted[user[q]] \cup {gei[user[q]]})
            /\ Cardinality(evicted[user[q]] \cup {gei[user[q]]}) = Cardinality(evicted[user[q]]) + 1
        BY <3>2, <4>1, FS_AddElement
      <4> QED  BY <3>1, <4>2, Zenon
    <3> QED  BY <1>a, <1>c, <2>1, <2>3, <2>4, <3>3 DEF OwedInv
  <2> QED  BY <2>5, <2>6
<1>6. CASE Crash
  <2> DEFINE more(u) == IF \E r \in Requests : got[r] # None /\ key[r] = u THEN 1 ELSE 0
  <2>1. UNCHANGED <<gei, logins, evicted>> /\ lost' = [u \in Users |-> lost[u] + more(u)]
    BY <1>6 DEF Crash, upstream, l2
  <2>2. \A u \in Users : more(u) \in {0, 1}
    OBVIOUS
  <2>3. \A u \in Users : Holds(u) /\ ~Holds(u)' => more(u) = 1
    BY <1>b, <2>1 DEF Holds
  <2> HIDE DEF more
  <2>4. \A u \in Users : lost'[u] = lost[u] + more(u)
    BY <2>1
  <2> QED  BY <1>a, <1>c, <2>1, <2>2, <2>3, <2>4 DEF OwedInv
<1>7. ASSUME NEW q \in Requests,
             SessionFound(q) \/ SessionNotFound(q) \/ LoginErr(q) \/ InGetToken(q)
               \/ Evict(q) \/ HangUp(q)
      PROVE  OwedInv'
  <2>1. UNCHANGED <<key, gei, logins, evicted, lost>>
    BY <1>7 DEF SessionFound, SessionNotFound, ToLogin, LoginErr, InGetToken, Evict, HangUp,
       TM!RefreshOk, TM!RefreshErr, TM!LookupHit, TM!LookupMiss, TM!Lead, TM!Join, TM!RecheckHit,
       TM!RecheckMiss, TM!BeginRefresh, TM!Store, TM!Publish, TM!Deliver, TM!Invalidate,
       l1, upstream, l2, process
  <2>2. step' = step \/ (step[q] # "persist" /\ \E to : step' = [step EXCEPT ![q] = to])
    BY <1>7 DEF SessionFound, SessionNotFound, ToLogin, LoginErr, InGetToken, Evict, HangUp,
       Refreshing, refresh
  <2>3. \A r \in Requests : step[r] = "persist" => step'[r] = "persist"
    BY <1>a, <2>2
  <2> QED  BY <1>1, <1>2, <2>1, <2>3
<1>8. ASSUME NEW q \in Requests,
             Authenticate(q) \/ Reauthenticate(q) \/ Serve(q) \/ \E u \in Users : Arrive(q, u)
      PROVE  OwedInv'
  <2>1. /\ UNCHANGED <<gei, logins, evicted, lost, step>>
        /\ \/ key' = key
           \/ pc[q] \in {"idle", "return"} /\ \E u : key' = [key EXCEPT ![q] = u]
    BY <1>8, ReturnEffect, ServeEffect DEF Arrive, TM!Call, TM!Return, l1, refresh, upstream, l2,
       process
  <2>2. \A r \in Requests : step[r] = "persist" => step'[r] = "persist" /\ key'[r] = key[r]
    BY <1>a, <1>b, <2>1
  <2> QED  BY <1>1, <1>2, <2>1, <2>2
<1>9. ASSUME UNCHANGED <<key, step, gei, logins, evicted, lost>> PROVE OwedInv'
  BY <1>1, <1>2, <1>9
<1>10. (\E c \in alive : Kill(c)) \/ (\E u \in Users : Expire(u)) \/ UNCHANGED vars
          => UNCHANGED <<key, step, gei, logins, evicted, lost>>
  BY DEF Kill, Expire, TM!Expire, vars, l1, refresh, upstream, l2, process
<1> QED
  BY <1>3, <1>4, <1>5, <1>6, <1>7, <1>8, <1>9, <1>10 DEF Next, Own, Upstream, Serve, SessionFunc

(***************************************************************************)
(* What an eviction took out of GEI was the user's newest cookie: that of  *)
(* a session that is over, or newer than what the request found stale.     *)
(***************************************************************************)
OverInv ==
    /\ \A r \in Requests : stage[r] \in {"evict", "delete"} => cookie[r] \notin alive
    /\ \A u \in Users : late[u] \subseteq evicted[u] /\ evicted[u] \subseteq Ended(u) \cup late[u]

LEMMA NextOver ==
    SharedInv /\ KnownInv /\ NewestInv /\ OverInv /\ [Next]_vars => OverInv'
<1> SUFFICES ASSUME SharedInv, KnownInv, NewestInv, OverInv, [Next]_vars PROVE OverInv'
  OBVIOUS
<1>a. /\ gei \in [Users -> Cookies \cup {None}] /\ evicted \in [Users -> SUBSET Cookies]
      /\ late \in [Users -> SUBSET Cookies] /\ stage \in [Requests -> Stages]
      /\ cookie \in [Requests -> Cookies \cup {None}] /\ logins \in [Users -> Nat]
      /\ \A r \in Requests : stage[r] # "new" => user[r] \in Users
      /\ \A r \in Requests : pc[r] # "idle" => key[r] \in Users
      /\ \A r \in Requests : stage[r] \in {"evict", "delete"} =>
           cookie[r] \in Cookies /\ cookie[r].user = user[r]
  BY BaseShape DEF SharedInv, Shape, BaseInv, RefreshInv, TypeInv, LinkInv, OwnedBy
<1>1. ASSUME alive' \subseteq alive, UNCHANGED <<logins, evicted, late>>,
             \A r \in Requests : stage'[r] \in {"evict", "delete"} => cookie'[r] \notin alive
      PROVE  OverInv'
  <2>1. \A u \in Users : Ended(u) \subseteq Ended(u)'
    BY <1>1 DEF Ended
  <2> QED  BY <1>1, <2>1 DEF OverInv
<1>2. ASSUME NEW q \in Requests, LoginOk(q) PROVE OverInv'
  <2> DEFINE fresh == [user |-> key[q], n |-> logins[key[q]] + 1]
  <2>1. /\ key[q] \in Users /\ fresh \in Cookies
        /\ alive' = alive \cup {fresh}
        /\ logins' = [logins EXCEPT ![key[q]] = @ + 1]
        /\ UNCHANGED <<stage, cookie, evicted, late>>
    BY <1>2, <1>a DEF LoginOk, Refreshing, l2, request
  <2>2. fresh \notin Issued /\ fresh.user = key[q] /\ fresh.n = logins[key[q]] + 1
    BY <1>a, <2>1 DEF Issued
  <2>3. \A r \in Requests : cookie[r] # fresh
    BY <2>2 DEF KnownInv
  <2>4. \A u \in Users : \A c \in Ended(u) : c \in Issued
    BY <1>a DEF Ended, Issued
  <2>5. \A u \in Users : logins[u] \in Nat /\ logins[u] <= logins'[u] /\ logins'[u] \in Nat
    BY <1>a, <2>1
  <2>6. \A u \in Users : Ended(u) \subseteq Ended(u)'
    <3> SUFFICES ASSUME NEW u \in Users, NEW c \in Ended(u) PROVE c \in Ended(u)'
      OBVIOUS
    <3>1. c # fresh
      BY <2>2, <2>4
    <3>2. c \in Cookies /\ c.user = u /\ c.n <= logins[u] /\ c \notin alive /\ c.n \in Nat
      BY DEF Ended, Cookies
    <3>3. c \notin alive' /\ c.n <= logins'[u]
      BY <2>1, <2>5, <3>1, <3>2
    <3> QED  BY <3>2, <3>3 DEF Ended
  <2>7. \A r \in Requests : stage'[r] \in {"evict", "delete"} => cookie'[r] \notin alive'
    BY <2>1, <2>3 DEF OverInv
  <2> QED  BY <2>1, <2>6, <2>7 DEF OverInv
<1>3. ASSUME NEW q \in Requests, NEW deleted \in BOOLEAN, Delete(q, deleted) PROVE OverInv'
  <2> DEFINE u == user[q]
             out == {gei[u]} \ {None}
             newer == {c \in out : c.n > cookie[q].n}
  <2>1. /\ stage[q] = "delete" /\ stage' = [stage EXCEPT ![q] = "reauth"]
        /\ UNCHANGED <<alive, logins, cookie>>
        /\ \/ UNCHANGED <<evicted, late>>
           \/ /\ evicted' = [evicted EXCEPT ![u] = evicted[u] \cup out]
              /\ late' = [late EXCEPT ![u] = late[u] \cup newer]
    BY <1>3 DEF Delete, DeleteAs, Advance, upstream, l2
  <2>2. u \in Users /\ cookie[q] \in Cookies /\ cookie[q].user = u /\ cookie[q] \notin alive
    BY <1>a, <2>1 DEF OverInv
  <2>3. \A r \in Requests : stage'[r] \in {"evict", "delete"} => cookie'[r] \notin alive
    BY <1>a, <2>1 DEF OverInv
  <2>4. CASE UNCHANGED <<evicted, late>>
    BY <1>1, <2>1, <2>3, <2>4
  <2>5. CASE /\ evicted' = [evicted EXCEPT ![u] = evicted[u] \cup out]
             /\ late' = [late EXCEPT ![u] = late[u] \cup newer]
    <3>1. \A w \in Users : Ended(w)' = Ended(w)
      BY <2>1 DEF Ended
    <3>2. out \subseteq Ended(u) \cup newer
      <4> SUFFICES ASSUME gei[u] # None, ~(gei[u].n > cookie[q].n) PROVE gei[u] \in Ended(u)
        OBVIOUS
      <4>1. gei[u] = Newest(u) /\ gei[u] \in Cookies
        BY <1>a, <2>2 DEF NewestInv
      <4>2. cookie[q] \in Issued /\ cookie[q] # None
        BY <2>2 DEF KnownInv
      <4>3. cookie[q].n \in Nat /\ cookie[q].n <= logins[u]
        BY <2>2, <4>2 DEF Issued, Cookies
      <4>4. gei[u].user = u /\ gei[u].n = logins[u] /\ logins[u] \in Nat
        BY <1>a, <2>2, <4>1 DEF Newest
      <4>5. cookie[q].n = gei[u].n
        BY <4>3, <4>4
      <4>6. cookie[q] = gei[u]
        BY <2>2, <4>1, <4>4, <4>5 DEF Cookies
      <4> QED  BY <2>2, <4>1, <4>4, <4>6 DEF Ended
    <3>3. newer \subseteq out
      OBVIOUS
    <3> HIDE DEF out, newer, u
    <3>4. \A w \in Users \ {u} : evicted'[w] = evicted[w] /\ late'[w] = late[w]
      BY <1>a, <2>5
    <3>5. evicted'[u] = evicted[u] \cup out /\ late'[u] = late[u] \cup newer
      BY <1>a, <2>2, <2>5
    <3>6. late'[u] \subseteq evicted'[u] /\ evicted'[u] \subseteq Ended(u) \cup late'[u]
      BY <2>2, <3>2, <3>3, <3>5 DEF OverInv
    <3>7. \A w \in Users : late'[w] \subseteq evicted'[w] /\ evicted'[w] \subseteq Ended(w) \cup late'[w]
      BY <3>4, <3>6 DEF OverInv
    <3> QED  BY <2>1, <2>3, <3>1, <3>7 DEF OverInv
  <2> QED  BY <2>1, <2>4, <2>5
<1>4. ASSUME NEW q \in Requests, Authenticate(q) \/ Reauthenticate(q) PROVE OverInv'
  <2>1. /\ UNCHANGED <<alive, logins, evicted, late>>
        /\ \E to \in Stages \ {"evict", "delete"} : stage' = [stage EXCEPT ![q] = to]
        /\ cookie' = cookie \/ cookie' = [cookie EXCEPT ![q] = val[q].token]
    BY <1>4, ReturnEffect DEF upstream, l2, Respond, Advance, Stages
  <2>2. \A r \in Requests : stage'[r] \in {"evict", "delete"} => cookie'[r] \notin alive
    BY <1>a, <2>1 DEF OverInv
  <2> QED  BY <1>1, <2>1, <2>2
<1>5. ASSUME NEW q \in Requests, Serve(q) PROVE OverInv'
  <2>1. UNCHANGED <<logins, evicted, late, cookie>> /\ alive' \subseteq alive
    BY <1>5, ServeEffect DEF l2
  <2>2. CASE Advance(q, "scrape", "evict") /\ cookie[q] \notin alive
    <3>1. \A r \in Requests : stage'[r] \in {"evict", "delete"} => cookie'[r] \notin alive
      BY <1>a, <2>1, <2>2 DEF OverInv, Advance
    <3> QED  BY <1>1, <2>1, <3>1
  <2>3. CASE \E to \in Stages \ {"evict", "delete"} : stage' = [stage EXCEPT ![q] = to]
    <3>1. \A r \in Requests : stage'[r] \in {"evict", "delete"} => cookie'[r] \notin alive
      BY <1>a, <2>1, <2>3 DEF OverInv
    <3> QED  BY <1>1, <2>1, <3>1
  <2>4. \/ Advance(q, "scrape", "evict") /\ cookie[q] \notin alive
        \/ \E to \in Stages \ {"evict", "delete"} : stage' = [stage EXCEPT ![q] = to]
    BY <1>5 DEF Serve, Handle, Scrape, FetchData, Download, Logout, Fetching, Respond, Advance, Stages
  <2> QED  BY <2>2, <2>3, <2>4
<1>6. ASSUME NEW q \in Requests, Evict(q) \/ \E u \in Users : Arrive(q, u) PROVE OverInv'
  <2>1. /\ UNCHANGED <<alive, logins, evicted, late, cookie>>
        /\ \/ Advance(q, "evict", "delete")
           \/ Advance(q, "new", "auth")
    BY <1>6 DEF Evict, Arrive, upstream, l2
  <2>2. \A r \in Requests : stage'[r] \in {"evict", "delete"} => cookie'[r] \notin alive
    BY <1>a, <2>1 DEF OverInv, Advance
  <2> QED  BY <1>1, <2>1, <2>2
<1>7. ASSUME alive' \subseteq alive, UNCHANGED <<logins, evicted, late, stage, cookie>> PROVE OverInv'
  BY <1>1, <1>7 DEF OverInv
<1>8. ASSUME NEW q \in Requests,
             SessionFound(q) \/ SessionNotFound(q) \/ LoginErr(q) \/ InGetToken(q) \/ HangUp(q)
               \/ \E stored \in BOOLEAN : Persist(q, stored)
      PROVE  alive' \subseteq alive /\ UNCHANGED <<logins, evicted, late, stage, cookie>>
  BY <1>8 DEF SessionFound, SessionNotFound, ToLogin, LoginErr, InGetToken, HangUp, Persist,
     upstream, l2, request
<1>9. (\E c \in alive : Kill(c)) \/ (\E u \in Users : Expire(u)) \/ UNCHANGED vars
        => alive' \subseteq alive /\ UNCHANGED <<logins, evicted, late, stage, cookie>>
  BY DEF Kill, Expire, vars, upstream, l2, request
<1>10. CASE Crash
  <2>1. /\ UNCHANGED <<alive, logins, evicted, late>>
        /\ \A r \in Requests : stage'[r] \in {"new", "done"}
    BY <1>10 DEF Crash, upstream, l2
  <2> QED  BY <1>1, <2>1
<1> QED
  BY <1>2, <1>3, <1>4, <1>5, <1>6, <1>7, <1>8, <1>9, <1>10 DEF Next, Own, Upstream, Serve, SessionFunc

\* Every login but the first is owed to a session that is over, to a recovery that
\* came late and deleted a newer cookie than the one it had found stale, or to a
\* crash between a login and the storing of its cookie: no TTL, restart or request
\* that joins makes a user log in again while GEI has a cookie.
THEOREM LoginsAreNeverWasted ==
    ASSUME HasIndexer
    PROVE  Spec /\ []GeiAnswers => []LoginsAreOwed
<1>1. Init => OwedInv
  <2> SUFFICES ASSUME Init, NEW u \in Users
               PROVE  IsFiniteSet(evicted[u]) /\ logins[u] <= Cardinality(evicted[u]) + lost[u]
    BY FS_EmptySet DEF OwedInv, Init
  <2>1. evicted[u] = {} /\ logins[u] = 0 /\ lost[u] = 0
    BY DEF Init
  <2>2. IsFiniteSet(evicted[u]) /\ Cardinality(evicted[u]) = 0
    BY <2>1, FS_EmptySet, Zenon
  <2> QED  BY <2>1, <2>2
<1>2. Init => OverInv
  BY DEF Init, OverInv
<1>3. SharedInv /\ OwedInv /\ OverInv => LoginsAreOwed
  <2> SUFFICES ASSUME SharedInv, OwedInv, OverInv, NEW u \in Users
               PROVE  logins[u] <= 1 + Cardinality(Ended(u) \cup late[u]) + lost[u]
    BY DEF LoginsAreOwed
  <2>1. IsFiniteSet(Ended(u))
    <3> DEFINE number == [c \in Ended(u) |-> c.n]
    <3>1. IsFiniteSet(1..MaxCalls)
      BY FS_CardinalityType, FS_Interval DEF MaxCalls
    <3>2. number \in Injection(Ended(u), 1..MaxCalls)
      BY DEF Ended, Cookies, Injection, IsInjective
    <3> QED  BY <3>1, <3>2, FS_Injection
  <2>2. IsFiniteSet(evicted[u]) /\ late[u] \subseteq evicted[u]
    BY DEF OwedInv, OverInv
  <2>3. IsFiniteSet(Ended(u) \cup late[u])
    BY <2>1, <2>2, FS_Subset, FS_Union
  <2>4. evicted[u] \subseteq Ended(u) \cup late[u]
    BY DEF OverInv
  <2>5. Cardinality(evicted[u]) <= Cardinality(Ended(u) \cup late[u])
    BY <2>3, <2>4, FS_Subset
  <2>6. Cardinality(evicted[u]) \in Nat /\ Cardinality(Ended(u) \cup late[u]) \in Nat
    BY <2>2, <2>3, FS_CardinalityType
  <2>7. lost[u] \in Nat /\ logins[u] \in Nat
    BY DEF SharedInv, TypeInv
  <2>8. logins[u] <= Cardinality(evicted[u]) + lost[u] + 1
    BY DEF OwedInv
  <2> QED  BY <2>5, <2>6, <2>7, <2>8
<1>4. SharedInv /\ NewestInv /\ UnseenInv /\ OwedInv /\ GeiAnswers /\ [Next]_vars => OwedInv'
  BY NextOwed
<1> QED
  BY <1>1, <1>2, <1>3, <1>4, NextOver, SharedHolds, KnownHolds, NewestHolds, UnseenHolds,
     PTL DEF Spec

(***************************************************************************)
(* A request that waits for a new cookie.  GEI does not get the stale one  *)
(* back, because only unseen cookies are persisted, and what the request   *)
(* is given is the newest cookie of that moment, so none older than its    *)
(* own.                                                                    *)
(***************************************************************************)
WaitInv ==
    \A r \in Requests : stage[r] = "reauth" =>
      /\ gei[user[r]] # cookie[r]
      /\ val[r].token # None => val[r].token.n >= cookie[r].n

\* A call keeps its result, loses it, or is given the newest cookie of its user.
LEMMA ValStep ==
    ASSUME SharedInv, NewestInv, [Next]_vars, NEW r \in Requests, pc[r] # "idle"
    PROVE  val'[r].token \in {val[r].token, None, Newest(key[r])}
<1>a. /\ tokens \in [Users -> TM!Entry] /\ val \in [Requests -> TM!Result]
      /\ \A q \in Requests : pc[q] # "idle" => key[q] \in Users
      /\ \A q \in Requests : step[q] = "persist" => pc[q] = "refresh"
  BY BaseShape DEF SharedInv, Shape, RefreshInv, LinkInv
<1> USE DEF NewestInv
<1>1. ASSUME NEW q \in Requests, SessionFound(q)
      PROVE  val'[r].token \in {val[r].token, gei[key[r]]}
  BY <1>1, <1>a DEF SessionFound, TM!RefreshOk, TM!Result
<1>2. ASSUME NEW q \in Requests, NEW stored \in BOOLEAN, Persist(q, stored)
      PROVE  val'[r].token \in {val[r].token, Newest(key[r])}
  <2>1. step[q] = "persist" /\ val' = [val EXCEPT ![q].token = got[q]]
    BY <1>2 DEF Persist, Refreshing, TM!RefreshOk
  <2> QED  BY <1>a, <2>1 DEF TM!Result
<1>3. ASSUME NEW q \in Requests, InGetToken(q)
      PROVE  val'[r].token \in {val[r].token, None, Newest(key[r])}
  <2>1. CASE TM!Publish(q)
    <3>1. /\ pc[q] = "publish"
          /\ val'[r] = val[r] \/ (val'[r] = val[q] /\ key[r] = key[q])
      BY <2>1 DEF TM!Publish, TM!Deliver, TM!Waiters
    <3> QED  BY <3>1
  <2>2. CASE TM!LookupHit(q) \/ TM!RecheckHit(q)
    <3>1. /\ key[q] \in Users /\ tokens[key[q]].live
          /\ val' = [val EXCEPT ![q] = TM!HeldIn(key[q])]
      BY <1>a, <2>2 DEF TM!LookupHit, TM!RecheckHit
    <3>2. val'[r] = val[r] \/ (q = r /\ val'[r].token = tokens[key[q]].token)
      BY <1>a, <3>1 DEF TM!HeldIn
    <3> QED  BY <3>1, <3>2
  <2>3. CASE (\E live \in BOOLEAN : TM!Store(q, live))
               \/ TM!LookupMiss(q) \/ TM!Lead(q) \/ TM!Join(q)
    BY <2>3 DEF TM!Store, TM!LookupMiss, TM!Lead, TM!Join
  <2>4. CASE TM!RecheckMiss(q)
    BY <1>a, <2>4 DEF TM!RecheckMiss, TM!BeginRefresh
  <2> QED  BY <1>3, <2>1, <2>2, <2>3, <2>4 DEF InGetToken
<1>4. ASSUME NEW q \in Requests, SessionNotFound(q) \/ LoginErr(q) \/ Authenticate(q) \/ Reauthenticate(q)
      PROVE  val'[r].token \in {val[r].token, None}
  <2>1. val' = val \/ val' = [val EXCEPT ![q] = TM!Nothing]
    BY <1>4, ReturnEffect DEF SessionNotFound, ToLogin, LoginErr, TM!RefreshErr, TM!Return, l1
  <2> QED  BY <1>a, <2>1 DEF TM!Nothing
<1>5. ASSUME NEW q \in Requests,
             LoginOk(q) \/ Serve(q) \/ Evict(q) \/ HangUp(q)
               \/ (\E deleted \in BOOLEAN : Delete(q, deleted)) \/ \E u \in Users : Arrive(q, u)
      PROVE  val' = val
  BY <1>5, ServeEffect DEF LoginOk, Evict, TM!Invalidate, HangUp, Delete, DeleteAs, Arrive,
     TM!Call, l1
<1>6. (\E c \in alive : Kill(c)) \/ (\E u \in Users : Expire(u)) \/ UNCHANGED vars => val' = val
  BY DEF Kill, Expire, TM!Expire, vars, l1
<1>7. Crash => val'[r].token = None
  BY DEF Crash, TM!Restart, TM!Nothing
<1>8. gei[key[r]] \in {None, Newest(key[r])}
  BY <1>a
<1> QED  BY <1>1, <1>2, <1>3, <1>4, <1>5, <1>6, <1>7, <1>8 DEF Next, Own, Upstream, Serve, SessionFunc

LEMMA NextWait ==
    SharedInv /\ KnownInv /\ NewestInv /\ UnseenInv /\ WaitInv /\ GeiAnswers /\ [Next]_vars => WaitInv'
<1> SUFFICES ASSUME SharedInv, KnownInv, NewestInv, UnseenInv, WaitInv, GeiAnswers, [Next]_vars,
                    NEW r \in Requests, stage'[r] = "reauth"
             PROVE  /\ gei'[user'[r]] # cookie'[r]
                    /\ val'[r].token # None => val'[r].token.n >= cookie'[r].n
  BY DEF WaitInv
<1>a. /\ gei \in [Users -> Cookies \cup {None}] /\ cookie \in [Requests -> Cookies \cup {None}]
      /\ user \in [Requests -> Users \cup {None}] /\ logins \in [Users -> Nat]
      /\ stage \in [Requests -> Stages]
      /\ \A q \in Requests : stage[q] # "new" => user[q] \in Users
  BY DEF SharedInv, BaseInv, RefreshInv, TypeInv
<1>b. /\ stage[r] \in {"delete", "reauth"} =>
           cookie[r] \in Cookies /\ cookie[r].user = user[r] /\ cookie[r].n \in Nat
      /\ stage[r] = "reauth" => pc[r] # "idle" /\ key[r] = user[r]
      /\ pc[r] = "idle" => val[r].token = None
  BY DEF SharedInv, LinkInv, OwnedBy, Cookies
<1>1. CASE stage[r] = "reauth"
  <2>1. user'[r] = user[r] /\ user[r] \in Users
    BY <1>1, <1>a, UserStays
  <2>2. cookie'[r] = cookie[r]
    <3>1. ASSUME NEW q \in Requests, Authenticate(q) \/ Reauthenticate(q) PROVE cookie'[r] = cookie[r]
      <4>1. /\ \E to : to # "reauth" /\ stage' = [stage EXCEPT ![q] = to]
            /\ cookie' = cookie \/ \E c : cookie' = [cookie EXCEPT ![q] = c]
        BY <3>1, ReturnEffect DEF Respond, Advance
      <4>2. q # r
        BY <1>a, <4>1
      <4> QED  BY <1>a, <4>1, <4>2
    <3>2. ASSUME NEW q \in Requests, Serve(q) PROVE cookie' = cookie
      BY <3>2, ServeEffect
    <3> QED
      BY <3>1, <3>2 DEF Next, Own, Upstream, Serve, SessionFunc, SessionFound, SessionNotFound, ToLogin,
         LoginOk, LoginErr, Persist, InGetToken, Evict, Delete, DeleteAs, Arrive, HangUp, Kill,
         Expire, Crash, vars, request
  <2>3. gei'[user[r]] # cookie[r]
    <3>1. CASE gei'[user[r]] \in {gei[user[r]], None}
      BY <1>1, <1>b, <3>1 DEF WaitInv
    <3>2. CASE \E q \in Requests : step[q] = "persist" /\ gei'[user[r]] = got[q]
      BY <3>2 DEF UnseenInv, Unseen
    <3> QED  BY <2>1, <3>1, <3>2, GeiStep
  <2>4. val'[r].token # None => val'[r].token.n >= cookie[r].n
    <3>1. CASE val'[r].token \in {val[r].token, None}
      BY <1>1, <3>1 DEF WaitInv
    <3>2. CASE val'[r].token = Newest(user[r])
      <4>1. cookie[r].n <= logins[user[r]]
        BY <1>1, <1>b DEF KnownInv, Issued
      <4> QED  BY <1>1, <1>a, <1>b, <2>1, <3>2, <4>1 DEF Newest
    <3> QED  BY <1>1, <1>b, <3>1, <3>2, ValStep
  <2> QED  BY <2>1, <2>2, <2>3, <2>4
<1>2. CASE stage[r] # "reauth"
  <2>1. PICK deleted \in BOOLEAN : Delete(r, deleted)
    BY <1>2, ReauthStage
  <2>2. /\ stage[r] = "delete" /\ pc[r] = "idle" /\ UNCHANGED <<val, user, cookie>>
        /\ gei' = [gei EXCEPT ![user[r]] = None] \/ (~HasIndexer /\ gei' = gei)
    BY <2>1 DEF Delete, DeleteAs, Advance, TM!Call, GeiAnswers, GeiFails, l2
  <2>3. user[r] \in Users /\ gei'[user[r]] = None /\ cookie[r] # None
    BY <1>a, <1>b, <2>2 DEF NewestInv
  <2> QED  BY <1>b, <2>2, <2>3
<1> QED  BY <1>1, <1>2

LEMMA WaitHolds == Spec /\ []GeiAnswers => []WaitInv
<1>1. Init => WaitInv
  BY DEF Init, WaitInv
<1> QED
  BY <1>1, NextWait, SharedHolds, KnownHolds, NewestHolds, UnseenHolds, PTL DEF Spec

\* While a request that found its cookie stale waits for another, GEI does not
\* have the stale one: neither its own deletion nor another's refresh leaves it there.
THEOREM StaleStaysPurged == Spec /\ []GeiAnswers => []StalePurged
<1>1. WaitInv => StalePurged
  BY DEF WaitInv, StalePurged
<1> QED  BY <1>1, WaitHolds, PTL

\* The cookie a request retries with is never older than the one it found stale.
THEOREM RecoveryNeverFallsBack == Spec /\ []GeiAnswers => NeverOlder
<1>1. ASSUME SharedInv, WaitInv, [Next]_vars, NEW r \in Requests, Recovers(r)
      PROVE  cookie'[r].n >= cookie[r].n
  <2>1. val[r].token # None /\ cookie'[r] = val[r].token
    BY <1>1, ReauthStage
  <2> QED  BY <1>1, <2>1 DEF WaitInv, Recovers
<1>2. SharedInv /\ WaitInv /\ [Next]_vars =>
        [\A r \in Requests : Recovers(r) => cookie'[r].n >= cookie[r].n]_vars
  BY <1>1
<1> QED  BY <1>2, SharedHolds, WaitHolds, PTL DEF Spec, NeverOlder
=============================================================================
