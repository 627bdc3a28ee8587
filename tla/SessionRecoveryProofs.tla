------------------------ MODULE SessionRecoveryProofs ------------------------
(***************************************************************************)
(* SessionRecovery implements TokenManager, for any users and requests and *)
(* under every fault the module has.                                       *)
(***************************************************************************)
EXTENDS SessionRecovery, FiniteSetTheorems, TLAPS

USE SessionRecoveryAssumption DEF TM!At, TM!Goto, TM!group, TM!history

Serve(r) == Handle(r) \/ Logout(r)

OwnedBy(u) == {c \in Cookies : c.user = u}

(***************************************************************************)
(* What the refresh of a leader relies on: GEI keeps nobody else's cookie, *)
(* and a leader that has logged in is still in its refresh and holds a     *)
(* cookie of the user it refreshes.                                        *)
(***************************************************************************)
RefreshInv ==
    /\ gei \in [Users -> Cookies \cup {None}]
    /\ \A u \in Users : gei[u] # None => gei[u] \in OwnedBy(u)
    /\ pc \in [Requests -> TM!Steps]
    /\ key \in [Requests -> Users \cup {None}]
    /\ \A r \in Requests : pc[r] # "idle" => key[r] \in Users
    /\ step \in [Requests -> {"get", "login", "persist"}]
    /\ got \in [Requests -> Cookies \cup {None}]
    /\ \A r \in Requests : step[r] = "persist" =>
         pc[r] = "refresh" /\ got[r] \in OwnedBy(key[r])
    /\ stage \in [Requests -> Stages]
    /\ user \in [Requests -> Users \cup {None}]
    /\ \A r \in Requests : stage[r] # "new" => user[r] \in Users

LEMMA InitRefreshInv == Init => RefreshInv
  BY DEF Init, TM!Init, RefreshInv, TM!Steps, Stages

LEMMA NextRefreshInv == RefreshInv /\ [Next]_vars => RefreshInv'
<1> SUFFICES ASSUME RefreshInv, [Next]_vars PROVE RefreshInv'
  OBVIOUS
<1> USE DEF RefreshInv, OwnedBy, TM!Steps, TM!Leading, Stages, Advance, Respond,
           refresh, l2, request
<1>1. ASSUME NEW r \in Requests, SessionFound(r) PROVE RefreshInv'
  BY <1>1 DEF SessionFound, Refreshing, TM!RefreshOk
<1>2. ASSUME NEW r \in Requests, SessionNotFound(r) PROVE RefreshInv'
  BY <1>2 DEF SessionNotFound, ToLogin, Refreshing, l1
<1>3. ASSUME NEW r \in Requests, LoginOk(r) PROVE RefreshInv'
  BY <1>3 DEF LoginOk, Refreshing, l1
<1>4. ASSUME NEW r \in Requests, LoginErr(r) PROVE RefreshInv'
  BY <1>4 DEF LoginErr, Refreshing, TM!RefreshErr
<1>5. ASSUME NEW r \in Requests, NEW stored \in BOOLEAN, Persist(r, stored)
      PROVE  RefreshInv'
  BY <1>5 DEF Persist, Refreshing, TM!RefreshOk
<1>6. ASSUME NEW r \in Requests, InGetToken(r) PROVE RefreshInv'
  <2>1. CASE TM!Publish(r)
    BY <1>6, <2>1 DEF InGetToken, TM!Publish, TM!Deliver, TM!Waiters
  <2>2. CASE ~ TM!Publish(r)
    <3>1. /\ pc[r] \in {"lookup", "do", "recheck", "store"}
          /\ \E there \in TM!Steps \ {"idle"} : pc' = [pc EXCEPT ![r] = there]
          /\ UNCHANGED <<key, gei, step, got, stage, user>>
      BY <1>6, <2>2 DEF InGetToken, TM!LookupHit, TM!LookupMiss, TM!Lead, TM!Join,
           TM!RecheckHit, TM!RecheckMiss, TM!BeginRefresh, TM!Store
    <3> QED  BY <3>1
  <2> QED  BY <2>1, <2>2
<1>7. ASSUME NEW r \in Requests, Authenticate(r) \/ Reauthenticate(r)
      PROVE  RefreshInv'
  <2>1. /\ TM!Return(r) /\ UNCHANGED <<gei, step, got, user>>
        /\ stage[r] \in {"auth", "reauth"}
        /\ \E to \in Stages \ {"new"} : stage' = [stage EXCEPT ![r] = to]
    <3>1. CASE Authenticate(r)
      <4>1. CASE val[r].token = None
        BY <3>1, <4>1 DEF Authenticate
      <4>2. CASE val[r].token # None
        <5>1. PICK handler \in Handlers : Advance(r, "auth", handler)
          BY <3>1, <4>2 DEF Authenticate
        <5>2. handler \in Stages \ {"new"}
          OBVIOUS
        <5> QED  BY <3>1, <5>1, <5>2 DEF Authenticate
      <4> QED  BY <4>1, <4>2
    <3>2. CASE Reauthenticate(r)
      BY <3>2 DEF Reauthenticate
    <3> QED  BY <1>7, <3>1, <3>2
  <2> QED  BY <2>1 DEF TM!Return
<1>8. ASSUME NEW r \in Requests, NEW u \in Users, Arrive(r, u) PROVE RefreshInv'
  BY <1>8 DEF Arrive, TM!Call
<1>9. ASSUME NEW r \in Requests, Serve(r) \/ HangUp(r) PROVE RefreshInv'
  <2>1. /\ UNCHANGED <<pc, key, gei, step, got, user>>
        /\ \/ UNCHANGED stage
           \/ /\ stage[r] # "new"
              /\ \E to \in Stages \ {"new"} : stage' = [stage EXCEPT ![r] = to]
    BY <1>9 DEF Serve, Handle, Scrape, FetchData, Download, Logout, HangUp, l1
  <2> QED  BY <2>1
<1>10. ASSUME NEW r \in Requests, Evict(r) PROVE RefreshInv'
  BY <1>10 DEF Evict, TM!Invalidate
<1>11. ASSUME NEW r \in Requests, NEW deleted \in BOOLEAN, Delete(r, deleted)
       PROVE  RefreshInv'
  <2>1. user[r] \in Users
    BY <1>11 DEF Delete, DeleteAs
  <2> QED  BY <1>11, <2>1 DEF Delete, DeleteAs, TM!Call
<1>12. ASSUME NEW c \in alive, Kill(c) PROVE RefreshInv'
  BY <1>12 DEF Kill, l1
<1>13. ASSUME NEW u \in Users, Expire(u) PROVE RefreshInv'
  BY <1>13 DEF Expire, TM!Expire
<1>14. CASE Crash
  <2>1. /\ pc' = [r \in Requests |-> "idle"]
        /\ key' = [r \in Requests |-> None]
        /\ step' = [r \in Requests |-> "get"]
        /\ got' = [r \in Requests |-> None]
        /\ stage' = [r \in Requests |-> IF stage[r] = "new" THEN "new" ELSE "done"]
        /\ UNCHANGED <<gei, user>>
    BY <1>14 DEF Crash, TM!Restart
  <2> QED  BY <2>1
<1>15. CASE UNCHANGED vars
  BY <1>15 DEF vars, l1
<1> QED
  BY <1>1, <1>2, <1>3, <1>4, <1>5, <1>6, <1>7, <1>8, <1>9, <1>10, <1>11, <1>12,
     <1>13, <1>14, <1>15 DEF Next, Own, Upstream, Serve, SessionFunc

LEMMA RefreshInvHolds == Spec => []RefreshInv
  BY InitRefreshInv, NextRefreshInv, PTL DEF Spec

(***************************************************************************)
(* Each step is a step of the TokenManager, or leaves it alone.            *)
(***************************************************************************)
LEMMA StepRefines == RefreshInv /\ [Next]_vars => [TM!Next]_(TM!vars)
<1> SUFFICES ASSUME RefreshInv, [Next]_vars
             PROVE  TM!Next \/ UNCHANGED TM!vars
  OBVIOUS
<1>1. ASSUME NEW r \in Requests, SessionFound(r) PROVE TM!Next
  <2>1. gei[key[r]] \in Cookies /\ TM!RefreshOk(r, gei[key[r]])
    BY <1>1 DEF SessionFound, Refreshing, RefreshInv, OwnedBy
  <2> QED  BY <2>1 DEF TM!Next, TM!Step, TM!Refresh
<1>2. ASSUME NEW r \in Requests, NEW stored \in BOOLEAN, Persist(r, stored)
      PROVE  TM!Next
  <2>1. got[r] \in Cookies /\ TM!RefreshOk(r, got[r])
    BY <1>2 DEF Persist, Refreshing, RefreshInv, OwnedBy
  <2> QED  BY <2>1 DEF TM!Next, TM!Step, TM!Refresh
<1>3. ASSUME NEW r \in Requests, LoginErr(r) PROVE TM!Next
  BY <1>3 DEF LoginErr, TM!Next, TM!Step, TM!Refresh
<1>4. ASSUME NEW r \in Requests, SessionNotFound(r) \/ LoginOk(r) \/ Serve(r) \/ HangUp(r)
      PROVE  UNCHANGED TM!vars
  BY <1>4 DEF SessionNotFound, ToLogin, LoginOk, Serve, Handle, Scrape, FetchData, Download,
       Logout, HangUp, l1, TM!vars
<1>5. ASSUME NEW r \in Requests, InGetToken(r) PROVE TM!Next
  BY <1>5 DEF InGetToken, TM!Next, TM!Step
<1>6. ASSUME NEW r \in Requests, Authenticate(r) \/ Reauthenticate(r) PROVE TM!Next
  BY <1>6 DEF Authenticate, Reauthenticate, TM!Next, TM!Step
<1>7. ASSUME NEW r \in Requests, NEW u \in Users, Arrive(r, u) PROVE TM!Next
  BY <1>7 DEF Arrive, TM!Next
<1>8. ASSUME NEW r \in Requests, Evict(r) PROVE TM!Next
  <2>1. user[r] \in Users
    BY <1>8 DEF Evict, Advance, RefreshInv
  <2> QED  BY <1>8, <2>1 DEF Evict, TM!Next
<1>9. ASSUME NEW r \in Requests, NEW deleted \in BOOLEAN, Delete(r, deleted)
      PROVE  TM!Next
  <2>1. user[r] \in Users
    BY <1>9 DEF Delete, DeleteAs, Advance, RefreshInv
  <2> QED  BY <1>9, <2>1 DEF Delete, DeleteAs, TM!Next
<1>10. ASSUME NEW c \in alive, Kill(c) PROVE UNCHANGED TM!vars
  BY <1>10 DEF Kill, l1, TM!vars
<1>11. ASSUME NEW u \in Users, Expire(u) PROVE TM!Next
  BY <1>11 DEF Expire, TM!Next
<1>12. CASE Crash
  BY <1>12 DEF Crash, TM!Next
<1>13. CASE UNCHANGED vars
  BY <1>13 DEF vars, l1, TM!vars
<1> QED
  BY <1>1, <1>2, <1>3, <1>4, <1>5, <1>6, <1>7, <1>8, <1>9, <1>10, <1>11, <1>12, <1>13
     DEF Next, Own, Upstream, Serve, SessionFunc

\* Whatever the requests, GEI and the login service do, the L1 cache sees only
\* what TokenManager allows, so all that holds of TokenManager holds here.
THEOREM Implementation == Spec => RefinesTokenManager
<1>1. Init => TM!Init
  BY DEF Init
<1> QED
  BY <1>1, RefreshInvHolds, StepRefines, PTL DEF Spec, TM!Spec, RefinesTokenManager
=============================================================================
