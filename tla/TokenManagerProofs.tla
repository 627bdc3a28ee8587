------------------------- MODULE TokenManagerProofs -------------------------
(***************************************************************************)
(* The theorems about TokenManager: for any set of users, of goroutines    *)
(* and of tokens, and any number of calls.                                 *)
(***************************************************************************)
EXTENDS TokenManager, TLAPS

USE TokenManagerAssumption DEF At, Goto, group, history

(***************************************************************************)
(* Type correctness.                                                       *)
(***************************************************************************)
LEMMA InitTypeOK == Init => TypeOK
  BY DEF Init, TypeOK, Entry, Absent, Result, Nothing, Steps

LEMMA NextTypeOK == TypeOK /\ [Next]_vars => TypeOK'
<1> SUFFICES ASSUME TypeOK, [Next]_vars PROVE TypeOK'
  OBVIOUS
<1> USE DEF TypeOK, Entry, Result, Steps, Leading
<1>1. ASSUME NEW c \in Callers, NEW k \in Keys, Call(c, k) PROVE TypeOK'
  BY <1>1 DEF Call
<1>2. ASSUME NEW c \in Callers, LookupHit(c) \/ RecheckHit(c) PROVE TypeOK'
  <2>1. key[c] \in Keys
    BY <1>2 DEF LookupHit, RecheckHit
  <2>2. HeldIn(key[c]) \in Result
    BY <2>1 DEF HeldIn
  <2>3. /\ val' = [val EXCEPT ![c] = HeldIn(key[c])]
        /\ pc' \in [Callers -> Steps]
        /\ \A d \in Callers : (pc'[d] = "idle" <=> pc[d] = "idle")
        /\ \A d \in Callers : pc'[d] = "store" => pc[d] = "store" /\ d # c
        /\ UNCHANGED <<tokens, inflight, key, calls, started, floor, since>>
    BY <1>2 DEF LookupHit, RecheckHit
  <2> QED  BY <2>2, <2>3
<1>3. ASSUME NEW c \in Callers, LookupMiss(c) \/ Lead(c) \/ Join(c) PROVE TypeOK'
  <2>1. CASE LookupMiss(c)  BY <2>1 DEF LookupMiss
  <2>2. CASE Lead(c)        BY <2>2 DEF Lead
  <2>3. CASE Join(c)        BY <2>3 DEF Join
  <2> QED  BY <1>3, <2>1, <2>2, <2>3
<1>4. ASSUME NEW c \in Callers, RecheckMiss(c) PROVE TypeOK'
  <2>1. key[c] \in Keys
    BY <1>4 DEF RecheckMiss
  <2> QED  BY <1>4, <2>1 DEF RecheckMiss, BeginRefresh
<1>5. ASSUME NEW c \in Callers, NEW t \in Tokens, RefreshOk(c, t) PROVE TypeOK'
  BY <1>5 DEF RefreshOk
<1>6. ASSUME NEW c \in Callers, RefreshErr(c) PROVE TypeOK'
  BY <1>6 DEF RefreshErr, Nothing
<1>7. ASSUME NEW c \in Callers, NEW live \in BOOLEAN, Store(c, live) PROVE TypeOK'
  <2>1. key[c] \in Keys
    BY <1>7 DEF Store
  <2> QED  BY <1>7, <2>1 DEF Store
<1>8. ASSUME NEW c \in Callers, Publish(c) PROVE TypeOK'
  BY <1>8 DEF Publish, Deliver, Waiters
<1>9. ASSUME NEW c \in Callers, Return(c) PROVE TypeOK'
  BY <1>9 DEF Return, Nothing
<1>10. ASSUME NEW k \in Keys, Invalidate(k) PROVE TypeOK'
  <2>1. InHand(k) \subseteq Nat \ {0}
    BY DEF InHand, Leaders
  <2>2. InHand(k) # {} => (CHOOSE n \in InHand(k) : TRUE) \in InHand(k)
    OBVIOUS
  <2>3. floor' \in [Keys -> Nat]
    BY <1>10, <2>1, <2>2 DEF Invalidate, Forget
  <2> QED  BY <1>10, <2>3 DEF Invalidate, Absent
<1>11. ASSUME NEW k \in Keys, Expire(k) PROVE TypeOK'
  <2>1. tokens[k] \in Entry
    OBVIOUS
  <2>2. /\ [tokens[k] EXCEPT !.live = FALSE] \in Entry
        /\ [tokens[k] EXCEPT !.live = FALSE].live = FALSE
    BY <2>1
  <2>3. tokens' = [tokens EXCEPT ![k] = [tokens[k] EXCEPT !.live = FALSE]]
    BY <1>11 DEF Expire
  <2>4. /\ tokens' \in [Keys -> Entry]
        /\ \A i \in Keys : tokens'[i].live => tokens'[i].token # None
    BY <2>2, <2>3
  <2> QED  BY <1>11, <2>4 DEF Expire
<1>12. CASE Restart
  BY <1>12 DEF Restart, Absent, Nothing
<1>13. CASE UNCHANGED vars
  BY <1>13 DEF vars
<1> QED
  BY <1>1, <1>2, <1>3, <1>4, <1>5, <1>6, <1>7, <1>8, <1>9, <1>10, <1>11, <1>12, <1>13
     DEF Next, Step, Refresh

\* Every value stays in its type, and no live entry lacks a token.
THEOREM TypeCorrect == Spec => []TypeOK
  BY InitTypeOK, NextTypeOK, PTL DEF Spec

(***************************************************************************)
(* The singleflight group.  SingleFlight is not inductive alone for the    *)
(* waiters: they hang on the group's map, so both go together.             *)
(***************************************************************************)
FlightInv == SingleFlight /\ NoLostWaiter

LEMMA NextFlightInv == TypeOK /\ FlightInv /\ [Next]_vars => FlightInv'
<1> SUFFICES ASSUME TypeOK, FlightInv, [Next]_vars PROVE FlightInv'
  OBVIOUS
<1> USE DEF TypeOK, Steps, Leading, FlightInv, SingleFlight, NoLostWaiter, Leaders
<1>1. ASSUME NEW c \in Callers, NEW k \in Keys, Call(c, k) PROVE FlightInv'
  BY <1>1 DEF Call
<1>2. ASSUME NEW c \in Callers, LookupHit(c) \/ LookupMiss(c) PROVE FlightInv'
  BY <1>2 DEF LookupHit, LookupMiss
<1>3. ASSUME NEW c \in Callers, Lead(c) PROVE FlightInv'
  BY <1>3 DEF Lead
<1>4. ASSUME NEW c \in Callers, Join(c) PROVE FlightInv'
  BY <1>4 DEF Join
<1>5. ASSUME NEW c \in Callers,
             RecheckHit(c) \/ RecheckMiss(c) \/ Refresh(c)
               \/ \E live \in BOOLEAN : Store(c, live)
      PROVE  FlightInv'
  <2>1. /\ pc[c] \in Leading /\ key' = key /\ inflight' = inflight
        /\ \E there \in Leading : pc' = [pc EXCEPT ![c] = there]
    BY <1>5 DEF RecheckHit, RecheckMiss, BeginRefresh, Refresh, RefreshOk, RefreshErr, Store
  <2> QED  BY <2>1
<1>6. ASSUME NEW c \in Callers, Publish(c) PROVE FlightInv'
  BY <1>6 DEF Publish, Deliver, Waiters
<1>7. ASSUME NEW c \in Callers, Return(c) PROVE FlightInv'
  BY <1>7 DEF Return
<1>8. ASSUME NEW k \in Keys, Invalidate(k) \/ Expire(k) PROVE FlightInv'
  BY <1>8 DEF Invalidate, Expire
<1>9. CASE Restart
  BY <1>9 DEF Restart
<1>10. CASE UNCHANGED vars
  BY <1>10 DEF vars
<1> QED
  BY <1>1, <1>2, <1>3, <1>4, <1>5, <1>6, <1>7, <1>8, <1>9, <1>10 DEF Next, Step

LEMMA FlightInvHolds == Spec => []FlightInv
<1>1. Init => FlightInv
  BY DEF Init, FlightInv, SingleFlight, NoLostWaiter, Leaders, Leading
<1> QED  BY <1>1, NextFlightInv, TypeCorrect, PTL DEF Spec

\* At most one refresh of a key runs at a time, and the group's map says so.
THEOREM AtMostOneFlight == Spec => []SingleFlight
  BY FlightInvHolds, PTL DEF FlightInv

\* Whoever joined a flight has one to be answered by.
THEOREM WaitersHaveAFlight == Spec => []NoLostWaiter
  BY FlightInvHolds, PTL DEF FlightInv

(***************************************************************************)
(* No mix-up: a call that is not in GetToken holds nothing, so what a call *)
(* holds was put there for its own key.                                    *)
(***************************************************************************)
IdleHoldsNothing == \A c \in Callers : pc[c] = "idle" => val[c] = Nothing
OwnInv == NoMixUp /\ IdleHoldsNothing

LEMMA NextOwnInv == TypeOK /\ OwnInv /\ [Next]_vars => OwnInv'
<1> SUFFICES ASSUME TypeOK, OwnInv, [Next]_vars PROVE OwnInv'
  OBVIOUS
<1> USE DEF TypeOK, Steps, Leading, OwnInv, NoMixUp, IdleHoldsNothing, Nothing
<1>1. ASSUME NEW c \in Callers, NEW k \in Keys, Call(c, k) PROVE OwnInv'
  BY <1>1 DEF Call
<1>2. ASSUME NEW c \in Callers,
             LookupMiss(c) \/ Lead(c) \/ Join(c)
      PROVE  OwnInv'
  <2>1. /\ pc[c] # "idle" /\ UNCHANGED <<tokens, key, val>>
        /\ \A d \in Callers : pc'[d] = "idle" => pc[d] = "idle"
    BY <1>2 DEF LookupMiss, Lead, Join
  <2> QED  BY <2>1
<1>3. ASSUME NEW c \in Callers, LookupHit(c) \/ RecheckHit(c) PROVE OwnInv'
  <2>1. /\ UNCHANGED <<tokens, key>> /\ key[c] \in Keys
        /\ val' = [val EXCEPT ![c] = HeldIn(key[c])]
        /\ pc'[c] # "idle"
        /\ \A d \in Callers : pc'[d] = "idle" => pc[d] = "idle"
    BY <1>3 DEF LookupHit, RecheckHit
  <2> QED  BY <2>1 DEF HeldIn
<1>4. ASSUME NEW c \in Callers, RecheckMiss(c) PROVE OwnInv'
  BY <1>4 DEF RecheckMiss, BeginRefresh
<1>5. ASSUME NEW c \in Callers, NEW t \in Tokens, RefreshOk(c, t) PROVE OwnInv'
  <2>1. val[c] \in Result
    OBVIOUS
  <2>2. [val[c] EXCEPT !.token = t].token = t
    BY <2>1 DEF Result
  <2>3. val' = [val EXCEPT ![c] = [val[c] EXCEPT !.token = t]]
    BY <1>5 DEF RefreshOk
  <2> QED  BY <1>5, <2>2, <2>3 DEF RefreshOk
<1>6. ASSUME NEW c \in Callers, RefreshErr(c) PROVE OwnInv'
  BY <1>6 DEF RefreshErr
<1>7. ASSUME NEW c \in Callers, NEW live \in BOOLEAN, Store(c, live) PROVE OwnInv'
  BY <1>7 DEF Store
<1>8. ASSUME NEW c \in Callers, Publish(c) PROVE OwnInv'
  BY <1>8 DEF Publish, Deliver, Waiters
<1>9. ASSUME NEW c \in Callers, Return(c) PROVE OwnInv'
  BY <1>9 DEF Return
<1>10. ASSUME NEW k \in Keys, Invalidate(k) PROVE OwnInv'
  BY <1>10 DEF Invalidate, Absent
<1>11. ASSUME NEW k \in Keys, Expire(k) PROVE OwnInv'
  <2>1. tokens[k] \in Entry
    OBVIOUS
  <2>2. [tokens[k] EXCEPT !.live = FALSE].token = tokens[k].token
    BY <2>1 DEF Entry
  <2>3. tokens' = [tokens EXCEPT ![k] = [tokens[k] EXCEPT !.live = FALSE]]
    BY <1>11 DEF Expire
  <2> QED  BY <1>11, <2>2, <2>3 DEF Expire
<1>12. CASE Restart
  BY <1>12 DEF Restart, Absent
<1>13. CASE UNCHANGED vars
  BY <1>13 DEF vars
<1> QED
  BY <1>1, <1>2, <1>3, <1>4, <1>5, <1>6, <1>7, <1>8, <1>9, <1>10, <1>11, <1>12, <1>13
     DEF Next, Step, Refresh

\* Neither the map nor a shared result ever holds another user's token.
THEOREM NoUserIsMixedUp == Spec => []NoMixUp
<1>1. Init => OwnInv
  BY DEF Init, OwnInv, NoMixUp, IdleHoldsNothing, Nothing, Absent
<1> QED  BY <1>1, NextOwnInv, TypeCorrect, PTL DEF Spec, OwnInv

(***************************************************************************)
(* No wasted refresh: a leader past its double-check refreshes a key that  *)
(* nobody else can write, because it is the only leader.                   *)
(***************************************************************************)
MissInv == \A c \in Callers :
             pc[c] \in {"refresh", "store"} => ~tokens[key[c]].live

LEMMA NextMissInv ==
  TypeOK /\ FlightInv /\ MissInv /\ [Next]_vars => MissInv'
<1> SUFFICES ASSUME TypeOK, FlightInv, MissInv, [Next]_vars PROVE MissInv'
  OBVIOUS
<1> USE DEF TypeOK, Steps, Leading, MissInv
<1>1. ASSUME NEW c \in Callers, NEW k \in Keys, Call(c, k) PROVE MissInv'
  BY <1>1 DEF Call
<1>2. ASSUME NEW c \in Callers, Step(c),
             ~ \E live \in BOOLEAN : Store(c, live), ~ Return(c)
      PROVE  MissInv'
  <2>1. /\ UNCHANGED <<tokens, key>>
        /\ \A d \in Callers : pc'[d] \in {"refresh", "store"} =>
             \/ pc[d] \in {"refresh", "store"}
             \/ ~tokens[key[d]].live
    BY <1>2 DEF Step, LookupHit, LookupMiss, Lead, Join, RecheckHit, RecheckMiss,
                BeginRefresh, Refresh, RefreshOk, RefreshErr, Publish, Deliver, Waiters
  <2> QED  BY <2>1
<1>3. ASSUME NEW c \in Callers, NEW live \in BOOLEAN, Store(c, live) PROVE MissInv'
  <2> SUFFICES ASSUME NEW d \in Callers, pc'[d] \in {"refresh", "store"}
               PROVE  ~tokens'[key'[d]].live
    OBVIOUS
  <2>1. /\ pc[c] = "store" /\ key' = key /\ pc' = [pc EXCEPT ![c] = "publish"]
        /\ \A k \in Keys : k # key[c] => tokens'[k] = tokens[k]
    BY <1>3 DEF Store
  <2>2. d # c /\ pc[d] = pc'[d] /\ key[d] \in Keys
    BY <2>1
  <2>3. key[d] # key[c]
    BY <2>1, <2>2 DEF FlightInv, SingleFlight, Leaders
  <2> QED  BY <2>1, <2>2, <2>3
<1>4. ASSUME NEW c \in Callers, Return(c) PROVE MissInv'
  BY <1>4 DEF Return
<1>5. ASSUME NEW k \in Keys, Invalidate(k) PROVE MissInv'
  BY <1>5 DEF Invalidate, Absent
<1>6. ASSUME NEW k \in Keys, Expire(k) PROVE MissInv'
  <2>1. tokens[k] \in Entry
    OBVIOUS
  <2>2. [tokens[k] EXCEPT !.live = FALSE].live = FALSE
    BY <2>1 DEF Entry
  <2>3. tokens' = [tokens EXCEPT ![k] = [tokens[k] EXCEPT !.live = FALSE]]
    BY <1>6 DEF Expire
  <2> QED  BY <1>6, <2>2, <2>3 DEF Expire
<1>7. CASE Restart
  BY <1>7 DEF Restart
<1>8. CASE UNCHANGED vars
  BY <1>8 DEF vars
<1> QED
  BY <1>1, <1>2, <1>3, <1>4, <1>5, <1>6, <1>7, <1>8 DEF Next

LEMMA MissInvHolds == Spec => []MissInv
<1>1. Init => MissInv
  BY DEF Init, MissInv
<1> QED  BY <1>1, NextMissInv, TypeCorrect, FlightInvHolds, PTL DEF Spec

LEMMA StepKeepsLive ==
  TypeOK /\ MissInv /\ [Next]_vars =>
    \A k \in Keys : tokens[k].live => tokens'[k] \in
         {tokens[k], [tokens[k] EXCEPT !.live = FALSE], Absent}
<1> SUFFICES ASSUME TypeOK, MissInv, [Next]_vars, NEW k \in Keys, tokens[k].live
             PROVE  tokens'[k] \in
                      {tokens[k], [tokens[k] EXCEPT !.live = FALSE], Absent}
  OBVIOUS
<1>1. ASSUME NEW c \in Callers, NEW live \in BOOLEAN, Store(c, live)
      PROVE  tokens'[k] = tokens[k]
  BY <1>1 DEF Store, TypeOK, MissInv
<1>2. ASSUME NEW i \in Keys, Invalidate(i)
      PROVE  tokens'[k] \in {tokens[k], Absent}
  BY <1>2 DEF Invalidate, TypeOK
<1>3. ASSUME NEW i \in Keys, Expire(i)
      PROVE  tokens'[k] \in {tokens[k], [tokens[k] EXCEPT !.live = FALSE]}
  BY <1>3 DEF Expire, TypeOK
<1>4. ASSUME NEW c \in Callers, Step(c), ~ \E live \in BOOLEAN : Store(c, live)
      PROVE  tokens' = tokens
  BY <1>4 DEF Step, LookupHit, LookupMiss, Lead, Join, RecheckHit, RecheckMiss, Return,
              BeginRefresh, Refresh, RefreshOk, RefreshErr, Publish, Deliver
<1>5. ASSUME NEW c \in Callers, NEW i \in Keys, Call(c, i) PROVE tokens' = tokens
  BY <1>5 DEF Call
<1>6. Restart => tokens'[k] = Absent
  BY DEF Restart
<1>7. UNCHANGED vars => tokens' = tokens
  BY DEF vars
<1> QED  BY <1>1, <1>2, <1>3, <1>4, <1>5, <1>6, <1>7 DEF Next

\* A live token is never overwritten by the result of another refresh.
THEOREM NoRefreshIsWasted == Spec => NoWastedRefresh
<1>1. TypeOK /\ MissInv /\ [Next]_vars =>
        [\A k \in Keys : tokens[k].live => tokens'[k] \in
           {tokens[k], [tokens[k] EXCEPT !.live = FALSE], Absent}]_vars
  BY StepKeepsLive
<1> QED  BY <1>1, TypeCorrect, MissInvHolds, PTL DEF Spec, NoWastedRefresh
(***************************************************************************)
(* Invalidate forgets.  Runs are numbered per key; floor[k] is the last    *)
(* run the last Invalidate made obsolete.  Whatever is in the map or in    *)
(* the leader's hand lies above it, and a call that began after that       *)
(* Invalidate can only be given what lies above it.                        *)
(***************************************************************************)
RunInv ==
    /\ \A k \in Keys : floor[k] <= started[k]
    /\ \A k \in Keys : tokens[k].token # None =>
         floor[k] < tokens[k].run /\ tokens[k].run <= started[k]
    /\ \A c \in Callers : pc[c] \in Leading /\ val[c].run # 0 =>
         floor[key[c]] < val[c].run /\ val[c].run <= started[key[c]]
    /\ \A c \in Callers : pc[c] \in Leading /\ val[c].token # None
                            => val[c].run # 0
    /\ \A c \in Callers : pc[c] \in {"refresh", "store"} => val[c].run # 0
    /\ \A c \in Callers : pc[c] \in {"lookup", "do", "wait", "recheck"}
                            => val[c] = Nothing
    /\ \A c \in Callers : pc[c] = "idle" => val[c] = Nothing
    /\ \A c \in Callers : pc[c] # "idle" => since[c] <= floor[key[c]]
ForgetInv == RunInv /\ InvalidateForgets

LEMMA NextForgetInv ==
  TypeOK /\ FlightInv /\ ForgetInv /\ [Next]_vars => ForgetInv'
<1> SUFFICES ASSUME TypeOK, FlightInv, ForgetInv, [Next]_vars PROVE ForgetInv'
  OBVIOUS
<1> USE DEF TypeOK, Steps, Leading, ForgetInv, RunInv, InvalidateForgets, Nothing
<1>1. ASSUME NEW c \in Callers, NEW k \in Keys, Call(c, k) PROVE ForgetInv'
  BY <1>1 DEF Call
<1>2. ASSUME NEW c \in Callers, LookupHit(c) \/ RecheckHit(c) PROVE ForgetInv'
  <2>1. /\ key[c] \in Keys /\ pc[c] \in {"lookup", "recheck"}
        /\ pc' \in {[pc EXCEPT ![c] = "return"], [pc EXCEPT ![c] = "publish"]}
        /\ val' = [val EXCEPT ![c] = HeldIn(key[c])]
        /\ UNCHANGED <<tokens, key, floor, started, since>>
    BY <1>2 DEF LookupHit, RecheckHit
  <2>2. /\ HeldIn(key[c]).run > floor[key[c]] /\ HeldIn(key[c]).run <= started[key[c]]
        /\ HeldIn(key[c]).token # None
    BY <1>2, <2>1 DEF HeldIn, LookupHit, RecheckHit
  <2>3. HeldIn(key[c]) \in Result
    BY <2>1 DEF HeldIn, Result, Entry
  <2>4. val'[c] = HeldIn(key[c]) /\ \A d \in Callers : d # c => val'[d] = val[d]
    BY <2>1
  <2>5. pc'[c] \in {"return", "publish"} /\ \A d \in Callers : d # c => pc'[d] = pc[d]
    BY <2>1
  <2>6. floor[key[c]] \in Nat /\ since[c] \in Nat /\ HeldIn(key[c]).run \in Nat
    BY <2>1, <2>3 DEF Result
  <2> QED  BY <2>1, <2>2, <2>4, <2>5, <2>6
<1>3. ASSUME NEW c \in Callers, LookupMiss(c) \/ Lead(c) \/ Join(c) PROVE ForgetInv'
  <2>1. /\ pc[c] \in {"lookup", "do"}
        /\ \E there \in {"do", "recheck", "wait"} : pc' = [pc EXCEPT ![c] = there]
        /\ UNCHANGED <<tokens, key, val, floor, started, since>>
    BY <1>3 DEF LookupMiss, Lead, Join
  <2> QED  BY <2>1
<1>4. ASSUME NEW c \in Callers, RecheckMiss(c) PROVE ForgetInv'
  <2> DEFINE n == started[key[c]] + 1
  <2>1. /\ pc[c] = "recheck" /\ key[c] \in Keys
        /\ pc' = [pc EXCEPT ![c] = "refresh"]
        /\ val' = [val EXCEPT ![c] = [token |-> None, run |-> n]]
        /\ started' = [started EXCEPT ![key[c]] = n]
        /\ UNCHANGED <<tokens, key, floor, since>>
    BY <1>4 DEF RecheckMiss, BeginRefresh
  <2>2. n \in Nat \ {0} /\ n > floor[key[c]] /\ n > started[key[c]]
    BY <2>1
  <2> HIDE DEF n
  <2>3. /\ started' \in [Keys -> Nat]
        /\ \A k \in Keys : started[k] <= started'[k] /\ floor[k] <= started'[k]
    BY <2>1, <2>2
  <2>4. val'[c].run = n /\ val'[c].token = None
        /\ \A d \in Callers : d # c => val'[d] = val[d] /\ pc'[d] = pc[d]
    BY <2>1
  <2>5. started'[key[c]] = n /\ pc'[c] = "refresh"
    BY <2>1
  <2>6. \A k \in Keys : tokens'[k].token # None =>
          floor'[k] < tokens'[k].run /\ tokens'[k].run <= started'[k]
    BY <2>1, <2>3 DEF Entry
  <2>7. \A d \in Callers : pc'[d] \in Leading /\ val'[d].run # 0 =>
          floor'[key'[d]] < val'[d].run /\ val'[d].run <= started'[key'[d]]
    <3> SUFFICES ASSUME NEW d \in Callers, pc'[d] \in Leading, val'[d].run # 0
                 PROVE  /\ floor'[key'[d]] < val'[d].run
                        /\ val'[d].run <= started'[key'[d]]
      OBVIOUS
    <3>1. CASE d = c
      BY <2>1, <2>2, <2>4, <2>5, <3>1
    <3>2. CASE d # c
      <4>1. key[d] \in Keys /\ val[d] \in Result /\ val'[d] = val[d]
        BY <2>4, <3>2
      <4> QED  BY <2>1, <2>3, <2>4, <3>2, <4>1 DEF Result
    <3> QED  BY <3>1, <3>2
  <2>8. InvalidateForgets' /\ \A k \in Keys : floor'[k] <= started'[k]
    BY <2>1, <2>3, <2>4, <2>5
  <2> QED  BY <2>1, <2>2, <2>4, <2>5, <2>6, <2>7, <2>8
<1>5. ASSUME NEW c \in Callers, NEW t \in Tokens, RefreshOk(c, t) PROVE ForgetInv'
  <2>1. val[c] \in Result
    OBVIOUS
  <2>2. /\ [val[c] EXCEPT !.token = t].token = t
        /\ [val[c] EXCEPT !.token = t].run = val[c].run
    BY <2>1 DEF Result
  <2>3. val' = [val EXCEPT ![c] = [val[c] EXCEPT !.token = t]]
    BY <1>5 DEF RefreshOk
  <2> QED  BY <1>5, <2>2, <2>3 DEF RefreshOk
<1>6. ASSUME NEW c \in Callers, RefreshErr(c) PROVE ForgetInv'
  BY <1>6 DEF RefreshErr
<1>7. ASSUME NEW c \in Callers, NEW live \in BOOLEAN, Store(c, live) PROVE ForgetInv'
  BY <1>7 DEF Store
<1>8. ASSUME NEW c \in Callers, Publish(c) PROVE ForgetInv'
  <2>1. val[c] \in Result
    OBVIOUS
  <2>2. val[c].token # None => val[c].run > floor[key[c]]
    BY <1>8 DEF Publish, Deliver
  <2> QED  BY <1>8, <2>1, <2>2 DEF Publish, Deliver, Waiters, Result
<1>9. ASSUME NEW c \in Callers, Return(c) PROVE ForgetInv'
  BY <1>9 DEF Return
<1>10. ASSUME NEW k \in Keys, Invalidate(k) PROVE ForgetInv'
  <2>1. InHand(k) \subseteq Nat \ {0}
    BY DEF InHand, Leaders, Result
  <2>2. \A c \in Leaders(k) : val[c].run # 0 => InHand(k) = {val[c].run}
    BY DEF InHand, FlightInv, SingleFlight
  <2>3. \A n \in InHand(k) : n > floor[k] /\ n <= started[k]
    BY DEF InHand, Leaders
  <2>4. InHand(k) # {} => (CHOOSE n \in InHand(k) : TRUE) \in InHand(k)
    OBVIOUS
  <2> DEFINE newFloor == IF InHand(k) = {} THEN started[k]
                         ELSE (CHOOSE n \in InHand(k) : TRUE) - 1
  <2>5. /\ newFloor \in Nat /\ floor[k] <= newFloor
        /\ \A c \in Leaders(k) : val[c].run # 0 => newFloor < val[c].run
    <3>1. CASE InHand(k) = {}
      BY <2>2, <3>1
    <3>2. CASE InHand(k) # {}
      <4>1. PICK n \in InHand(k) : n = CHOOSE m \in InHand(k) : TRUE
        BY <2>4, <3>2
      <4>2. newFloor = n - 1 /\ n \in Nat \ {0} /\ n > floor[k]
        BY <2>1, <2>3, <3>2, <4>1
      <4>3. \A c \in Leaders(k) : val[c].run # 0 => val[c].run = n
        BY <2>2, <4>1
      <4> HIDE DEF newFloor
      <4> QED  BY <4>2, <4>3
    <3> QED  BY <3>1, <3>2
  <2>6. newFloor <= started[k]
    BY <2>1, <2>4, <2>3
  <2>7. /\ floor' = [floor EXCEPT ![k] = newFloor]
        /\ tokens' = [tokens EXCEPT ![k] = Absent]
        /\ UNCHANGED <<pc, key, val, started, since>>
    BY <1>10 DEF Invalidate, Forget
  <2> HIDE DEF newFloor
  <2> QED  BY <2>5, <2>6, <2>7 DEF Absent, Leaders
<1>11. ASSUME NEW k \in Keys, Expire(k) PROVE ForgetInv'
  <2>1. tokens[k] \in Entry
    OBVIOUS
  <2>2. /\ [tokens[k] EXCEPT !.live = FALSE].token = tokens[k].token
        /\ [tokens[k] EXCEPT !.live = FALSE].run = tokens[k].run
    BY <2>1 DEF Entry
  <2>3. tokens' = [tokens EXCEPT ![k] = [tokens[k] EXCEPT !.live = FALSE]]
    BY <1>11 DEF Expire
  <2> QED  BY <1>11, <2>2, <2>3 DEF Expire
<1>12. CASE Restart
  BY <1>12 DEF Restart, Absent
<1>13. CASE UNCHANGED vars
  BY <1>13 DEF vars
<1> QED
  BY <1>1, <1>2, <1>3, <1>4, <1>5, <1>6, <1>7, <1>8, <1>9, <1>10, <1>11, <1>12, <1>13
     DEF Next, Step, Refresh

\* A call that begins after Invalidate gets no token made before it, but for
\* the one the flight under way at that moment had in hand.
THEOREM InvalidateIsObeyed == Spec => []InvalidateForgets
<1>1. Init => ForgetInv
  BY DEF Init, ForgetInv, RunInv, InvalidateForgets, Nothing, Absent, Leading
<1> QED
  BY <1>1, NextForgetInv, TypeCorrect, FlightInvHolds, PTL DEF Spec, ForgetInv
=============================================================================
