------------------------- MODULE PasetoTokensProofs -------------------------
(***************************************************************************)
(* A login that no other login overlapped gets a token of its own          *)
(* credentials, for every set of logins, users and keys.                   *)
(*                                                                         *)
(* No property is inductive: all look at a token that is out, and what     *)
(* makes it right happens while its claims are written.  WriteInv says     *)
(* what has been written so far.                                           *)
(***************************************************************************)
EXTENDS PasetoTokens, TLAPS

\* The claims that a login has written when it is at step s.
Written(s) == CASE s = "username" -> {"imaluumCookie"}
                [] s = "password" -> {"imaluumCookie", "username"}
                [] s = "sign"     -> Fields
                [] OTHER          -> {}

\* A login that nobody overlapped is alone, and what it has written is there.
OwnClaims(l) == /\ Writers = {l}
                /\ \A f \in Written(pc[l]) : claims[f] = Seal(payload[l])

\* What a login has written, overlapped or not, holds somebody's credentials.
WriteInv == \A l \in Writers :
                /\ \A f \in Written(pc[l]) : claims[f] \in Sealed
                /\ ~overlap[l] => OwnClaims(l)

Inv == TypeOK /\ WriteInv /\ NoResidue

-----------------------------------------------------------------------------
(* An accepted header yields a key, so a sealed field is well formed.      *)

LEMMA SealType == ASSUME NEW p \in Payload, p.header # Malformed
                  PROVE  Seal(p) \in Sealed
  BY PasetoTokensAssumption DEF Payload, Headers, Seal, Sealed, KeyOf

LEMMA InitInv == Init => Inv
  BY PasetoTokensAssumption
     DEF Init, Inv, TypeOK, WriteInv, NoResidue, Blank, Claims, Writers, Writing, Fields

-----------------------------------------------------------------------------
(* One lemma per action.                                                   *)

LEMMA LoginInv == ASSUME Inv, NEW l \in Logins, NEW p \in Payload, Login(l, p)
                  PROVE  Inv'
<1> USE DEF Inv, Login, Begin
<1>1. Writers' = Writers \cup {l}
  BY DEF TypeOK, Writers, Writing, Fields
<1>2. TypeOK'
  <2>1. \A m \in Writers' : payload'[m] \in Payload /\ payload'[m].header # Malformed
    BY <1>1 DEF TypeOK, Writers
  <2>2. begun' \in 0..MaxLogins
    BY PasetoTokensAssumption DEF TypeOK
  <2>3. pc' \in [Logins -> {"idle"} \cup Writing]
    BY DEF TypeOK, Writing, Fields
  <2>4. overlap' \in [Logins -> BOOLEAN]
    BY DEF TypeOK
  <2> QED BY <2>1, <2>2, <2>3, <2>4 DEF TypeOK
<1>3. WriteInv'
  <2> SUFFICES ASSUME NEW m \in Writers'
               PROVE  /\ \A f \in Written(pc'[m]) : claims'[f] \in Sealed
                      /\ ~overlap'[m] => OwnClaims(m)'
    BY DEF WriteInv
  <2>1. CASE m = l
    <3>1. Written(pc'[m]) = {}
      BY <2>1 DEF TypeOK, Written
    <3>2. ~overlap'[m] => Writers' = {l}
      BY <2>1, <1>1 DEF TypeOK
    <3> QED BY <2>1, <3>1, <3>2 DEF OwnClaims
  <2>2. CASE m # l
    <3>1. m \in Writers /\ overlap'[m] /\ pc'[m] = pc[m]
      BY <2>2, <1>1 DEF TypeOK, Writers
    <3> QED BY <3>1 DEF WriteInv
  <2> QED BY <2>1, <2>2
<1>4. NoResidue'
  BY DEF NoResidue
<1> QED BY <1>2, <1>3, <1>4

LEMMA RefusedInv == ASSUME Inv, NEW l \in Logins, Refused(l)
                    PROVE  Inv'
<1>1. TypeOK'
  BY PasetoTokensAssumption DEF Inv, Refused, TypeOK, Writers
<1>2. (WriteInv /\ NoResidue)'
  BY DEF Inv, Refused, WriteInv, OwnClaims, NoResidue, Writers
<1> QED BY <1>1, <1>2 DEF Inv

\* One claim is written: nextStep is the step after that of the claim.
LEMMA SetInv == ASSUME Inv, NEW l \in Logins,
                       NEW field \in Fields, NEW nextStep \in Writing,
                       Written(nextStep) = Written(field) \cup {field},
                       Set(l, field, nextStep)
                PROVE  Inv'
<1> USE DEF Inv, Set
<1>1. l \in Writers /\ Writers' = Writers
  BY DEF TypeOK, Writers, Writing
<1>2. payload[l] \in Payload /\ Seal(payload[l]) \in Sealed
  BY <1>1, SealType DEF TypeOK
<1>3. TypeOK'
  BY <1>1, <1>2 DEF TypeOK, Claims, Writing
<1>4. WriteInv'
  <2> SUFFICES ASSUME NEW m \in Writers
               PROVE  /\ \A f \in Written(pc'[m]) : claims'[f] \in Sealed
                      /\ ~overlap[m] => OwnClaims(m)'
    BY <1>1 DEF WriteInv
  <2>1. \A f : Written(f) \subseteq Fields
    BY DEF Written, Fields
  <2>2. /\ claims'[field] = Seal(payload[l])
        /\ \A f \in Fields : f # field => claims'[f] = claims[f]
    BY DEF TypeOK, Claims
  <2>3. CASE m = l
    <3>1. Written(pc'[m]) = Written(pc[m]) \cup {field}
      BY <2>3 DEF TypeOK
    <3>2. \A f \in Written(pc'[m]) : claims'[f] \in Sealed
      BY <3>1, <2>1, <2>2, <1>2 DEF WriteInv
    <3>3. ASSUME ~overlap[m]
          PROVE  OwnClaims(m)'
      BY <3>1, <3>3, <2>1, <2>2, <2>3, <1>1 DEF WriteInv, OwnClaims, Seal
    <3> QED BY <3>2, <3>3
  <2>4. CASE m # l
    <3>1. overlap[m] /\ pc'[m] = pc[m]
      BY <2>4, <1>1 DEF WriteInv, OwnClaims, TypeOK
    <3> QED BY <3>1, <2>1, <2>2, <1>2 DEF WriteInv
  <2> QED BY <2>3, <2>4
<1>5. NoResidue'
  BY DEF NoResidue
<1> QED BY <1>3, <1>4, <1>5

LEMMA SignInv == ASSUME Inv, NEW l \in Logins, Sign(l)
                 PROVE  Inv'
<1> USE DEF Inv, Sign
<1>1. l \in Writers /\ Written(pc[l]) = Fields
  BY DEF TypeOK, Writers, Writing, Written
<1>2. claims \in [Fields -> Sealed] /\ payload[l] \in Payload
  BY <1>1 DEF WriteInv, TypeOK, Claims
<1>3. Writers' = Writers \ {l}
  BY DEF TypeOK, Writers, Writing, Fields
<1>4. TypeOK'
  BY <1>2, <1>3 DEF TypeOK
<1>5. WriteInv'
  <2> SUFFICES ASSUME NEW m \in Writers, m # l
               PROVE  /\ \A f \in Written(pc'[m]) : claims[f] \in Sealed
                      /\ ~overlap'[m] => OwnClaims(m)'
    BY <1>3 DEF WriteInv
  <2>1. overlap[m] /\ overlap'[m] = overlap[m] /\ pc'[m] = pc[m]
    BY <1>1 DEF WriteInv, OwnClaims, TypeOK, Writers
  <2> QED BY <2>1 DEF WriteInv
<1>6. NoResidue'
  <2>1. ~overlap[l] => \A f \in Fields : claims[f] = Seal(payload[l])
    BY <1>1 DEF WriteInv, OwnClaims
  <2>2. SUFFICES ASSUME NEW t \in issued', t.alone, NEW f \in Fields
                 PROVE  t.claims[f] = Seal(t.login)
    BY DEF NoResidue, Seal
  <2>3. CASE t \in issued
    BY <2>2, <2>3 DEF NoResidue
  <2>4. CASE t = [login |-> payload[l], alone |-> ~overlap[l], claims |-> claims]
    BY <2>1, <2>2, <2>4
  <2> QED BY <2>2, <2>3, <2>4
<1> QED BY <1>4, <1>5, <1>6

LEMMA FatalInv == ASSUME Inv, Fatal
                  PROVE  Inv'
<1> USE DEF Inv, Fatal
<1>1. Writers' = {}
  BY DEF Writers, Writing, Fields
<1>2. TypeOK'
  BY <1>1 DEF TypeOK, Claims, Blank
<1>3. (WriteInv /\ NoResidue)'
  BY <1>1 DEF WriteInv, NoResidue
<1> QED BY <1>2, <1>3

-----------------------------------------------------------------------------

LEMMA NextInv == Inv /\ [Next]_vars => Inv'
<1> SUFFICES ASSUME Inv, [Next]_vars PROVE Inv'
  OBVIOUS
<1>1. ASSUME NEW l \in Logins, NEW p \in Payload, Login(l, p) PROVE Inv'
  BY <1>1, LoginInv
<1>2. ASSUME NEW l \in Logins, Refused(l) PROVE Inv'
  BY <1>2, RefusedInv
<1>3. ASSUME NEW l \in Logins, SetCookie(l) PROVE Inv'
  <2>1. Written("username") = Written("imaluumCookie") \cup {"imaluumCookie"}
    BY DEF Written
  <2> QED BY <1>3, <2>1, SetInv DEF SetCookie, Fields, Writing
<1>4. ASSUME NEW l \in Logins, SetUsername(l) PROVE Inv'
  <2>1. Written("password") = Written("username") \cup {"username"}
    BY DEF Written
  <2> QED BY <1>4, <2>1, SetInv DEF SetUsername, Fields, Writing
<1>5. ASSUME NEW l \in Logins, SetPassword(l) PROVE Inv'
  <2>1. Written("sign") = Written("password") \cup {"password"}
    BY DEF Written, Fields
  <2> QED BY <1>5, <2>1, SetInv DEF SetPassword, Fields, Writing
<1>6. ASSUME NEW l \in Logins, Sign(l) PROVE Inv'
  BY <1>6, SignInv
<1>7. CASE Fatal
  BY <1>7, FatalInv
<1>8. CASE UNCHANGED vars
  BY <1>8 DEF vars, Inv, TypeOK, WriteInv, OwnClaims, NoResidue, Writers
<1> QED BY <1>1, <1>2, <1>3, <1>4, <1>5, <1>6, <1>7, <1>8 DEF Next, Step

LEMMA Invariance == Spec => []Inv
<1> QED BY InitInv, NextInv, PTL DEF Spec

\* Every state of the login path is well typed, and a token never leaves the
\* server without all three of its claims, however logins overlap.
THEOREM TokensAreComplete == Spec => []TypeOK
<1>1. Inv => TypeOK
  BY DEF Inv
<1> QED BY <1>1, Invariance, PTL

\* The shared Token object leaks nothing from one login into a later one: a
\* token of a login that ran alone is of that login's user, under its key.
THEOREM TokensCarryNoResidue == Spec => []NoResidue
<1>1. Inv => NoResidue
  BY DEF Inv
<1> QED BY <1>1, Invariance, PTL
-----------------------------------------------------------------------------
(* What a presenter of a token gets.  Besides Inv, the answer rests on the  *)
(* validation of the key at login: the refused header is nobody's.          *)

Accepted == \A t \in issued : t.login.header # Malformed

LEMMA NextAccepted == Inv /\ Accepted /\ [Next]_vars => Accepted'
<1> SUFFICES ASSUME Inv, Accepted, [Next]_vars
             PROVE  Accepted'
  OBVIOUS
<1>1. ASSUME NEW l \in Logins, Sign(l) PROVE Accepted'
  <2>1. l \in Writers
    BY <1>1 DEF Sign, Writers, Writing
  <2>2. payload[l].header # Malformed
    BY <2>1 DEF Inv, TypeOK
  <2> QED BY <1>1, <2>2 DEF Sign, Accepted
<1>2. CASE UNCHANGED issued
  BY <1>2 DEF Accepted
<1> QED BY <1>1, <1>2
        DEF Next, Step, Login, Begin, Refused, SetCookie, SetUsername, SetPassword, Set, Fatal, vars

\* Two headers name one key exactly when they are the same, or say the default
\* key, one by naming it and one by silence.
LEMMA SameKeyIsKeyOf ==
    ASSUME NEW g \in Headers \ {Malformed}, NEW h \in Headers \ {Malformed}
    PROVE  SameKey(g, h) <=> KeyOf(g) = KeyOf(h)
  BY PasetoTokensAssumption DEF SameKey, KeyOf, Headers

\* The answer to a token and a header, from the claims that NoResidue promises.
LEMMA DecodeOwnToken ==
    ASSUME Inv, Accepted, NEW t \in issued, t.alone, NEW h \in Headers
    PROVE  Decode(t.claims, h) =
               IF SameKey(h, t.login.header)
                 THEN [username |-> t.login.user, password |-> t.login.user]
                 ELSE Unauthorized
<1>1. t.login \in Payload /\ t.login.header # Malformed
  BY DEF Inv, TypeOK, Accepted
<1>2. \A f \in {"username", "password"} :
         t.claims[f].user = t.login.user /\ t.claims[f].key = KeyOf(t.login.header)
  <2>1. \A f \in {"username", "password"} : t.claims[f] = Seal(t.login)
    BY DEF Inv, NoResidue, Fields
  <2>2. Seal(t.login).user = t.login.user /\ Seal(t.login).key = KeyOf(t.login.header)
    BY DEF Seal
  <2> QED BY <2>1, <2>2
<1>3. t.login.header \in Headers \ {Malformed}
  BY <1>1 DEF Payload
<1>4. CASE h = Malformed
  <2>1. ~SameKey(h, t.login.header)
    BY <1>3, <1>4, PasetoTokensAssumption DEF SameKey
  <2> QED BY <1>4, <2>1 DEF Decode
<1>5. CASE h # Malformed
  <2>1. SameKey(h, t.login.header) <=> KeyOf(h) = KeyOf(t.login.header)
    BY <1>3, <1>5, SameKeyIsKeyOf
  <2> QED BY <1>2, <1>5, <2>1 DEF Decode
<1> QED BY <1>4, <1>5

\* A token opens with the key it was sealed with and with no other, and yields
\* its own user's name and password: DecodePasetoToken's check of the key and
\* decryption of the claims, over every token that a lone login was handed.
THEOREM KeyOpensOwnToken == Spec => []KeyOpensToken
<1>1. Init => Accepted
  BY DEF Init, Accepted
<1>2. Inv /\ Accepted => KeyOpensToken
  BY DecodeOwnToken DEF KeyOpensToken
<1> QED BY <1>1, <1>2, NextAccepted, Invariance, PTL DEF Spec
=============================================================================
