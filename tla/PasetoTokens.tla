---------------------------- MODULE PasetoTokens ----------------------------
(***************************************************************************)
(* Login: the credentials of a user, sealed with an API key, go into the   *)
(* claims of a PASETO token, which is signed and handed out; a later       *)
(* request presents the token and a key, and gets the credentials back.    *)
(*                                                                         *)
(* The server has one Token object.  Every login writes its claims into    *)
(* that object and signs it, and nothing keeps two logins apart: the       *)
(* claims are a Go map, and what two goroutines writing one map do is      *)
(* undefined; they may mix their writes, or the runtime ends the process.  *)
(*                                                                         *)
(* The times among the claims are left out: no parser looks at them.       *)
(***************************************************************************)
EXTENDS Naturals

CONSTANTS Logins,    \* goroutines that may run LoginHandler
          Users, Keys, \* the keys that ValidateAPIKey accepts
          Default,   \* DefaultAPIKey
          NoHeader, Malformed, \* the header x-gomaluum-key, absent or refused
          None,
          MaxLogins  \* bound: logins in a behaviour

ASSUME PasetoTokensAssumption ==
    /\ Default \in Keys
    /\ {NoHeader, Malformed} \cap Keys = {} /\ NoHeader # Malformed
    /\ MaxLogins \in Nat

VARIABLES claims,   \* the claims of s.paseto.Token
          pc,       \* where each login is
          payload,  \* whose login it is, and its header
          begun,    \* logins so far
          overlap,  \* history: another login wrote claims meanwhile
          issued    \* the tokens handed out, and to whose login

vars == <<claims, pc, payload, begun, overlap, issued>>

Fields == {"imaluumCookie", "username", "password"}
Headers == Keys \cup {NoHeader, Malformed}
Sealed == [user : Users, key : Keys]
Claims == [Fields -> Sealed \cup {None}]
Payload == [user : Users, header : Headers]

Blank == [f \in Fields |-> None]

Writing == Fields \cup {"sign"}
Writers == {l \in Logins : pc[l] \in Writing}

\* Mutant: the header is not looked at.
KeyOfMutant(header) == Default

KeyOf(header) == IF header = NoHeader THEN Default ELSE header

\* A field of a user's credentials, encrypted with the key of the header.
Seal(p) == [user |-> p.user, key |-> KeyOf(p.header)]

Init == /\ claims = Blank
        /\ pc = [l \in Logins |-> "idle"]
        /\ payload = [l \in Logins |-> None]
        /\ begun = 0
        /\ overlap = [l \in Logins |-> FALSE]
        /\ issued = {}

-----------------------------------------------------------------------------

Begin(l, p) ==
    /\ pc[l] = "idle" /\ begun < MaxLogins
    /\ begun' = begun + 1
    /\ payload' = [payload EXCEPT ![l] = p]
    /\ pc' = [pc EXCEPT ![l] = "imaluumCookie"]
    /\ overlap' = [m \in Logins |-> IF m = l THEN Writers # {}
                                    ELSE overlap[m] \/ m \in Writers]
    /\ UNCHANGED <<claims, issued>>

\* Mutant: the key's format is not validated.
LoginMutant(l, p) == Begin(l, p)

\* i-Ma'luum accepted the credentials, the key is valid, the fields are sealed.
Login(l, p) == p.header # Malformed /\ Begin(l, p)

\* The credentials or the key are refused, or sealing fails: no claim is touched.
Refused(l) ==
    /\ pc[l] = "idle" /\ begun < MaxLogins
    /\ begun' = begun + 1
    /\ UNCHANGED <<claims, pc, payload, overlap, issued>>

Set(l, field, next) ==
    /\ pc[l] = field
    /\ pc' = [pc EXCEPT ![l] = next]
    /\ claims' = [claims EXCEPT ![field] = Seal(payload[l])]
    /\ UNCHANGED <<payload, begun, overlap, issued>>

SetCookie(l) == Set(l, "imaluumCookie", "username")

\* Mutant: a claim that is there already is kept.
SetUsernameMutant(l) ==
    IF claims["username"] = None THEN Set(l, "username", "password")
    ELSE /\ pc[l] = "username"
         /\ pc' = [pc EXCEPT ![l] = "password"]
         /\ UNCHANGED <<claims, payload, begun, overlap, issued>>

SetUsername(l) == Set(l, "username", "password")
SetPassword(l) == Set(l, "password", "sign")

Sign(l) ==
    /\ pc[l] = "sign"
    /\ issued' = issued \cup {[login |-> payload[l], alone |-> ~overlap[l], claims |-> claims]}
    /\ pc' = [pc EXCEPT ![l] = "idle"]
    /\ payload' = [payload EXCEPT ![l] = None]
    /\ overlap' = [overlap EXCEPT ![l] = FALSE]
    /\ UNCHANGED <<claims, begun>>

\* "fatal error: concurrent map writes": the process ends, and starts anew.
Fatal ==
    /\ \E l, m \in Writers : l # m
    /\ claims' = Blank
    /\ pc' = [l \in Logins |-> "idle"]
    /\ payload' = [l \in Logins |-> None]
    /\ overlap' = [l \in Logins |-> FALSE]
    /\ UNCHANGED <<begun, issued>>

Step(l) == \/ \E p \in Payload : Login(l, p)
           \/ Refused(l)
           \/ SetCookie(l) \/ SetUsername(l) \/ SetPassword(l)
           \/ Sign(l)

Next == (\E l \in Logins : Step(l)) \/ Fatal

Spec == Init /\ [][Next]_vars

-----------------------------------------------------------------------------
(* A request that presents a token and a header: the user and the password *)
(* it goes on with, or a 401.                                              *)

Unauthorized == [username |-> None, password |-> None]

Decode(c, header) ==
    IF header # Malformed /\ \A f \in {"username", "password"} : c[f].key = KeyOf(header)
      THEN [username |-> c["username"].user, password |-> c["password"].user]
      ELSE Unauthorized

-----------------------------------------------------------------------------
(* Properties.                                                             *)

\* The type invariant; an issued token has all its claims.
TypeOK ==
    /\ claims \in Claims
    /\ pc \in [Logins -> {"idle"} \cup Writing]
    /\ payload \in [Logins -> Payload \cup {None}]
    /\ \A l \in Writers : payload[l] \in Payload /\ payload[l].header # Malformed
    /\ begun \in 0..MaxLogins
    /\ overlap \in [Logins -> BOOLEAN]
    /\ \A t \in issued : t.login \in Payload /\ t.claims \in [Fields -> Sealed]

\* The one Token object carries nothing from a login to the next: a login that
\* no other login overlapped gets a token of its own credentials, sealed with
\* its own key, whatever was signed, mixed or lost before.
NoResidue == \A t \in issued : t.alone => \A f \in Fields : t.claims[f] = Seal(t.login)

SameKey(h1, h2) == h1 = h2 \/ {h1, h2} \subseteq {NoHeader, Default}

\* The key of a login opens its token, with the user's own name and password,
\* and no other key does; no header counts as the default key, both ways.
KeyOpensToken ==
    \A t \in issued : t.alone =>
        \A h \in Headers :
            Decode(t.claims, h) =
                IF SameKey(h, t.login.header)
                  THEN [username |-> t.login.user, password |-> t.login.user]
                  ELSE Unauthorized

\* What the comment on GeneratePasetoToken says of every token: it is made for
\* the username and the password of the user who logs in.
TokenIsItsUsers ==
    \A t \in issued : \A f \in Fields : t.claims[f].user = t.login.user
=============================================================================
