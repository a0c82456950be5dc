--------------------------------- MODULE Auth ---------------------------------
(***************************************************************************)
(* The dashboard's accounts and sessions: the store (internal/auth), the   *)
(* gate in front of /api/, the handlers of /api/auth/ and the redirect of  *)
(* "/".  Each handler is taken statement by statement: requests of several *)
(* browsers interleave, a statement may fail, the process may restart.     *)
(*                                                                         *)
(* A request past the gate waits at "act" for the handler behind it, an    *)
(* answered one at "answer" for the network: both belong to the module     *)
(* that extends this one.                                                  *)
(***************************************************************************)
EXTENDS Integers

CONSTANTS
    Browser,    \* each with a parent of its own, and that parent's password
    Handler,    \* goroutines serving requests
    Tab,        \* where requests come from
    Name,       \* user names as stored
    Typed,      \* user names as typed
    Trim,       \* strings.TrimSpace: [Typed -> Name, or None for blanks]
    Token,      \* session tokens: random, never guessed
    None,
    Lifetime,   \* of a session
    MaxNow      \* bound on time

ASSUME AuthAssumption ==
    /\ Name \subseteq Typed
    /\ Trim \in [Typed -> Name \union {None}]
    /\ \A n \in Name : Trim[n] = n
    /\ None \notin Name \union Browser \union Handler \union Token
    /\ Lifetime \in Nat \ {0} /\ MaxNow \in Nat

VARIABLES
    accounts,   \* [Name -> the browser whose parent's password it has, or None]
    sessions,   \* the rows of auth_sessions
    serving,    \* [Handler -> the request it serves]
    now

authVars == <<accounts, sessions, serving, now>>

Gated  == {"load", "save", "child"}
Kind   == {"root", "me", "setup", "login", "logout"} \union Gated
Answer == {"authenticated", "setup", "signin",  \* of me
           "home", "first-run", "login",        \* of the redirect of "/"
           "ok", "refused", "unauthorized", "error", "missing"}

\* early: no account existed when the request came (history, for a property).
Idle == [pc |-> "idle", what |-> "root", tab |-> None, who |-> None, typed |-> None,
         token |-> None, early |-> FALSE, body |-> None, answer |-> "ok"]

AuthInit ==
    /\ accounts = [n \in Name |-> None]
    /\ sessions = {}
    /\ serving = [h \in Handler |-> Idle]
    /\ now = 0

HasUsers == \E n \in Name : accounts[n] # None
Valid(s) == s.expires > now
At(h, pc) == serving[h].pc = pc
Go(h, pc) == serving' = [serving EXCEPT ![h].pc = pc]
Reply(h, answer) == serving' = [serving EXCEPT ![h].pc = "answer", ![h].answer = answer]

-------------------------------------------------------------------------------
(***************************************************************************)
(* A request comes in, with the browser's cookie (None: it has none).      *)
(***************************************************************************)

First(what, token) ==
    CASE what \in {"root", "me"} -> "who"
      [] what = "setup" -> "hasUsers"
      [] what = "login" -> "login"
      [] what = "logout" -> IF token = None THEN "answer" ELSE "delete"
      [] what \in Gated -> IF token = None THEN "answer" ELSE "gate"

Request(tab, what, who, typed, token, body) ==
    [pc |-> First(what, token), what |-> what, tab |-> tab, who |-> who, typed |-> typed,
     token |-> token, early |-> what = "setup" /\ ~HasUsers, body |-> body,
     answer |-> IF what \in Gated THEN "unauthorized" ELSE "ok"]

\* Store.Verify.
Verified(h) == \E s \in sessions : s.token = serving[h].token /\ Valid(s)

\* AuthGate.
Gate(h) ==
    /\ At(h, "gate")
    /\ IF Verified(h) THEN Go(h, "act") ELSE Reply(h, "unauthorized")
    /\ UNCHANGED <<accounts, sessions, now>>

\* A bug the run must catch: Me does not count the users.
MeForgets(h) == IF Verified(h) THEN "authenticated" ELSE "setup"

\* AuthHandler.Me and rootRedirect: who is signed in, or else whether there is
\* an account.  A session that is not valid never becomes valid, so the two
\* statements of each may be one step.
MeAnswer(h) ==
    IF Verified(h) THEN "authenticated" ELSE IF HasUsers THEN "signin" ELSE "setup"

RootAnswer(h) ==
    IF Verified(h) THEN "home" ELSE IF HasUsers THEN "login" ELSE "first-run"

Who(h) ==
    /\ At(h, "who")
    /\ Reply(h, IF serving[h].what = "me" THEN MeAnswer(h) ELSE RootAnswer(h))
    /\ UNCHANGED <<accounts, sessions, now>>

\* A bug the run must catch: a setup does not ask whether there is an account.
CountNothing(h) ==
    /\ At(h, "hasUsers")
    /\ Go(h, "create")
    /\ UNCHANGED <<accounts, sessions, now>>

\* AuthHandler.Setup asks whether there is an account.
CountUsers(h) ==
    /\ At(h, "hasUsers")
    /\ IF HasUsers THEN Reply(h, "refused") ELSE Go(h, "create")
    /\ UNCHANGED <<accounts, sessions, now>>

\* Store.Create: the stored name is trimmed and UNIQUE.
Create(h) ==
    /\ At(h, "create")
    /\ LET n == Trim[serving[h].typed]
       IN  IF n = None \/ (n \in Name /\ accounts[n] # None)
             THEN Reply(h, "refused") /\ UNCHANGED accounts
             ELSE accounts' = [accounts EXCEPT ![n] = serving[h].who] /\ Go(h, "login")
    /\ UNCHANGED <<sessions, now>>

\* A bug the run must catch: the password is not compared.
KnownByName(r) == r.typed \in Name /\ accounts[r.typed] # None

\* The name is looked up as typed, not trimmed, and the password compared.
Known(r) == r.typed \in Name /\ accounts[r.typed] = r.who

\* A token nobody has: which one makes no difference.
Fresh(cookies) ==
    CHOOSE k \in Token :
      k \notin cookies \union {s.token : s \in sessions} \union {serving[h].token : h \in Handler}

\* Store.Login, for Login and Setup: accounts stay, so its two statements may
\* be one step.  The answer carries the token.
Login(h, cookies) ==
    /\ At(h, "login")
    /\ IF Known(serving[h])
         THEN LET k == Fresh(cookies)
              IN  /\ sessions' = sessions \union
                       {[token |-> k, name |-> serving[h].typed, expires |-> now + Lifetime]}
                  /\ serving' = [serving EXCEPT ![h].pc = "answer", ![h].answer = "ok", ![h].token = k]
         ELSE /\ Reply(h, IF serving[h].what = "setup" THEN "error" ELSE "unauthorized")
              /\ UNCHANGED sessions
    /\ UNCHANGED <<accounts, now>>

\* Store.Logout.
Logout(h) ==
    /\ At(h, "delete")
    /\ sessions' = {s \in sessions : s.token # serving[h].token}
    /\ Reply(h, "ok")
    /\ UNCHANGED <<accounts, now>>

\* A statement fails.  The gate takes an error for an unknown session, Me for
\* "not signed in" or "there is no account", and Logout ignores it.
StatementFails(h) ==
    /\ \/ At(h, "gate") /\ Reply(h, "unauthorized")
       \/ /\ At(h, "who")
          /\ \E fails \in {"verify", "hasUsers"} :
               IF serving[h].what = "me"
                 THEN Reply(h, IF fails = "verify" /\ HasUsers THEN "signin" ELSE "setup")
                 ELSE Reply(h, IF fails = "verify" /\ ~HasUsers THEN "first-run" ELSE "login")
       \/ At(h, "hasUsers") /\ Reply(h, "error")
       \/ At(h, "create") /\ Reply(h, "refused")
       \/ At(h, "login") /\ Reply(h, "error")
       \/ At(h, "delete") /\ Reply(h, "ok")
    /\ UNCHANGED <<accounts, sessions, now>>

\* PurgeExpired, which only a start of the service calls.
PurgeExpired == sessions' = {s \in sessions : Valid(s)}

Tick == now < MaxNow /\ now' = now + 1 /\ UNCHANGED <<accounts, sessions, serving>>

AuthStep(h, cookies) ==
    Gate(h) \/ Who(h) \/ CountUsers(h) \/ Create(h) \/ Login(h, cookies) \/ Logout(h)

-------------------------------------------------------------------------------
Session == [token : Token, name : Name, expires : 1 .. (MaxNow + Lifetime)]

AuthTypeOK ==
    /\ accounts \in [Name -> Browser \union {None}]
    /\ \A s \in sessions : s \in Session
    /\ now \in 0 .. MaxNow

\* The session a browser holds is one of an account whose password its
\* parent knows: with two first setups racing for a name, the loser is not
\* signed in to the winner's account, and no answer brings another's token.
\* Store.Create, Store.Login, AuthHandler.Setup.
NobodyElsesSession(cookie) ==
    \A b \in Browser : \A s \in sessions : s.token = cookie[b] => accounts[s.name] = b

\* An account is created by a setup that came when there was none: setups
\* that race may create several, but once they are done no account is added.
\* AuthHandler.Setup.
NoLateAccount ==
    \A h \in Handler :
      accounts' # accounts /\ serving'[h] # serving[h] => serving[h].early

===============================================================================
