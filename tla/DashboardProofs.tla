---------------------------- MODULE DashboardProofs ----------------------------
(***************************************************************************)
(* What the sessions, the accounts and the pages guarantee for any number  *)
(* of browsers, tabs, goroutines, names, rules and disturbances.           *)
(*                                                                         *)
(* A handler's request moves on alone.  A step is one of four: a request   *)
(* begins, is worked on, is answered, or ends without an answer.  DashInv  *)
(* says what a request on its way stands for: the parent who sent it, the  *)
(* account it may still create, the child it may still add, the policy it  *)
(* may still write.                                                        *)
(***************************************************************************)
EXTENDS Dashboard, FiniteSetTheorems, TLAPS

\* What a proof about tokens needs: there is always one that nobody has.
TokensLast == ~IsFiniteSet(Token) /\ IsFiniteSet(Handler) /\ IsFiniteSet(Browser)

-------------------------------------------------------------------------------
(***************************************************************************)
(* Requests and pages.                                                     *)
(***************************************************************************)

Pc == {"idle", "who", "hasUsers", "create", "login", "delete", "gate", "act", "answer"}

Edits == [rule : Rule, base : Policy, next : Policy]
Body  == {None} \union Policy \union Edits

Requests ==
    [pc : Pc, what : Kind, tab : Tab \union {None}, who : Browser \union {None},
     typed : Typed \union {None}, token : Token \union {None}, early : BOOLEAN,
     body : Body, answer : Answer]

Shown == [owner : Browser, page : Page, next : Page, is : Status, waits : Handler \union {None},
          copy : Policy]

\* Where each kind of request can be, and what it then carries.
WellFormed(r) ==
    /\ r.pc # "idle" => r.tab \in Tab /\ r.who \in Browser /\ r.typed \in Typed
    /\ r.pc = "who" => r.what \in {"root", "me"}
    /\ r.pc \in {"hasUsers", "create"} => r.what = "setup"
    /\ r.pc = "login" => r.what \in {"setup", "login"}
    /\ r.pc = "delete" => r.what = "logout"
    /\ r.pc \in {"gate", "act"} => r.what \in Gated
    /\ r.pc = "answer" /\ r.what = "root" => r.answer \in Page
    /\ r.pc = "answer" /\ r.what = "load" /\ r.answer = "ok" => r.body \in Policy
    /\ r.pc # "idle" /\ r.what = "save" =>
         /\ r.body \in Edits
         /\ \A q \in Rule : q # r.body.rule => r.body.next[q] = r.body.base[q]

\* An answer that signs its browser in.
SignsIn(r) == r.pc = "answer" /\ r.what \in {"setup", "login"} /\ r.answer = "ok"

\* A request that may still add the child its account is for.
Owes(r) ==
    \/ r.what = "setup" /\ (r.pc = "login" \/ (r.pc = "answer" /\ r.answer = "ok"))
    \/ r.what = "child" /\ r.pc \in {"gate", "act"}

Owing == {h \in Handler : Owes(serving[h])}
Taken == {n \in Name : accounts[n] # None}

TypeInv ==
    /\ accounts \in [Name -> Browser \union {None}]
    /\ sessions \in SUBSET Session
    /\ serving \in [Handler -> Requests]
    /\ now \in 0 .. MaxNow
    /\ typed \in [Browser -> Typed]
    /\ cookie \in [Browser -> Token \union {None}]
    /\ tab \in [Tab -> Shown]
    /\ policy \in Policy
    /\ children \in Nat
    /\ saves \in 0 .. MaxSaves
    /\ \A h \in Handler : WellFormed(serving[h])

\* A tab waits for a request of its own; requests are their senders'.
WaitInv ==
    /\ \A t \in Tab : Is(t, "waits") <=> tab[t].waits # None
    /\ \A t \in Tab : tab[t].waits # None =>
         ~At(tab[t].waits, "idle") /\ serving[tab[t].waits].tab = t
    /\ \A h \in Handler : ~At(h, "idle") => serving[h].who = tab[serving[h].tab].owner

\* Sessions are of accounts, and each token is of one of them; browsers have,
\* and are about to get, sessions of their own parent's account.
OwnInv ==
    /\ IsFiniteSet(sessions)
    /\ \A s \in sessions : accounts[s.name] # None
    /\ \A s1, s2 \in sessions : s1.token = s2.token => s1.name = s2.name
    /\ \A b \in Browser, s \in sessions : s.token = cookie[b] => accounts[s.name] = b
    /\ \A h \in Handler : SignsIn(serving[h]) =>
         /\ serving[h].token \in Token
         /\ \A s \in sessions : s.token = serving[h].token => accounts[s.name] = serving[h].who

\* A setup that came late finds an account.
EarlyInv ==
    \A h \in Handler :
      /\ At(h, "hasUsers") => serving[h].early \/ HasUsers
      /\ At(h, "create") => serving[h].early

\* Each account has one child, or one request that may add it, or none.
ChildInv ==
    /\ IsFiniteSet(Taken)
    /\ children + Cardinality(Owing) <= Cardinality(Taken)

DashInv == TypeInv /\ WaitInv /\ OwnInv /\ EarlyInv /\ ChildInv

-------------------------------------------------------------------------------
(***************************************************************************)
(* What each step does to requests and pages.                              *)
(***************************************************************************)

\* The rest of a request, when it moves on.
Kept(r, q) ==
    /\ q.what = r.what /\ q.tab = r.tab /\ q.who = r.who /\ q.typed = r.typed
    /\ q.token = r.token /\ q.early = r.early /\ q.body = r.body

Moves(r, q) ==
    /\ q \in Requests /\ WellFormed(q)
    /\ r.pc # "idle" /\ q.pc # "idle" /\ q.tab = r.tab /\ q.who = r.who

\* A request is worked on ...
Works(h) ==
    /\ \E q : Moves(serving[h], q) /\ serving' = [serving EXCEPT ![h] = q]
    /\ UNCHANGED <<now, typed, cookie, tab, saves>>

\* ... and makes no account and no session, but may act behind the gate.
Plain(r, q) ==
    /\ Moves(r, q)
    /\ q.pc \notin {"hasUsers", "create"} /\ ~SignsIn(q) /\ (Owes(q) => Owes(r))

WorksPlainly(h) ==
    /\ \E q : Plain(serving[h], q) /\ serving' = [serving EXCEPT ![h] = q]
    /\ sessions' \subseteq sessions
    /\ UNCHANGED <<accounts, now, typed, cookie, tab, saves>>
    /\ \/ UNCHANGED <<policy, children>>
       \/ /\ children' = children + 1 /\ UNCHANGED policy
          /\ Owes(serving[h]) /\ ~Owes(serving'[h])
       \/ /\ At(h, "act") /\ serving[h].what = "save"
          /\ policy' = serving[h].body.next /\ UNCHANGED children

\* The three steps of a setup and a login that count: it finds no account, it
\* creates one, it opens a session.
Passes(h) ==
    /\ At(h, "hasUsers") /\ ~HasUsers
    /\ \E q : /\ Moves(serving[h], q) /\ q.pc = "create" /\ q.early = serving[h].early
              /\ serving' = [serving EXCEPT ![h] = q]
    /\ UNCHANGED <<accounts, sessions, now, typed, cookie, tab, policy, children, saves>>

Joins(h) ==
    /\ At(h, "create")
    /\ \E n \in Name : accounts[n] = None /\ accounts' = [accounts EXCEPT ![n] = serving[h].who]
    /\ \E q : /\ Moves(serving[h], q) /\ q.pc = "login"
              /\ serving' = [serving EXCEPT ![h] = q]
    /\ UNCHANGED <<sessions, now, typed, cookie, tab, policy, children, saves>>

Unheld(k) ==
    /\ \A b \in Browser : cookie[b] # k
    /\ \A s \in sessions : s.token # k
    /\ \A h \in Handler : serving[h].token # k

Enters(h) ==
    /\ At(h, "login")
    /\ \E k \in Token, n \in Name :
         /\ Unheld(k) /\ accounts[n] = serving[h].who
         /\ sessions' = sessions \union {[token |-> k, name |-> n, expires |-> now + Lifetime]}
         /\ \E q : /\ Moves(serving[h], q) /\ SignsIn(q) /\ q.token = k /\ q.what = serving[h].what
                   /\ serving' = [serving EXCEPT ![h] = q]
    /\ UNCHANGED <<accounts, now, typed, cookie, tab, policy, children, saves>>

\* A request of a tab's.
Sent(t, q) ==
    /\ q \in Requests /\ WellFormed(q)
    /\ q.pc \notin {"idle", "create"} /\ q.tab = t /\ q.who = tab[t].owner
    /\ q.pc = "hasUsers" => q.early \/ HasUsers
    /\ ~SignsIn(q)

Begins(t, h) ==
    /\ At(h, "idle")
    /\ \E q : Sent(t, q) /\ ~Owes(q) /\ serving' = [serving EXCEPT ![h] = q]
    /\ \E p \in Shown :
         /\ p.owner = tab[t].owner /\ p.is = "waits" /\ p.waits = h
         /\ tab' = [tab EXCEPT ![t] = p]
    /\ saves' \in 0 .. MaxSaves
    /\ UNCHANGED <<accounts, sessions, now, typed, cookie, policy, children>>

Answers(t, h) ==
    /\ At(h, "answer") /\ tab[t].waits = h
    /\ \/ /\ \E q : /\ Sent(t, q) /\ (Owes(q) => Owes(serving[h]))
                    /\ serving' = [serving EXCEPT ![h] = q]
          /\ UNCHANGED tab
       \/ /\ serving' = [serving EXCEPT ![h] = Idle]
          /\ \E p \in Shown :
               /\ p.owner = tab[t].owner /\ p.is # "waits" /\ p.waits = None
               /\ tab' = [tab EXCEPT ![t] = p]
    /\ \E c \in {None, cookie[tab[t].owner]} \union {k \in Token : SignsIn(serving[h]) /\ k = serving[h].token} :
         cookie' = [cookie EXCEPT ![tab[t].owner] = c]
    /\ UNCHANGED <<accounts, sessions, now, typed, policy, children, saves>>

\* Some requests end, some pages are left.
Ends ==
    /\ sessions' \subseteq sessions /\ now' \in 0 .. MaxNow
    /\ serving' \in [Handler -> Requests]
    /\ \A h \in Handler : serving'[h] \in {serving[h], Idle}
    /\ tab' \in [Tab -> Shown]
    /\ \A t \in Tab :
         /\ tab'[t].owner = tab[t].owner
         /\ tab'[t].is = "waits" <=> tab'[t].waits # None
         /\ tab'[t].waits # None =>
              tab'[t].waits = tab[t].waits /\ serving'[tab[t].waits] = serving[tab[t].waits]
    /\ UNCHANGED <<accounts, typed, cookie, policy, children, saves>>

LEMMA MovedRequest ==
    ASSUME NEW r \in Requests, NEW pc \in Pc, NEW q, q = [r EXCEPT !.pc = pc]
    PROVE  q \in Requests /\ Kept(r, q) /\ q.pc = pc /\ q.answer = r.answer
  BY DEF Requests, Kept

LEMMA GoMoves ==
    ASSUME TypeInv, NEW h \in Handler, NEW pc \in Pc, Go(h, pc)
    PROVE  \E q \in Requests :
             /\ Kept(serving[h], q) /\ q.pc = pc /\ q.answer = serving[h].answer
             /\ serving' = [serving EXCEPT ![h] = q]
  <1>1. serving[h] \in Requests
    BY DEF TypeInv
  <1>2. PICK q : q = [serving[h] EXCEPT !.pc = pc]
    OBVIOUS
  <1>3. serving' = [serving EXCEPT ![h] = q]
    BY <1>2 DEF Go
  <1>4. q \in Requests /\ Kept(serving[h], q) /\ q.pc = pc /\ q.answer = serving[h].answer
    BY <1>1, <1>2, MovedRequest
  <1>5. QED
    BY <1>3, <1>4

LEMMA ReplyMoves ==
    ASSUME TypeInv, NEW h \in Handler, NEW a \in Answer, Reply(h, a)
    PROVE  \E q \in Requests :
             /\ Kept(serving[h], q) /\ q.pc = "answer" /\ q.answer = a
             /\ serving' = [serving EXCEPT ![h] = q]
  <1>1. serving[h] \in Requests
    BY DEF TypeInv
  <1>2. PICK q : q = [serving[h] EXCEPT !.pc = "answer", !.answer = a]
    OBVIOUS
  <1>3. serving' = [serving EXCEPT ![h] = q]
    BY <1>2 DEF Reply
  <1>4. q \in Requests /\ Kept(serving[h], q) /\ q.pc = "answer" /\ q.answer = a
    BY <1>1, <1>2 DEF Requests, Kept, Pc
  <1>5. QED
    BY <1>3, <1>4

\* An answer but "ok" is plain; so is "ok" of a request that neither signs in
\* nor loads.
LEMMA PlainAnswer ==
    ASSUME NEW r \in Requests, WellFormed(r), r.pc # "idle", NEW q \in Requests, Kept(r, q),
           q.pc = "answer", r.what = "root" => q.answer \in Page,
           q.answer = "ok" => r.what \notin {"setup", "login", "load"}
    PROVE  Plain(r, q)
  BY DEF Plain, Moves, Kept, WellFormed, SignsIn, Owes

LEMMA PlainReply ==
    ASSUME TypeInv, NEW h \in Handler, NEW a \in Answer, Reply(h, a), ~At(h, "idle"),
           serving[h].what = "root" => a \in Page,
           a = "ok" => serving[h].what \notin {"setup", "login", "load"}
    PROVE  \E q : /\ Plain(serving[h], q) /\ q.pc = "answer" /\ q.what = serving[h].what
                  /\ serving' = [serving EXCEPT ![h] = q]
  <1>1. serving[h] \in Requests /\ WellFormed(serving[h]) /\ serving[h].pc # "idle"
    BY DEF TypeInv, At
  <1>2. PICK q \in Requests :
          /\ Kept(serving[h], q) /\ q.pc = "answer" /\ q.answer = a
          /\ serving' = [serving EXCEPT ![h] = q]
    BY ReplyMoves
  <1>3. Plain(serving[h], q)
    BY <1>1, <1>2, PlainAnswer
  <1>4. QED
    BY <1>2, <1>3 DEF Kept

LEMMA GateIsPlain ==
    ASSUME TypeInv, NEW h \in Handler, Gate(h), UNCHANGED pageVars
    PROVE  WorksPlainly(h)
  <1>1. serving[h] \in Requests /\ WellFormed(serving[h]) /\ serving[h].pc = "gate"
    BY DEF TypeInv, Gate, At
  <1>2. UNCHANGED <<accounts, sessions, now, typed, cookie, tab, saves, policy, children>>
    BY DEF Gate, pageVars
  <1>3. CASE Go(h, "act")
    <2>1. PICK q \in Requests :
            /\ Kept(serving[h], q) /\ q.pc = "act"
            /\ serving' = [serving EXCEPT ![h] = q]
      BY <1>3, GoMoves DEF Pc
    <2>2. Plain(serving[h], q)
      BY <1>1, <2>1 DEF Plain, Moves, Kept, WellFormed, SignsIn, Owes
    <2>3. QED
      BY <1>2, <2>1, <2>2 DEF WorksPlainly
  <1>4. CASE Reply(h, "unauthorized")
    <2>1. PICK q : Plain(serving[h], q) /\ serving' = [serving EXCEPT ![h] = q]
      BY <1>1, <1>4, PlainReply DEF Answer, At, WellFormed, Gated
    <2>2. QED
      BY <1>2, <2>1 DEF WorksPlainly
  <1>5. QED
    BY <1>3, <1>4 DEF Gate

LEMMA WhoIsPlain ==
    ASSUME TypeInv, NEW h \in Handler, Who(h), UNCHANGED pageVars
    PROVE  WorksPlainly(h)
  <1>1. serving[h].pc = "who" /\ WellFormed(serving[h])
    BY DEF TypeInv, Who, At
  <1>2. UNCHANGED <<accounts, sessions, now, typed, cookie, tab, saves, policy, children>>
    BY DEF Who, pageVars
  <1>3. PICK a : a = IF serving[h].what = "me" THEN MeAnswer(h) ELSE RootAnswer(h)
    OBVIOUS
  <1>4. a \in Answer /\ a # "ok" /\ (serving[h].what = "root" => a \in Page)
    BY <1>3 DEF MeAnswer, RootAnswer, Answer, Page
  <1>5. PICK q : Plain(serving[h], q) /\ serving' = [serving EXCEPT ![h] = q]
    BY <1>1, <1>3, <1>4, PlainReply DEF Who, At
  <1>6. QED
    BY <1>2, <1>5 DEF WorksPlainly

LEMMA LogoutIsPlain ==
    ASSUME TypeInv, NEW h \in Handler, Logout(h), UNCHANGED pageVars
    PROVE  WorksPlainly(h)
  <1>1. serving[h].pc = "delete" /\ serving[h].what = "logout"
    BY DEF TypeInv, Logout, At, WellFormed
  <1>2. UNCHANGED <<accounts, now, typed, cookie, tab, saves, policy, children>>
    BY DEF Logout, pageVars
  <1>3. PICK q : Plain(serving[h], q) /\ serving' = [serving EXCEPT ![h] = q]
    BY <1>1, PlainReply DEF Logout, At, Answer
  <1>4. sessions' \subseteq sessions
    BY DEF Logout
  <1>5. QED
    BY <1>2, <1>3, <1>4 DEF WorksPlainly

LEMMA FailureIsPlain ==
    ASSUME TypeInv, NEW h \in Handler, StatementFails(h),
           UNCHANGED <<typed, cookie, tab, saves, policy, children>>
    PROVE  WorksPlainly(h)
  <1>1. WellFormed(serving[h])
    BY DEF TypeInv
  <1>2. \E a \in Answer :
          /\ Reply(h, a) /\ ~At(h, "idle") /\ (serving[h].what = "root" => a \in Page)
          /\ a = "ok" => serving[h].what \notin {"setup", "login", "load"}
    <2>1. CASE At(h, "gate") /\ Reply(h, "unauthorized")
      BY <1>1, <2>1 DEF At, WellFormed, Gated, Answer
    <2>2. CASE /\ At(h, "who")
               /\ \E fails \in {"verify", "hasUsers"} :
                    IF serving[h].what = "me"
                      THEN Reply(h, IF fails = "verify" /\ HasUsers THEN "signin" ELSE "setup")
                      ELSE Reply(h, IF fails = "verify" /\ ~HasUsers THEN "first-run" ELSE "login")
      <3>1. \E a \in {"signin", "setup", "first-run", "login"} :
              Reply(h, a) /\ (serving[h].what # "me" => a \in {"first-run", "login"})
        BY <2>2
      <3>2. QED
        BY <1>1, <2>2, <3>1 DEF At, Answer, Page
    <2>3. CASE At(h, "hasUsers") /\ Reply(h, "error")
      BY <1>1, <2>3 DEF At, WellFormed, Answer
    <2>4. CASE At(h, "create") /\ Reply(h, "refused")
      BY <1>1, <2>4 DEF At, WellFormed, Answer
    <2>5. CASE At(h, "login") /\ Reply(h, "error")
      BY <1>1, <2>5 DEF At, WellFormed, Answer
    <2>6. CASE At(h, "delete") /\ Reply(h, "ok")
      BY <1>1, <2>6 DEF At, WellFormed, Answer
    <2>7. QED
      BY <2>1, <2>2, <2>3, <2>4, <2>5, <2>6 DEF StatementFails
  <1>3. PICK q : Plain(serving[h], q) /\ serving' = [serving EXCEPT ![h] = q]
    BY <1>2, PlainReply
  <1>4. UNCHANGED <<accounts, sessions, now>>
    BY DEF StatementFails
  <1>5. QED
    BY <1>3, <1>4 DEF WorksPlainly

LEMMA ActFailureIsPlain ==
    ASSUME TypeInv, NEW h \in Handler, ActFails(h), UNCHANGED <<typed, cookie, tab, saves>>
    PROVE  WorksPlainly(h)
  <1>1. /\ serving[h].pc = "act" /\ WellFormed(serving[h]) /\ serving[h].what # "root"
        /\ serving \in [Handler -> Requests]
    BY DEF TypeInv, ActFails, At, WellFormed, Gated
  <1>2. PICK a : a = IF serving[h].what = "child" THEN "refused" ELSE "error"
    OBVIOUS
  <1>3. PICK q : /\ Plain(serving[h], q) /\ q.pc = "answer" /\ q.what = serving[h].what
                 /\ serving' = [serving EXCEPT ![h] = q]
    BY <1>1, <1>2, PlainReply DEF ActFails, At, Answer
  <1>4. UNCHANGED <<accounts, sessions, now, policy>>
    BY DEF ActFails
  <1>5. CASE UNCHANGED children
    BY <1>3, <1>4, <1>5 DEF WorksPlainly
  <1>6. CASE serving[h].what = "child" /\ children' = children + 1
    <2>1. Owes(serving[h]) /\ ~Owes(serving'[h])
      BY <1>1, <1>3, <1>6 DEF Owes
    <2>2. QED
      BY <1>3, <1>4, <1>6, <2>1 DEF WorksPlainly
  <1>7. QED
    BY <1>5, <1>6 DEF ActFails

LEMMA ActIsPlain ==
    ASSUME TypeInv, NEW h \in Handler, Act(h)
    PROVE  WorksPlainly(h)
  <1>1. /\ serving[h].pc = "act" /\ WellFormed(serving[h]) /\ serving[h].what \in Gated
        /\ serving \in [Handler -> Requests] /\ serving[h] \in Requests
    BY DEF TypeInv, Act, At, WellFormed
  <1>2. UNCHANGED <<accounts, sessions, now, typed, cookie, tab, saves>>
    BY DEF Act
  <1>3. CASE serving[h].what = "load"
    <2>1. PICK q : q = [serving[h] EXCEPT !.pc = "answer", !.body = policy,
                                          !.answer = IF children = 0 THEN "missing" ELSE "ok"]
      OBVIOUS
    <2>2. serving' = [serving EXCEPT ![h] = q] /\ UNCHANGED <<policy, children>>
      BY <1>3, <2>1 DEF Act
    <2>3. /\ q \in Requests /\ q.pc = "answer" /\ q.body = policy
          /\ q.what = "load" /\ q.tab = serving[h].tab /\ q.who = serving[h].who
          /\ q.typed = serving[h].typed
      <3>1. PICK r : r = serving[h]
        OBVIOUS
      <3>2. PICK a : a = IF children = 0 THEN "missing" ELSE "ok"
        OBVIOUS
      <3>3. q = [r EXCEPT !.pc = "answer", !.body = policy, !.answer = a]
        BY <2>1, <3>1, <3>2
      <3>4. "answer" \in Pc /\ policy \in Body /\ a \in Answer
        BY <3>2 DEF TypeInv, Body, Answer, Pc
      <3>5. r \in Requests /\ r.what = "load"
        BY <1>1, <1>3, <3>1
      <3>6. q \in Requests
        BY <3>3, <3>4, <3>5 DEF Requests
      <3>7. /\ q.pc = "answer" /\ q.body = policy /\ q.what = r.what /\ q.tab = r.tab
            /\ q.who = r.who /\ q.typed = r.typed
        BY <3>3, <3>5 DEF Requests
      <3>8. QED
        BY <3>1, <3>5, <3>6, <3>7
    <2>4. Plain(serving[h], q)
      BY <1>1, <1>3, <2>3 DEF Plain, Moves, WellFormed, SignsIn, Owes, TypeInv
    <2>5. QED
      BY <1>2, <2>2, <2>4 DEF WorksPlainly
  <1>4. CASE serving[h].what = "save"
    <2>1. policy' = serving[h].body.next /\ Reply(h, "ok") /\ UNCHANGED children
      BY <1>4 DEF Act
    <2>2. PICK q : Plain(serving[h], q) /\ serving' = [serving EXCEPT ![h] = q]
      BY <1>1, <1>4, <2>1, PlainReply DEF At, Answer
    <2>3. QED
      BY <1>1, <1>2, <1>4, <2>1, <2>2 DEF WorksPlainly, At
  <1>5. CASE serving[h].what = "child"
    <2>1. children' = children + 1 /\ Reply(h, "ok") /\ UNCHANGED policy
      BY <1>5 DEF Act
    <2>2. PICK q : /\ Plain(serving[h], q) /\ q.pc = "answer" /\ q.what = serving[h].what
                   /\ serving' = [serving EXCEPT ![h] = q]
      BY <1>1, <1>5, <2>1, PlainReply DEF At, Answer
    <2>3. Owes(serving[h]) /\ ~Owes(serving'[h])
      BY <1>1, <1>5, <2>2 DEF Owes
    <2>4. QED
      BY <1>2, <2>1, <2>2, <2>3 DEF WorksPlainly
  <1>6. QED
    BY <1>1, <1>3, <1>4, <1>5 DEF Gated

LEMMA CountWorks ==
    ASSUME TypeInv, NEW h \in Handler, CountUsers(h), UNCHANGED pageVars
    PROVE  WorksPlainly(h) \/ Passes(h)
  <1>1. /\ serving[h].pc = "hasUsers" /\ serving[h].what = "setup" /\ WellFormed(serving[h])
        /\ serving[h] \in Requests
    BY DEF TypeInv, CountUsers, At, WellFormed
  <1>2. UNCHANGED <<accounts, sessions, now, typed, cookie, tab, saves, policy, children>>
    BY DEF CountUsers, pageVars
  <1>3. CASE HasUsers
    <2>1. Reply(h, "refused")
      BY <1>3 DEF CountUsers
    <2>2. PICK q : Plain(serving[h], q) /\ serving' = [serving EXCEPT ![h] = q]
      BY <1>1, <2>1, PlainReply DEF At, Answer
    <2>3. QED
      BY <1>2, <2>2 DEF WorksPlainly
  <1>4. CASE ~HasUsers
    <2>1. Go(h, "create")
      BY <1>4 DEF CountUsers
    <2>2. PICK q \in Requests :
            /\ Kept(serving[h], q) /\ q.pc = "create"
            /\ serving' = [serving EXCEPT ![h] = q]
      BY <2>1, GoMoves DEF Pc
    <2>3. Moves(serving[h], q) /\ q.early = serving[h].early
      BY <1>1, <2>2 DEF Moves, Kept, WellFormed
    <2>4. QED
      BY <1>1, <1>2, <1>4, <2>2, <2>3 DEF Passes, At
  <1>5. QED
    BY <1>3, <1>4

LEMMA CreateWorks ==
    ASSUME TypeInv, NEW h \in Handler, Create(h), UNCHANGED pageVars
    PROVE  WorksPlainly(h) \/ Joins(h)
  <1>1. /\ serving[h].pc = "create" /\ serving[h].what = "setup" /\ WellFormed(serving[h])
        /\ serving[h] \in Requests /\ serving[h].typed \in Typed
    BY DEF TypeInv, Create, At, WellFormed
  <1>2. UNCHANGED <<sessions, now, typed, cookie, tab, saves, policy, children>>
    BY DEF Create, pageVars
  <1>3. PICK n : n = Trim[serving[h].typed]
    OBVIOUS
  <1>4. CASE n = None \/ (n \in Name /\ accounts[n] # None)
    <2>1. Reply(h, "refused") /\ UNCHANGED accounts
      BY <1>3, <1>4 DEF Create
    <2>2. PICK q : Plain(serving[h], q) /\ serving' = [serving EXCEPT ![h] = q]
      BY <1>1, <2>1, PlainReply DEF At, Answer
    <2>3. QED
      BY <1>2, <2>1, <2>2 DEF WorksPlainly
  <1>5. CASE ~(n = None \/ (n \in Name /\ accounts[n] # None))
    <2>1. n \in Name /\ accounts[n] = None
      BY <1>1, <1>3, <1>5, AuthAssumption
    <2>2. accounts' = [accounts EXCEPT ![n] = serving[h].who] /\ Go(h, "login")
      BY <1>3, <1>5 DEF Create
    <2>3. PICK q \in Requests :
            /\ Kept(serving[h], q) /\ q.pc = "login"
            /\ serving' = [serving EXCEPT ![h] = q]
      BY <2>2, GoMoves DEF Pc
    <2>4. Moves(serving[h], q)
      BY <1>1, <2>3 DEF Moves, Kept, WellFormed
    <2>5. QED
      BY <1>1, <1>2, <2>1, <2>2, <2>3, <2>4 DEF Joins, At
  <1>6. QED
    BY <1>4, <1>5

LEMMA ImageIsFinite ==
    ASSUME NEW S, IsFiniteSet(S), NEW f, f = [x \in S |-> f[x]]
    PROVE  IsFiniteSet({f[x] : x \in S})
  <1>1. f \in Surjection(S, {f[x] : x \in S})
    BY DEF Surjection
  <1>2. QED
    BY <1>1, FS_Surjection

\* There is a token that nobody has.
LEMMA FreshIsUnheld ==
    ASSUME TokensLast, TypeInv, IsFiniteSet(sessions),
           NEW k, k = Fresh({cookie[b] : b \in Browser})
    PROVE  k \in Token /\ Unheld(k)
  <1> DEFINE held == {cookie[b] : b \in Browser} \union {s.token : s \in sessions}
                       \union {serving[h].token : h \in Handler}
  <1>1. IsFiniteSet({cookie[b] : b \in Browser})
    <2>1. cookie = [b \in Browser |-> cookie[b]]
      BY DEF TypeInv
    <2>2. QED
      BY <2>1, ImageIsFinite DEF TokensLast
  <1>2. IsFiniteSet({s.token : s \in sessions})
    <2>1. PICK f : f = [s \in sessions |-> s.token]
      OBVIOUS
    <2>2. f = [s \in sessions |-> f[s]] /\ {f[s] : s \in sessions} = {s.token : s \in sessions}
      BY <2>1
    <2>3. QED
      BY <2>2, ImageIsFinite
  <1>3. IsFiniteSet({serving[h].token : h \in Handler})
    <2>1. PICK f : f = [h \in Handler |-> serving[h].token]
      OBVIOUS
    <2>2. f = [h \in Handler |-> f[h]] /\ {f[h] : h \in Handler} = {serving[h].token : h \in Handler}
      BY <2>1
    <2>3. IsFiniteSet(Handler)
      BY DEF TokensLast
    <2>4. IsFiniteSet({f[h] : h \in Handler})
      BY <2>2, <2>3, ImageIsFinite
    <2>5. QED
      BY <2>2, <2>4
  <1>4. IsFiniteSet(held)
    BY <1>1, <1>2, <1>3, FS_Union
  <1>5. \E x \in Token : x \notin held
    <2>1. SUFFICES ASSUME Token \subseteq held PROVE FALSE
      OBVIOUS
    <2>2. QED
      BY <1>4, <2>1, FS_Subset DEF TokensLast
  <1>6. k = CHOOSE x \in Token : x \notin held
    BY DEF Fresh
  <1>7. k \in Token /\ k \notin held
    BY <1>5, <1>6
  <1>8. QED
    BY <1>7 DEF Unheld

LEMMA LoginWorks ==
    ASSUME TokensLast, TypeInv, IsFiniteSet(sessions), NEW h \in Handler,
           Login(h, {cookie[b] : b \in Browser}), UNCHANGED pageVars
    PROVE  WorksPlainly(h) \/ Enters(h)
  <1>1. /\ serving[h].pc = "login" /\ serving[h].what \in {"setup", "login"}
        /\ WellFormed(serving[h]) /\ serving[h] \in Requests
    BY DEF TypeInv, Login, At, WellFormed
  <1>2. UNCHANGED <<accounts, now, typed, cookie, tab, saves, policy, children>>
    BY DEF Login, pageVars
  <1>3. CASE Known(serving[h])
    <2>1. PICK k : k = Fresh({cookie[b] : b \in Browser})
      OBVIOUS
    <2>2. k \in Token /\ Unheld(k)
      BY <2>1, FreshIsUnheld
    <2>3. PICK q : q = [serving[h] EXCEPT !.pc = "answer", !.answer = "ok", !.token = k]
      OBVIOUS
    <2>4. serving' = [serving EXCEPT ![h] = q]
      BY <1>3, <2>1, <2>3 DEF Login
    <2>5. sessions' = sessions \union
            {[token |-> k, name |-> serving[h].typed, expires |-> now + Lifetime]}
      BY <1>3, <2>1 DEF Login
    <2>6. /\ q \in Requests /\ q.pc = "answer" /\ q.answer = "ok" /\ q.token = k
          /\ q.what = serving[h].what /\ q.tab = serving[h].tab /\ q.who = serving[h].who
          /\ q.typed = serving[h].typed
      BY <1>1, <2>2, <2>3 DEF Requests, Pc, Answer
    <2>7. Moves(serving[h], q) /\ SignsIn(q)
      BY <1>1, <2>6 DEF Moves, WellFormed, SignsIn
    <2>8. serving[h].typed \in Name /\ accounts[serving[h].typed] = serving[h].who
      BY <1>3 DEF Known
    <2>9. QED
      BY <1>1, <1>2, <2>2, <2>4, <2>5, <2>6, <2>7, <2>8 DEF Enters, At
  <1>4. CASE ~Known(serving[h])
    <2>1. PICK a : a = IF serving[h].what = "setup" THEN "error" ELSE "unauthorized"
      OBVIOUS
    <2>2. Reply(h, a) /\ UNCHANGED sessions
      BY <1>4, <2>1 DEF Login
    <2>3. PICK q : Plain(serving[h], q) /\ serving' = [serving EXCEPT ![h] = q]
      BY <1>1, <2>1, <2>2, PlainReply DEF At, Answer
    <2>4. QED
      BY <1>2, <2>2, <2>3 DEF WorksPlainly
  <1>5. QED
    BY <1>3, <1>4

-------------------------------------------------------------------------------
(***************************************************************************)
(* What a tab does.                                                        *)
(***************************************************************************)

\* A tab that may send does not wait yet, and takes a goroutine that is idle.
LEMMA FreeIsIdle ==
    ASSUME TypeInv, NEW t \in Tab, NEW h \in Handler, h = Free(t)
    PROVE  At(h, "idle")
  <1>1. CASE At(t, "idle")
    BY <1>1 DEF Free
  <1>2. CASE ~At(t, "idle") /\ \E g \in Handler : At(g, "idle")
    <2>1. h = CHOOSE g \in Handler \union {None} : g # None /\ At(g, "idle")
      BY <1>2 DEF Free
    <2>2. \E g \in Handler \union {None} : g # None /\ At(g, "idle")
      BY <1>2, AuthAssumption
    <2>3. QED
      BY <2>1, <2>2
  <1>3. CASE ~At(t, "idle") /\ ~\E g \in Handler : At(g, "idle")
    <2>1. h = CHOOSE g \in Handler \union {None} : g = None
      BY <1>3 DEF Free
    <2>2. h = None
      BY <2>1
    <2>3. QED
      BY <2>2, AuthAssumption
  <1>4. QED
    BY <1>1, <1>2, <1>3

LEMMA SentRequest ==
    ASSUME TypeInv, NEW t \in Tab, NEW what \in Kind, NEW k \in Token \union {None},
           NEW body \in Body,
           what = "save" => /\ body \in Edits
                            /\ \A q \in Rule : q # body.rule => body.next[q] = body.base[q],
           NEW q, q = Request(t, what, tab[t].owner, typed[tab[t].owner], k, body)
    PROVE  Sent(t, q) /\ (Owes(q) => what = "child")
  <1>1. tab[t].owner \in Browser /\ typed[tab[t].owner] \in Typed
    BY DEF TypeInv, Shown
  <1>2. /\ q.pc = First(what, k) /\ q.what = what /\ q.tab = t /\ q.who = tab[t].owner
        /\ q.typed = typed[tab[t].owner] /\ q.token = k /\ q.body = body
        /\ q.early = (what = "setup" /\ ~HasUsers)
        /\ q.answer = IF what \in Gated THEN "unauthorized" ELSE "ok"
    BY DEF Request
  <1>3. q \in [pc : {First(what, k)}, what : {what}, tab : {t}, who : {tab[t].owner},
               typed : {typed[tab[t].owner]}, token : {k}, early : {what = "setup" /\ ~HasUsers},
               body : {body}, answer : {IF what \in Gated THEN "unauthorized" ELSE "ok"}]
    BY DEF Request
  <1>4. /\ First(what, k) \in Pc \ {"idle", "create", "act"}
        /\ First(what, k) = "who" => what \in {"root", "me"}
        /\ First(what, k) = "hasUsers" => what = "setup"
        /\ First(what, k) = "login" => what = "login"
        /\ First(what, k) = "delete" => what = "logout"
        /\ First(what, k) = "gate" => what \in Gated
        /\ First(what, k) = "answer" => what \in Gated \union {"logout"}
    BY DEF First, Pc, Kind, Gated
  <1>5. q \in Requests
    BY <1>1, <1>3, <1>4 DEF Requests, Answer
  <1>6. WellFormed(q)
    BY <1>1, <1>2, <1>4 DEF WellFormed, Gated
  <1>7. ~SignsIn(q) /\ (Owes(q) => what = "child")
    BY <1>2, <1>4 DEF SignsIn, Owes, Gated
  <1>8. q.pc = "hasUsers" => q.early \/ HasUsers
    BY <1>2, <1>4
  <1>9. QED
    BY <1>2, <1>4, <1>5, <1>6, <1>7, <1>8 DEF Sent

\* What Send does, whatever it sends.
LEMMA SendBegins ==
    ASSUME TypeInv, NEW t \in Tab, NEW h \in Handler, NEW what \in Kind \ {"child"}, NEW body \in Body,
           what = "save" => /\ body \in Edits
                            /\ \A q \in Rule : q # body.rule => body.next[q] = body.base[q],
           Send(t, h, what, body), saves' \in 0 .. MaxSaves,
           UNCHANGED <<accounts, sessions, now, typed, cookie, policy, children>>
    PROVE  Begins(t, h)
  <1>1. At(h, "idle")
    BY FreeIsIdle DEF Send
  <1>2. PICK k : k = cookie[tab[t].owner]
    OBVIOUS
  <1>3. PICK q : q = Request(t, what, tab[t].owner, typed[tab[t].owner], k, body)
    OBVIOUS
  <1>4. tab[t] \in Shown /\ tab[t].owner \in Browser /\ k \in Token \union {None}
    BY <1>2 DEF TypeInv, Shown
  <1>5. Sent(t, q) /\ ~Owes(q)
    BY <1>3, <1>4, SentRequest
  <1>6. serving' = [serving EXCEPT ![h] = q]
    BY <1>2, <1>3 DEF Send
  <1>7. PICK p : p = [tab[t] EXCEPT !.is = "waits", !.waits = h]
    OBVIOUS
  <1>8. tab' = [tab EXCEPT ![t] = p]
    BY <1>7 DEF Send
  <1>9. p \in Shown /\ p.owner = tab[t].owner /\ p.is = "waits" /\ p.waits = h
    BY <1>4, <1>7 DEF Shown, Status
  <1>10. QED
    BY <1>1, <1>5, <1>6, <1>8, <1>9 DEF Begins

LEMMA OpenBegins ==
    ASSUME TypeInv, NEW t \in Tab, NEW h \in Handler, Open(t, h)
    PROVE  Begins(t, h)
  <1>1. PICK what : what = IF Shows(t, "root") THEN "root" ELSE "me"
    OBVIOUS
  <1>2. what \in Kind \ {"child"} /\ what # "save" /\ None \in Body
    BY <1>1 DEF Kind, Gated, Body
  <1>3. Send(t, h, what, None) /\ saves' \in 0 .. MaxSaves
    BY <1>1 DEF Open, TypeInv
  <1>4. UNCHANGED <<accounts, sessions, now, typed, cookie, policy, children>>
    BY DEF Open
  <1>5. QED
    BY <1>2, <1>3, <1>4, SendBegins

LEMMA SubmitBegins ==
    ASSUME TypeInv, NEW t \in Tab, NEW h \in Handler, Submit(t, h)
    PROVE  Begins(t, h)
  <1>1. PICK what : what = IF Shows(t, "login") THEN "login" ELSE "setup"
    OBVIOUS
  <1>2. what \in Kind \ {"child"} /\ what # "save" /\ None \in Body
    BY <1>1 DEF Kind, Gated, Body
  <1>3. Send(t, h, what, None) /\ saves' \in 0 .. MaxSaves
    BY <1>1 DEF Submit, TypeInv
  <1>4. UNCHANGED <<accounts, sessions, now, typed, cookie, policy, children>>
    BY DEF Submit
  <1>5. QED
    BY <1>2, <1>3, <1>4, SendBegins

LEMMA SignOutBegins ==
    ASSUME TypeInv, NEW t \in Tab, NEW h \in Handler, SignOut(t, h)
    PROVE  Begins(t, h)
  <1>1. "logout" \in Kind \ {"child"} /\ None \in Body
    BY DEF Kind, Gated, Body
  <1>2. Send(t, h, "logout", None) /\ saves' \in 0 .. MaxSaves
    BY DEF SignOut, TypeInv
  <1>3. UNCHANGED <<accounts, sessions, now, typed, cookie, policy, children>>
    BY DEF SignOut
  <1>4. QED
    BY <1>1, <1>2, <1>3, SendBegins

\* What a page saves differs from what it loaded in its own rule only.
LEMMA SaveBegins ==
    ASSUME TypeInv, NEW t \in Tab, NEW h \in Handler, Save(t, h)
    PROVE  Begins(t, h)
  <1>1. PICK r, copy, edit : r = tab[t].page /\ copy = tab[t].copy /\ edit = saves'
    OBVIOUS
  <1>2. r \in Rule /\ copy \in Policy /\ edit \in 0 .. MaxSaves
    BY <1>1, DashboardAssumption DEF Save, TypeInv, Shown
  <1>3. PICK next : next = Edited(copy, r, edit)
    OBVIOUS
  <1>4. next \in Policy /\ \A q \in Rule : q # r => next[q] = copy[q]
    BY <1>2, <1>3 DEF Edited, Policy
  <1>5. PICK body : body = [rule |-> r, base |-> copy, next |-> next]
    OBVIOUS
  <1>6. /\ body \in Edits /\ body \in Body
        /\ \A q \in Rule : q # body.rule => body.next[q] = body.base[q]
    BY <1>2, <1>4, <1>5 DEF Edits, Body
  <1>7. Send(t, h, "save", body)
    BY <1>1, <1>3, <1>5 DEF Save
  <1>8. "save" \in Kind \ {"child"} /\ saves' \in 0 .. MaxSaves
    BY <1>1, <1>2 DEF Kind, Gated
  <1>9. UNCHANGED <<accounts, sessions, now, typed, cookie, policy, children>>
    BY DEF Save
  <1>10. QED
    BY <1>6, <1>7, <1>8, <1>9, SendBegins

LEMMA GoesToPages ==
    ASSUME NEW here \in Shown, NEW r \in Requests, WellFormed(r), r.pc = "answer"
    PROVE  /\ \A page \in Goes(here, r) : page \in Page
           /\ NextAfter(here.page, r) \in Page
           /\ Left(here.page, r) \in Status \ {"waits"}
  <1>1. here.page \in Page /\ here.next \in Page /\ "login" \in Page /\ "first-run" \in Page /\ "home" \in Page
    BY DEF Shown, Page
  <1>2. r.what = "root" => r.answer \in Page
    BY DEF WellFormed
  <1>3. \A page \in Goes(here, r) : page \in Page
    BY <1>1, <1>2 DEF Goes
  <1>4. NextAfter(here.page, r) \in Page
    BY <1>1 DEF NextAfter
  <1>5. Left(here.page, r) \in Status \ {"waits"}
    BY DEF Left, Status
  <1>6. QED
    BY <1>3, <1>4, <1>5

LEMMA BlankPage ==
    ASSUME NEW owner \in Browser, NEW page \in Page, NEW next \in Page, NEW p,
           p = Blank(owner, page, next)
    PROVE  p \in Shown /\ p.owner = owner /\ p.is = "blank" /\ p.waits = None
  <1>1. Unset \in Policy
    BY DashboardAssumption DEF Unset, Policy
  <1>2. QED
    BY <1>1 DEF Blank, Shown, Status

LEMMA DeliverAnswers ==
    ASSUME TypeInv, NEW t \in Tab, NEW h \in Handler, Deliver(t, h)
    PROVE  Answers(t, h)
  <1>1. PICK r, b, here : r = serving[h] /\ b = tab[t].owner /\ here = tab[t]
    OBVIOUS
  <1>2. /\ r \in Requests /\ WellFormed(r) /\ r.pc = "answer"
        /\ here \in Shown /\ b \in Browser /\ b = here.owner
    BY <1>1 DEF TypeInv, Deliver, At, Shown
  <1>3. At(h, "answer") /\ tab[t].waits = h
    BY DEF Deliver
  <1>4. UNCHANGED <<accounts, sessions, now, typed, policy, children, saves>>
    BY DEF Deliver
  <1>5. PICK c : c = NewCookie(b, r)
    OBVIOUS
  <1>6. cookie' = [cookie EXCEPT ![b] = c]
    BY <1>1, <1>5 DEF Deliver
  <1>7. c \in {None, cookie[b]} \union {k \in Token : SignsIn(serving[h]) /\ k = serving[h].token}
    <2>1. c = None \/ c = cookie[b] \/ (SignsIn(r) /\ c = r.token)
      BY <1>2, <1>5 DEF NewCookie, SignsIn
    <2>2. r.token \in Token \union {None}
      BY <1>2 DEF Requests
    <2>3. QED
      BY <1>1, <2>1, <2>2
  <1>8. c \in Token \union {None} /\ cookie'[b] = c
    <2>1. cookie[b] \in Token \union {None} /\ cookie \in [Browser -> Token \union {None}]
      BY <1>2 DEF TypeInv
    <2>2. QED
      BY <1>2, <1>6, <1>7, <2>1
  <1>9. ASSUME NEW page \in Goes(here, r),
               Show(t, page, IF page = "login" THEN NextAfter(here.page, r) ELSE "home"),
               serving' = [serving EXCEPT ![h] = Idle]
        PROVE  \E p \in Shown :
                 /\ p.owner = tab[t].owner /\ p.is # "waits" /\ p.waits = None
                 /\ tab' = [tab EXCEPT ![t] = p]
    <2>1. PICK next : next = IF page = "login" THEN NextAfter(here.page, r) ELSE "home"
      OBVIOUS
    <2>2. page \in Page /\ next \in Page
      BY <1>2, <2>1, GoesToPages DEF Page
    <2>3. PICK p : p = Blank(b, page, next)
      OBVIOUS
    <2>4. p \in Shown /\ p.owner = b /\ p.is # "waits" /\ p.waits = None
      BY <1>2, <2>2, <2>3, BlankPage
    <2>5. tab' = [tab EXCEPT ![t] = p]
      BY <1>1, <1>9, <2>1, <2>3 DEF Show
    <2>6. QED
      BY <1>1, <2>4, <2>5
  <1>10. ASSUME NEW more, more = GoesOnWith(here.page, r), more # None,
                serving' = [serving EXCEPT ![h] = Request(t, more, b, typed[b], cookie'[b], None)]
         PROVE  \E q : /\ Sent(t, q) /\ (Owes(q) => Owes(serving[h]))
                       /\ serving' = [serving EXCEPT ![h] = q]
    <2>1. more \in {"child", "load"} /\ (more = "child" => Owes(r))
      BY <1>2, <1>10 DEF GoesOnWith, Owes
    <2>2. PICK q : q = Request(t, more, b, typed[b], c, None)
      OBVIOUS
    <2>3. serving' = [serving EXCEPT ![h] = q]
      BY <1>8, <1>10, <2>2
    <2>4. more \in Kind /\ None \in Body /\ more # "save"
      BY <2>1 DEF Kind, Gated, Body
    <2>5. Sent(t, q) /\ (Owes(q) => more = "child")
      BY <1>1, <1>8, <2>2, <2>4, SentRequest
    <2>6. QED
      BY <1>1, <2>1, <2>3, <2>5
  <1>11. ASSUME serving' = [serving EXCEPT ![h] = Idle],
                tab' = [tab EXCEPT ![t].is = Left(here.page, r), ![t].waits = None,
                          ![t].copy = IF r.what = "load" /\ r.answer = "ok" THEN r.body ELSE @]
         PROVE  \E p \in Shown :
                  /\ p.owner = tab[t].owner /\ p.is # "waits" /\ p.waits = None
                  /\ tab' = [tab EXCEPT ![t] = p]
    <2>1. PICK p : p = [tab[t] EXCEPT !.is = Left(here.page, r), !.waits = None,
                          !.copy = IF r.what = "load" /\ r.answer = "ok" THEN r.body ELSE @]
      OBVIOUS
    <2>2. tab' = [tab EXCEPT ![t] = p]
      BY <1>11, <2>1
    <2>3. Left(here.page, r) \in Status \ {"waits"}
      BY <1>2, GoesToPages
    <2>4. r.what = "load" /\ r.answer = "ok" => r.body \in Policy
      BY <1>2 DEF WellFormed
    <2>5. p \in Shown /\ p.owner = tab[t].owner /\ p.is # "waits" /\ p.waits = None
      BY <1>1, <1>2, <2>1, <2>3, <2>4 DEF Shown
    <2>6. QED
      BY <2>2, <2>5
  <1>12. \/ \E page \in Goes(here, r) :
              /\ Show(t, page, IF page = "login" THEN NextAfter(here.page, r) ELSE "home")
              /\ serving' = [serving EXCEPT ![h] = Idle]
         \/ /\ GoesOnWith(here.page, r) # None
            /\ serving' = [serving EXCEPT
                 ![h] = Request(t, GoesOnWith(here.page, r), b, typed[b], cookie'[b], None)]
            /\ UNCHANGED tab
         \/ /\ serving' = [serving EXCEPT ![h] = Idle]
            /\ tab' = [tab EXCEPT ![t].is = Left(here.page, r), ![t].waits = None,
                         ![t].copy = IF r.what = "load" /\ r.answer = "ok" THEN r.body ELSE @]
    BY <1>1 DEF Deliver
  <1>13. QED
    BY <1>1, <1>3, <1>4, <1>6, <1>7, <1>9, <1>10, <1>11, <1>12 DEF Answers

-------------------------------------------------------------------------------
(***************************************************************************)
(* What ends without an answer.                                            *)
(***************************************************************************)

LEMMA IdleIsFine == Idle \in Requests /\ WellFormed(Idle) /\ ~SignsIn(Idle) /\ ~Owes(Idle) /\ Idle.pc = "idle"
  BY DEF Idle, Requests, Pc, Kind, Gated, Body, Answer, WellFormed, SignsIn, Owes

LEMMA StutterEnds ==
    ASSUME TypeInv, WaitInv,
           UNCHANGED <<accounts, sessions, serving, typed, cookie, tab, policy, children, saves>>,
           now' \in 0 .. MaxNow
    PROVE  Ends
  BY DEF Ends, TypeInv, WaitInv, Is

LEMMA TickEnds ==
    ASSUME TypeInv, WaitInv, Tick, UNCHANGED <<typed, cookie, tab, policy, children, saves>>
    PROVE  Ends
  <1>1. now' \in 0 .. MaxNow
    BY AuthAssumption DEF Tick, TypeInv
  <1>2. QED
    BY <1>1, StutterEnds DEF Tick

LEMMA DiscardEnds ==
    ASSUME TypeInv, WaitInv, NEW h \in Handler, Discard(h)
    PROVE  Ends
  <1>1. serving' = [serving EXCEPT ![h] = Idle] /\ \A t \in Tab : tab[t].waits # h
    BY DEF Discard, Unwanted
  <1>2. UNCHANGED <<accounts, sessions, now, typed, cookie, tab, policy, children, saves>>
    BY DEF Discard, pageVars
  <1>3. \A t \in Tab : tab[t].waits \in Handler \union {None}
    BY DEF TypeInv, Shown
  <1>4. serving' \in [Handler -> Requests] /\ \A g \in Handler : serving'[g] \in {serving[g], Idle}
    BY <1>1, IdleIsFine DEF TypeInv
  <1>5. ASSUME NEW t \in Tab, tab'[t].waits # None
        PROVE  tab'[t].waits = tab[t].waits /\ serving'[tab[t].waits] = serving[tab[t].waits]
    BY <1>1, <1>2, <1>3, <1>5 DEF TypeInv
  <1>6. QED
    BY <1>2, <1>4, <1>5 DEF Ends, TypeInv, WaitInv, Is

\* A page is left, its request runs on, or ends.
LEMMA LeavingEnds ==
    ASSUME TypeInv, WaitInv, NEW t \in Tab, NEW p \in Shown, p.owner = tab[t].owner,
           p.is # "waits", p.waits = None, tab' = [tab EXCEPT ![t] = p],
           serving' \in {serving} \union
             {[serving EXCEPT ![h] = Idle] : h \in {g \in Handler : g = tab[t].waits}},
           UNCHANGED <<accounts, sessions, now, typed, cookie, policy, children, saves>>
    PROVE  Ends
  <1>1. serving' \in [Handler -> Requests] /\ \A g \in Handler : serving'[g] \in {serving[g], Idle}
    BY IdleIsFine DEF TypeInv
  <1>2. tab' \in [Tab -> Shown] /\ tab'[t] = p /\ \A u \in Tab : u # t => tab'[u] = tab[u]
    BY DEF TypeInv
  <1>3. \A u \in Tab : tab[u].waits \in Handler \union {None}
    BY DEF TypeInv, Shown
  <1>4. ASSUME NEW u \in Tab, u # t, tab[u].waits # None
        PROVE  serving'[tab[u].waits] = serving[tab[u].waits]
    <2>1. tab[u].waits \in Handler /\ serving[tab[u].waits].tab = u
      BY <1>3, <1>4 DEF WaitInv
    <2>2. tab[t].waits # None => serving[tab[t].waits].tab = t
      BY DEF WaitInv
    <2>3. tab[u].waits # tab[t].waits
      BY <1>4, <2>1, <2>2
    <2>4. QED
      BY <2>1, <2>3 DEF TypeInv
  <1>5. ASSUME NEW u \in Tab
        PROVE  /\ tab'[u].owner = tab[u].owner
               /\ tab'[u].is = "waits" <=> tab'[u].waits # None
               /\ tab'[u].waits # None =>
                    tab'[u].waits = tab[u].waits /\ serving'[tab[u].waits] = serving[tab[u].waits]
    <2>1. CASE u = t
      BY <1>2, <2>1
    <2>2. CASE u # t
      BY <1>2, <1>4, <2>2 DEF WaitInv, Is
    <2>3. QED
      BY <2>1, <2>2
  <1>6. QED
    BY <1>1, <1>2, <1>5 DEF Ends, TypeInv

LEMMA AbandonEnds ==
    ASSUME TypeInv, WaitInv, NEW t \in Tab, Abandon(t)
    PROVE  serving' \in {serving} \union
             {[serving EXCEPT ![h] = Idle] : h \in {g \in Handler : g = tab[t].waits}}
  <1>1. Is(t, "waits") => tab[t].waits \in Handler
    BY DEF TypeInv, WaitInv, Shown
  <1>2. QED
    BY <1>1 DEF Abandon

LEMMA StartOverEnds ==
    ASSUME TypeInv, WaitInv, NEW t \in Tab, StartOver(t)
    PROVE  Ends
  <1>1. PICK p : p = Blank(tab[t].owner, "root", "home")
    OBVIOUS
  <1>2. p \in Shown /\ p.owner = tab[t].owner /\ p.is # "waits" /\ p.waits = None
    BY <1>1, BlankPage DEF TypeInv, Shown, Page
  <1>3. tab' = [tab EXCEPT ![t] = p]
    BY <1>1 DEF StartOver, Show
  <1>4. UNCHANGED <<accounts, sessions, serving, now, typed, cookie, policy, children, saves>>
    BY DEF StartOver
  <1>5. QED
    BY <1>2, <1>3, <1>4, LeavingEnds

LEMMA VisitEnds ==
    ASSUME TypeInv, WaitInv, NEW t \in Tab, NEW page \in Visited, Visit(t, page)
    PROVE  Ends
  <1>1. PICK p : p = Blank(tab[t].owner, page, "home")
    OBVIOUS
  <1>2. p \in Shown /\ p.owner = tab[t].owner /\ p.is # "waits" /\ p.waits = None
    BY <1>1, BlankPage, DashboardAssumption DEF TypeInv, Shown, Page
  <1>3. tab' = [tab EXCEPT ![t] = p]
    BY <1>1 DEF Visit, Show
  <1>4. UNCHANGED <<accounts, sessions, now, typed, cookie, policy, children, saves>>
    BY DEF Visit
  <1>5. QED
    BY <1>2, <1>3, <1>4, AbandonEnds, LeavingEnds DEF Visit

LEMMA CutPage ==
    ASSUME TypeInv, NEW t \in Tab, NEW p, p = Cut(t)
    PROVE  p \in Shown /\ p.owner = tab[t].owner /\ p.is # "waits" /\ p.waits = None
  <1>1. tab[t] \in Shown /\ tab[t].owner \in Browser
    BY DEF TypeInv, Shown
  <1>2. CASE serving[tab[t].waits].what = "logout"
    BY <1>1, <1>2, BlankPage DEF Cut, Page
  <1>3. CASE serving[tab[t].waits].what # "logout"
    <2>1. PICK is : is = IF serving[tab[t].waits].what = "save" THEN "ready" ELSE "refused"
      OBVIOUS
    <2>2. p = [tab[t] EXCEPT !.is = is, !.waits = None]
      BY <1>3, <2>1 DEF Cut
    <2>3. is \in Status /\ is # "waits"
      BY <2>1 DEF Status
    <2>4. QED
      BY <1>1, <2>2, <2>3 DEF Shown
  <1>4. QED
    BY <1>2, <1>3

LEMMA LoseAnswerEnds ==
    ASSUME TypeInv, WaitInv, NEW t \in Tab, LoseAnswer(t)
    PROVE  Ends
  <1>1. PICK p : p = Cut(t)
    OBVIOUS
  <1>2. p \in Shown /\ p.owner = tab[t].owner /\ p.is # "waits" /\ p.waits = None
    BY <1>1, CutPage
  <1>3. tab' = [tab EXCEPT ![t] = p]
    BY <1>1 DEF LoseAnswer
  <1>4. UNCHANGED <<accounts, sessions, now, typed, cookie, policy, children, saves>>
    BY DEF LoseAnswer
  <1>5. QED
    BY <1>2, <1>3, <1>4, AbandonEnds, LeavingEnds DEF LoseAnswer

LEMMA RestartEnds ==
    ASSUME TypeInv, WaitInv, Restart
    PROVE  Ends
  <1>1. serving' = [h \in Handler |-> Idle]
    BY DEF Restart
  <1>2. tab' = [t \in Tab |-> IF Is(t, "waits") THEN Cut(t) ELSE tab[t]]
    BY DEF Restart
  <1>3. sessions' \subseteq sessions
    BY DEF Restart, PurgeExpired
  <1>4. UNCHANGED <<accounts, now, typed, cookie, policy, children, saves>>
    BY DEF Restart
  <1>5. ASSUME NEW t \in Tab
        PROVE  /\ tab'[t] \in Shown /\ tab'[t].owner = tab[t].owner
               /\ tab'[t].is # "waits" /\ tab'[t].waits = None
    <2>1. CASE Is(t, "waits")
      BY <1>2, <2>1, CutPage
    <2>2. CASE ~Is(t, "waits")
      BY <1>2, <2>2 DEF TypeInv, WaitInv, Is
    <2>3. QED
      BY <2>1, <2>2
  <1>6. tab' \in [Tab -> Shown]
    BY <1>2, <1>5
  <1>7. serving' \in [Handler -> Requests] /\ \A g \in Handler : serving'[g] \in {serving[g], Idle}
    BY <1>1, IdleIsFine
  <1>8. QED
    BY <1>3, <1>4, <1>5, <1>6, <1>7 DEF Ends, TypeInv

-------------------------------------------------------------------------------
(***************************************************************************)
(* Every step is of one of these kinds.                                    *)
(***************************************************************************)

StepKinds ==
    \/ Ends
    \/ \E h \in Handler : WorksPlainly(h) \/ Passes(h) \/ Joins(h) \/ Enters(h)
    \/ \E t \in Tab, h \in Handler : Begins(t, h) \/ Answers(t, h)

LEMMA StepsAreOfAKind ==
    ASSUME TokensLast, TypeInv, WaitInv, OwnInv, [Next]_vars
    PROVE  StepKinds
  <1>1. ASSUME NEW h \in Handler, Serve(h)
        PROVE  StepKinds
    <2>1. CASE AuthStep(h, {cookie[b] : b \in Browser}) /\ UNCHANGED pageVars
      <3>1. CASE Gate(h)
        BY <2>1, <3>1, GateIsPlain DEF StepKinds
      <3>2. CASE Who(h)
        BY <2>1, <3>2, WhoIsPlain DEF StepKinds
      <3>3. CASE CountUsers(h)
        BY <2>1, <3>3, CountWorks DEF StepKinds
      <3>4. CASE Create(h)
        BY <2>1, <3>4, CreateWorks DEF StepKinds
      <3>5. CASE Login(h, {cookie[b] : b \in Browser})
        BY <2>1, <3>5, LoginWorks DEF StepKinds, OwnInv
      <3>6. CASE Logout(h)
        BY <2>1, <3>6, LogoutIsPlain DEF StepKinds
      <3>7. QED
        BY <2>1, <3>1, <3>2, <3>3, <3>4, <3>5, <3>6 DEF AuthStep
    <2>2. CASE Act(h)
      BY <2>2, ActIsPlain DEF StepKinds
    <2>3. CASE Discard(h)
      BY <2>3, DiscardEnds DEF StepKinds
    <2>4. ASSUME NEW t \in Tab, Deliver(t, h)
          PROVE  StepKinds
      BY <2>4, DeliverAnswers DEF StepKinds
    <2>5. QED
      BY <1>1, <2>1, <2>2, <2>3, <2>4 DEF Serve
  <1>2. ASSUME NEW h \in Handler, Fail(h)
        PROVE  StepKinds
    <2>1. UNCHANGED <<typed, cookie, tab, saves>>
      BY <1>2 DEF Fail
    <2>2. CASE StatementFails(h) /\ UNCHANGED <<policy, children>>
      BY <2>1, <2>2, FailureIsPlain DEF StepKinds
    <2>3. CASE ActFails(h)
      BY <2>1, <2>3, ActFailureIsPlain DEF StepKinds
    <2>4. QED
      BY <1>2, <2>2, <2>3 DEF Fail
  <1>3. ASSUME NEW h \in Handler, NEW t \in Tab,
               Open(t, h) \/ Submit(t, h) \/ Save(t, h) \/ SignOut(t, h)
        PROVE  StepKinds
    BY <1>3, OpenBegins, SubmitBegins, SaveBegins, SignOutBegins DEF StepKinds
  <1>4. ASSUME NEW t \in Tab, StartOver(t) \/ LoseAnswer(t) \/ \E page \in Visited : Visit(t, page)
        PROVE  StepKinds
    BY <1>4, StartOverEnds, LoseAnswerEnds, VisitEnds DEF StepKinds
  <1>5. CASE Restart
    BY <1>5, RestartEnds DEF StepKinds
  <1>6. CASE Tick /\ Trouble /\ UNCHANGED <<typed, cookie, tab, policy, children, saves>>
    BY <1>6, TickEnds DEF StepKinds
  <1>7. CASE UNCHANGED vars
    <2>1. UNCHANGED <<accounts, sessions, serving, now, typed, cookie, tab, policy, children, saves>>
      BY <1>7 DEF vars
    <2>2. QED
      BY <2>1, StutterEnds DEF StepKinds, TypeInv
  <1>8. QED
    BY <1>1, <1>2, <1>3, <1>4, <1>5, <1>6, <1>7 DEF Next

-------------------------------------------------------------------------------
(***************************************************************************)
(* Types, and who waits for what.                                          *)
(***************************************************************************)

LEMMA TypeStep ==
    ASSUME TypeInv, StepKinds
    PROVE  TypeInv'
  <1>1. CASE Ends
    BY <1>1, IdleIsFine DEF Ends, TypeInv
  <1>2. ASSUME NEW h \in Handler, WorksPlainly(h)
        PROVE  TypeInv'
    <2>1. PICK q : q \in Requests /\ WellFormed(q) /\ serving' = [serving EXCEPT ![h] = q]
      BY <1>2 DEF WorksPlainly, Plain, Moves
    <2>2. serving' \in [Handler -> Requests] /\ \A g \in Handler : WellFormed(serving'[g])
      BY <2>1 DEF TypeInv
    <2>3. policy' \in Policy /\ children' \in Nat
      <3>1. At(h, "act") /\ serving[h].what = "save" => serving[h].body \in Edits
        BY DEF TypeInv, At, WellFormed
      <3>2. QED
        BY <1>2, <3>1 DEF WorksPlainly, TypeInv, Edits
    <2>4. sessions' \in SUBSET Session
      BY <1>2 DEF WorksPlainly, TypeInv
    <2>5. QED
      BY <1>2, <2>2, <2>3, <2>4 DEF WorksPlainly, TypeInv
  <1>3. ASSUME NEW h \in Handler, Passes(h)
        PROVE  TypeInv'
    <2>1. PICK q : q \in Requests /\ WellFormed(q) /\ serving' = [serving EXCEPT ![h] = q]
      BY <1>3 DEF Passes, Moves
    <2>2. serving' \in [Handler -> Requests] /\ \A g \in Handler : WellFormed(serving'[g])
      BY <2>1 DEF TypeInv
    <2>3. QED
      BY <1>3, <2>2 DEF Passes, TypeInv
  <1>4. ASSUME NEW h \in Handler, Joins(h)
        PROVE  TypeInv'
    <2>1. PICK q : q \in Requests /\ WellFormed(q) /\ serving' = [serving EXCEPT ![h] = q]
      BY <1>4 DEF Joins, Moves
    <2>2. serving' \in [Handler -> Requests] /\ \A g \in Handler : WellFormed(serving'[g])
      BY <2>1 DEF TypeInv
    <2>3. serving[h].who \in Browser
      BY <1>4 DEF Joins, At, TypeInv, WellFormed
    <2>4. accounts' \in [Name -> Browser \union {None}]
      BY <1>4, <2>3 DEF Joins, TypeInv
    <2>5. QED
      BY <1>4, <2>2, <2>4 DEF Joins, TypeInv
  <1>5. ASSUME NEW h \in Handler, Enters(h)
        PROVE  TypeInv'
    <2>1. PICK q : q \in Requests /\ WellFormed(q) /\ serving' = [serving EXCEPT ![h] = q]
      BY <1>5 DEF Enters, Moves
    <2>2. serving' \in [Handler -> Requests] /\ \A g \in Handler : WellFormed(serving'[g])
      BY <2>1 DEF TypeInv
    <2>3. now + Lifetime \in 1 .. (MaxNow + Lifetime)
      BY AuthAssumption DEF TypeInv
    <2>4. sessions' \in SUBSET Session
      BY <1>5, <2>3 DEF Enters, TypeInv, Session
    <2>5. QED
      BY <1>5, <2>2, <2>4 DEF Enters, TypeInv
  <1>6. ASSUME NEW t \in Tab, NEW h \in Handler, Begins(t, h)
        PROVE  TypeInv'
    <2>1. PICK q : q \in Requests /\ WellFormed(q) /\ serving' = [serving EXCEPT ![h] = q]
      BY <1>6 DEF Begins, Sent
    <2>2. serving' \in [Handler -> Requests] /\ \A g \in Handler : WellFormed(serving'[g])
      BY <2>1 DEF TypeInv
    <2>3. tab' \in [Tab -> Shown]
      BY <1>6 DEF Begins, TypeInv
    <2>4. QED
      BY <1>6, <2>2, <2>3 DEF Begins, TypeInv
  <1>7. ASSUME NEW t \in Tab, NEW h \in Handler, Answers(t, h)
        PROVE  TypeInv'
    <2>1. PICK q : q \in Requests /\ WellFormed(q) /\ serving' = [serving EXCEPT ![h] = q]
      BY <1>7, IdleIsFine DEF Answers, Sent
    <2>2. serving' \in [Handler -> Requests] /\ \A g \in Handler : WellFormed(serving'[g])
      BY <2>1 DEF TypeInv
    <2>3. tab' \in [Tab -> Shown]
      BY <1>7 DEF Answers, TypeInv
    <2>4. cookie' \in [Browser -> Token \union {None}]
      BY <1>7 DEF Answers, TypeInv, Shown
    <2>5. QED
      BY <1>7, <2>2, <2>3, <2>4 DEF Answers, TypeInv
  <1>8. QED
    BY <1>1, <1>2, <1>3, <1>4, <1>5, <1>6, <1>7 DEF StepKinds

\* A request that moves on keeps its tab and its parent.
LEMMA WaitWhileWorking ==
    ASSUME TypeInv, WaitInv, NEW h \in Handler, NEW q, Moves(serving[h], q),
           serving' = [serving EXCEPT ![h] = q], UNCHANGED tab
    PROVE  WaitInv'
  <1>1. \A t \in Tab : tab[t].waits \in Handler \union {None} /\ tab[t] \in Shown
    BY DEF TypeInv, Shown
  <1>2. \A g \in Handler : /\ serving'[g].tab = serving[g].tab /\ serving'[g].who = serving[g].who
                           /\ serving'[g].pc = "idle" <=> serving[g].pc = "idle"
    BY DEF TypeInv, Moves
  <1>3. QED
    BY <1>1, <1>2 DEF WaitInv, Is, At

LEMMA WaitStep ==
    ASSUME TypeInv, WaitInv, StepKinds
    PROVE  WaitInv'
  <1>1. CASE Ends
    <2>1. \A g \in Handler : serving'[g] = serving[g] \/ serving'[g].pc = "idle"
      BY <1>1, IdleIsFine DEF Ends
    <2>2. ASSUME NEW g \in Handler, serving'[g].pc # "idle"
          PROVE  serving'[g].who = tab'[serving'[g].tab].owner
      <3>1. serving'[g] = serving[g]
        BY <2>1, <2>2
      <3>2. serving[g].tab \in Tab /\ serving[g].who = tab[serving[g].tab].owner
        BY <2>2, <3>1 DEF TypeInv, WaitInv, WellFormed, At
      <3>3. tab'[serving[g].tab].owner = tab[serving[g].tab].owner
        BY <1>1, <3>2 DEF Ends
      <3>4. QED
        BY <3>1, <3>2, <3>3
    <2>3. ASSUME NEW t \in Tab, tab'[t].waits # None
          PROVE  serving'[tab'[t].waits].pc # "idle" /\ serving'[tab'[t].waits].tab = t
      BY <1>1, <2>3 DEF Ends, WaitInv, At
    <2>4. QED
      BY <1>1, <2>2, <2>3 DEF Ends, WaitInv, Is, At
  <1>2. ASSUME NEW h \in Handler, WorksPlainly(h) \/ Passes(h) \/ Joins(h) \/ Enters(h)
        PROVE  WaitInv'
    <2>1. PICK q : Moves(serving[h], q) /\ serving' = [serving EXCEPT ![h] = q]
      BY <1>2 DEF WorksPlainly, Plain, Passes, Joins, Enters
    <2>2. UNCHANGED tab
      BY <1>2 DEF WorksPlainly, Passes, Joins, Enters
    <2>3. QED
      BY <2>1, <2>2, WaitWhileWorking
  <1>3. ASSUME NEW t \in Tab, NEW h \in Handler, Begins(t, h)
        PROVE  WaitInv'
    <2>1. PICK q : Sent(t, q) /\ serving' = [serving EXCEPT ![h] = q]
      BY <1>3 DEF Begins
    <2>2. PICK p \in Shown : /\ p.owner = tab[t].owner /\ p.is = "waits" /\ p.waits = h
                             /\ tab' = [tab EXCEPT ![t] = p]
      BY <1>3 DEF Begins
    <2>3. /\ serving'[h] = q /\ \A g \in Handler : g # h => serving'[g] = serving[g]
          /\ tab'[t] = p /\ \A u \in Tab : u # t => tab'[u] = tab[u]
      BY <2>1, <2>2 DEF TypeInv
    <2>4. q.pc # "idle" /\ q.tab = t /\ q.who = tab[t].owner /\ h # None
      BY <2>1, AuthAssumption DEF Sent
    <2>5. \A u \in Tab : tab'[u].owner = tab[u].owner
      BY <2>2, <2>3
    <2>6. ASSUME NEW g \in Handler, serving'[g].pc # "idle"
          PROVE  serving'[g].who = tab'[serving'[g].tab].owner
      <3>1. CASE g = h
        BY <2>3, <2>4, <2>5, <3>1
      <3>2. CASE g # h
        <4>1. serving[g].tab \in Tab /\ serving[g].who = tab[serving[g].tab].owner
          BY <2>3, <2>6, <3>2 DEF TypeInv, WaitInv, WellFormed, At
        <4>2. QED
          BY <2>3, <2>5, <3>2, <4>1
      <3>3. QED
        BY <3>1, <3>2
    <2>7. ASSUME NEW u \in Tab
          PROVE  /\ tab'[u].is = "waits" <=> tab'[u].waits # None
                 /\ tab'[u].waits # None =>
                      serving'[tab'[u].waits].pc # "idle" /\ serving'[tab'[u].waits].tab = u
      <3>1. CASE u = t
        BY <2>2, <2>3, <2>4, <3>1
      <3>2. CASE u # t
        <4>1. tab[u].waits \in Handler \union {None}
          BY DEF TypeInv, Shown
        <4>2. tab[u].waits # h
          BY <1>3, AuthAssumption DEF Begins, At, WaitInv
        <4>3. QED
          BY <2>3, <3>2, <4>1, <4>2 DEF WaitInv, Is, At
      <3>3. QED
        BY <3>1, <3>2
    <2>8. QED
      BY <2>6, <2>7 DEF WaitInv, Is, At
  <1>4. ASSUME NEW t \in Tab, NEW h \in Handler, Answers(t, h)
        PROVE  WaitInv'
    <2>1. serving[h].pc = "answer" /\ tab[t].waits = h /\ h # None /\ serving[h].tab = t
      BY <1>4, AuthAssumption DEF Answers, At, WaitInv
    <2>2. CASE /\ \E q : Sent(t, q) /\ serving' = [serving EXCEPT ![h] = q]
               /\ UNCHANGED tab
      <3>1. PICK q : Sent(t, q) /\ serving' = [serving EXCEPT ![h] = q]
        BY <2>2
      <3>2. serving[h].who = tab[t].owner
        BY <2>1 DEF WaitInv, At
      <3>3. Moves(serving[h], q)
        BY <2>1, <3>1, <3>2 DEF Sent, Moves
      <3>4. QED
        BY <2>2, <3>1, <3>3, WaitWhileWorking
    <2>3. CASE /\ serving' = [serving EXCEPT ![h] = Idle]
               /\ \E p \in Shown :
                    /\ p.owner = tab[t].owner /\ p.is # "waits" /\ p.waits = None
                    /\ tab' = [tab EXCEPT ![t] = p]
      <3>1. PICK p \in Shown : /\ p.owner = tab[t].owner /\ p.is # "waits" /\ p.waits = None
                               /\ tab' = [tab EXCEPT ![t] = p]
        BY <2>3
      <3>2. /\ serving'[h] = Idle /\ \A g \in Handler : g # h => serving'[g] = serving[g]
            /\ tab'[t] = p /\ \A u \in Tab : u # t => tab'[u] = tab[u]
        BY <2>3, <3>1 DEF TypeInv
      <3>3. \A u \in Tab : tab'[u].owner = tab[u].owner
        BY <3>1, <3>2
      <3>4. ASSUME NEW g \in Handler, serving'[g].pc # "idle"
            PROVE  serving'[g].who = tab'[serving'[g].tab].owner
        <4>1. g # h
          BY <3>2, <3>4, IdleIsFine
        <4>2. serving[g].tab \in Tab /\ serving[g].who = tab[serving[g].tab].owner
          BY <3>2, <3>4, <4>1 DEF TypeInv, WaitInv, WellFormed, At
        <4>3. QED
          BY <3>2, <3>3, <4>1, <4>2
      <3>5. ASSUME NEW u \in Tab
            PROVE  /\ tab'[u].is = "waits" <=> tab'[u].waits # None
                   /\ tab'[u].waits # None =>
                        serving'[tab'[u].waits].pc # "idle" /\ serving'[tab'[u].waits].tab = u
        <4>1. CASE u = t
          BY <3>1, <3>2, <4>1
        <4>2. CASE u # t
          <5>1. tab[u].waits \in Handler \union {None}
            BY DEF TypeInv, Shown
          <5>2. tab[u].waits # h
            BY <2>1, <4>2 DEF WaitInv
          <5>3. QED
            BY <3>2, <4>2, <5>1, <5>2 DEF WaitInv, Is, At
        <4>3. QED
          BY <4>1, <4>2
      <3>6. QED
        BY <3>4, <3>5 DEF WaitInv, Is, At
    <2>4. QED
      BY <1>4, <2>2, <2>3 DEF Answers
  <1>5. QED
    BY <1>1, <1>2, <1>3, <1>4 DEF StepKinds

-------------------------------------------------------------------------------
(***************************************************************************)
(* Whose sessions they are.                                                *)
(***************************************************************************)

\* Accounts are never given up: a step that opens no session and sets no
\* cookie keeps them apart.
Monotone == \A n \in Name : accounts[n] # None => accounts'[n] = accounts[n]

LEMMA AccountsStay ==
    ASSUME TypeInv, StepKinds
    PROVE  Monotone
  BY DEF TypeInv, StepKinds, Monotone, Ends, WorksPlainly, Passes, Joins, Enters, Begins, Answers

LEMMA OwnKept ==
    ASSUME TypeInv, OwnInv, Monotone, sessions' \subseteq sessions, UNCHANGED cookie,
           \A h \in Handler : SignsIn(serving'[h]) => serving'[h] = serving[h]
    PROVE  OwnInv'
  <1>1. \A s \in sessions : s.name \in Name /\ accounts'[s.name] = accounts[s.name]
    BY DEF TypeInv, Session, OwnInv, Monotone
  <1>2. IsFiniteSet(sessions')
    BY FS_Subset DEF OwnInv
  <1>3. \A s \in sessions' : accounts'[s.name] # None
    BY <1>1 DEF OwnInv
  <1>4. \A s1, s2 \in sessions' : s1.token = s2.token => s1.name = s2.name
    BY DEF OwnInv
  <1>5. \A b \in Browser, s \in sessions' : s.token = cookie'[b] => accounts'[s.name] = b
    BY <1>1 DEF OwnInv
  <1>6. ASSUME NEW h \in Handler, SignsIn(serving'[h])
        PROVE  /\ serving'[h].token \in Token
               /\ \A s \in sessions' : s.token = serving'[h].token => accounts'[s.name] = serving'[h].who
    BY <1>1, <1>6 DEF OwnInv
  <1>7. QED
    BY <1>2, <1>3, <1>4, <1>5, <1>6 DEF OwnInv

LEMMA OwnStep ==
    ASSUME TypeInv, WaitInv, OwnInv, StepKinds
    PROVE  OwnInv'
  <1>1. Monotone
    BY AccountsStay
  <1>2. CASE Ends
    <2>1. \A h \in Handler : SignsIn(serving'[h]) => serving'[h] = serving[h]
      BY <1>2, IdleIsFine DEF Ends
    <2>2. QED
      BY <1>1, <1>2, <2>1, OwnKept DEF Ends
  <1>3. ASSUME NEW h \in Handler, WorksPlainly(h) \/ Passes(h) \/ Joins(h)
        PROVE  OwnInv'
    <2>1. PICK q : ~SignsIn(q) /\ serving' = [serving EXCEPT ![h] = q]
      BY <1>3 DEF WorksPlainly, Plain, Passes, Joins, SignsIn
    <2>2. \A g \in Handler : SignsIn(serving'[g]) => serving'[g] = serving[g]
      BY <2>1 DEF TypeInv
    <2>3. sessions' \subseteq sessions /\ UNCHANGED cookie
      BY <1>3 DEF WorksPlainly, Passes, Joins
    <2>4. QED
      BY <1>1, <2>2, <2>3, OwnKept
  <1>4. ASSUME NEW t \in Tab, NEW h \in Handler, Begins(t, h)
        PROVE  OwnInv'
    <2>1. PICK q : ~SignsIn(q) /\ serving' = [serving EXCEPT ![h] = q]
      BY <1>4 DEF Begins, Sent
    <2>2. \A g \in Handler : SignsIn(serving'[g]) => serving'[g] = serving[g]
      BY <2>1 DEF TypeInv
    <2>3. QED
      BY <1>1, <1>4, <2>2, OwnKept DEF Begins
  <1>5. ASSUME NEW h \in Handler, Enters(h)
        PROVE  OwnInv'
    <2>1. PICK k \in Token, n \in Name :
            /\ Unheld(k) /\ accounts[n] = serving[h].who
            /\ sessions' = sessions \union {[token |-> k, name |-> n, expires |-> now + Lifetime]}
            /\ \E q : /\ Moves(serving[h], q) /\ SignsIn(q) /\ q.token = k
                      /\ serving' = [serving EXCEPT ![h] = q]
      BY <1>5 DEF Enters
    <2>2. PICK q : /\ Moves(serving[h], q) /\ SignsIn(q) /\ q.token = k
                   /\ serving' = [serving EXCEPT ![h] = q]
      BY <2>1
    <2>3. PICK new : new = [token |-> k, name |-> n, expires |-> now + Lifetime]
      OBVIOUS
    <2>4. sessions' = sessions \union {new} /\ new.token = k /\ new.name = n
      BY <2>1, <2>3
    <2>5. serving[h].who \in Browser /\ accounts[n] # None /\ q.who = serving[h].who
      BY <1>5, <2>1, <2>2, AuthAssumption DEF Enters, At, TypeInv, WellFormed, Moves
    <2>6. serving'[h] = q /\ \A g \in Handler : g # h => serving'[g] = serving[g]
      BY <2>2 DEF TypeInv
    <2>7. UNCHANGED <<accounts, cookie>>
      BY <1>5 DEF Enters
    <2>8. IsFiniteSet(sessions')
      BY <2>4, FS_AddElement DEF OwnInv
    <2>9. \A s \in sessions' : accounts'[s.name] # None
      BY <2>4, <2>5, <2>7 DEF OwnInv
    <2>10. \A s1, s2 \in sessions' : s1.token = s2.token => s1.name = s2.name
      BY <2>1, <2>4 DEF OwnInv, Unheld
    <2>11. \A b \in Browser, s \in sessions' : s.token = cookie'[b] => accounts'[s.name] = b
      BY <2>1, <2>4, <2>7 DEF OwnInv, Unheld
    <2>12. ASSUME NEW g \in Handler, SignsIn(serving'[g])
           PROVE  /\ serving'[g].token \in Token
                  /\ \A s \in sessions' : s.token = serving'[g].token => accounts'[s.name] = serving'[g].who
      <3>1. CASE g = h
        BY <2>1, <2>2, <2>4, <2>5, <2>6, <2>7, <3>1 DEF Unheld
      <3>2. CASE g # h
        BY <2>1, <2>4, <2>6, <2>7, <2>12, <3>2 DEF Unheld, OwnInv
      <3>3. QED
        BY <3>1, <3>2
    <2>13. QED
      BY <2>8, <2>9, <2>10, <2>11, <2>12 DEF OwnInv
  <1>6. ASSUME NEW t \in Tab, NEW h \in Handler, Answers(t, h)
        PROVE  OwnInv'
    <2>1. PICK q : ~SignsIn(q) /\ serving' = [serving EXCEPT ![h] = q]
      BY <1>6, IdleIsFine DEF Answers, Sent
    <2>2. \A g \in Handler : SignsIn(serving'[g]) => serving'[g] = serving[g]
      BY <2>1 DEF TypeInv
    <2>3. PICK b : b = tab[t].owner
      OBVIOUS
    <2>4. b \in Browser /\ serving[h].who = b
      <3>1. serving[h].pc # "idle" /\ serving[h].tab = t
        BY <1>6, AuthAssumption DEF Answers, At, WaitInv
      <3>2. QED
        BY <2>3, <3>1 DEF TypeInv, Shown, WaitInv, At
    <2>5. PICK c : /\ c \in {None, cookie[b]} \/ (SignsIn(serving[h]) /\ c = serving[h].token)
                   /\ cookie' = [cookie EXCEPT ![b] = c]
      BY <1>6, <2>3 DEF Answers
    <2>6. cookie'[b] = c /\ \A x \in Browser : x # b => cookie'[x] = cookie[x]
      BY <2>4, <2>5 DEF TypeInv
    <2>7. UNCHANGED <<accounts, sessions>>
      BY <1>6 DEF Answers
    <2>8. \A s \in sessions : s.token # None
      BY AuthAssumption DEF TypeInv, Session
    <2>9. \A x \in Browser, s \in sessions' : s.token = cookie'[x] => accounts'[s.name] = x
      BY <2>4, <2>5, <2>6, <2>7, <2>8 DEF OwnInv
    <2>10. \A g \in Handler : SignsIn(serving'[g]) =>
             /\ serving'[g].token \in Token
             /\ \A s \in sessions' : s.token = serving'[g].token => accounts'[s.name] = serving'[g].who
      BY <2>2, <2>7 DEF OwnInv
    <2>11. QED
      BY <2>7, <2>9, <2>10 DEF OwnInv
  <1>7. QED
    BY <1>2, <1>3, <1>4, <1>5, <1>6 DEF StepKinds

-------------------------------------------------------------------------------
(***************************************************************************)
(* Which setups may create an account.                                     *)
(***************************************************************************)

LEMMA EarlyStep ==
    ASSUME TypeInv, EarlyInv, StepKinds
    PROVE  EarlyInv'
  <1>1. HasUsers => HasUsers'
    <2>1. Monotone
      BY AccountsStay
    <2>2. QED
      BY <2>1 DEF HasUsers, Monotone
  <1>2. SUFFICES \A g \in Handler :
          /\ serving'[g].pc = "hasUsers" => serving'[g].early \/ HasUsers
          /\ serving'[g].pc = "create" => serving'[g].early
    BY <1>1 DEF EarlyInv, At
  <1>3. CASE Ends
    BY <1>3, IdleIsFine DEF Ends, EarlyInv, At
  <1>4. ASSUME NEW h \in Handler, NEW q, serving' = [serving EXCEPT ![h] = q],
               q.pc = "hasUsers" => q.early \/ HasUsers, q.pc = "create" => q.early,
               NEW g \in Handler
        PROVE  /\ serving'[g].pc = "hasUsers" => serving'[g].early \/ HasUsers
               /\ serving'[g].pc = "create" => serving'[g].early
    BY <1>4 DEF TypeInv, EarlyInv, At
  <1>5. ASSUME NEW h \in Handler, WorksPlainly(h) \/ Passes(h) \/ Joins(h) \/ Enters(h)
        PROVE  \E q : /\ serving' = [serving EXCEPT ![h] = q]
                      /\ q.pc = "hasUsers" => q.early \/ HasUsers
                      /\ q.pc = "create" => q.early
    <2>1. CASE WorksPlainly(h)
      BY <2>1 DEF WorksPlainly, Plain
    <2>2. CASE Passes(h)
      BY <2>2 DEF Passes, EarlyInv
    <2>3. CASE Joins(h)
      BY <2>3 DEF Joins
    <2>4. CASE Enters(h)
      BY <2>4 DEF Enters, SignsIn
    <2>5. QED
      BY <1>5, <2>1, <2>2, <2>3, <2>4
  <1>6. ASSUME NEW t \in Tab, NEW h \in Handler, Begins(t, h) \/ Answers(t, h)
        PROVE  \E q : /\ serving' = [serving EXCEPT ![h] = q]
                      /\ q.pc = "hasUsers" => q.early \/ HasUsers
                      /\ q.pc = "create" => q.early
    BY <1>6, IdleIsFine DEF Begins, Answers, Sent
  <1>7. QED
    BY <1>3, <1>4, <1>5, <1>6 DEF StepKinds

-------------------------------------------------------------------------------
(***************************************************************************)
(* How many children there may be.                                         *)
(***************************************************************************)

LEMMA OwingIsFinite ==
    ASSUME TokensLast, NEW S \in SUBSET Handler
    PROVE  IsFiniteSet(S) /\ Cardinality(S) \in Nat
  BY FS_Subset, FS_CardinalityType DEF TokensLast

LEMMA ChildKept ==
    ASSUME TokensLast, TypeInv, ChildInv, UNCHANGED <<accounts, children>>,
           \A h \in Handler : Owes(serving'[h]) => Owes(serving[h])
    PROVE  ChildInv'
  <1>1. Taken' = Taken
    BY DEF Taken
  <1>2. Owing' \in SUBSET Owing /\ Owing \in SUBSET Handler
    BY DEF Owing
  <1>3. IsFiniteSet(Owing) /\ Cardinality(Owing) \in Nat
    BY <1>2, OwingIsFinite
  <1>4. Cardinality(Owing') <= Cardinality(Owing)
    BY <1>2, <1>3, FS_Subset
  <1>5. Cardinality(Owing') \in Nat /\ Cardinality(Taken) \in Nat
    BY <1>2, OwingIsFinite, FS_CardinalityType DEF ChildInv
  <1>6. children \in Nat
    BY DEF TypeInv
  <1>7. children + Cardinality(Owing') <= Cardinality(Taken)
    BY <1>3, <1>4, <1>5, <1>6 DEF ChildInv
  <1>8. QED
    BY <1>1, <1>7 DEF ChildInv

\* A child is added by the request that owed it.
LEMMA ChildPaid ==
    ASSUME TokensLast, TypeInv, ChildInv, NEW h \in Handler, UNCHANGED accounts,
           children' = children + 1, Owes(serving[h]), ~Owes(serving'[h]),
           \A g \in Handler : Owes(serving'[g]) => Owes(serving[g])
    PROVE  ChildInv'
  <1>1. Taken' = Taken
    BY DEF Taken
  <1>2. Owing' \in SUBSET (Owing \ {h}) /\ h \in Owing /\ Owing \in SUBSET Handler
    BY DEF Owing
  <1>3. IsFiniteSet(Owing) /\ Cardinality(Owing) \in Nat
    BY <1>2, OwingIsFinite
  <1>4. IsFiniteSet(Owing \ {h}) /\ Cardinality(Owing \ {h}) = Cardinality(Owing) - 1
    BY <1>2, <1>3, FS_RemoveElement
  <1>5. Cardinality(Owing') <= Cardinality(Owing \ {h})
    BY <1>2, <1>4, FS_Subset
  <1>6. Cardinality(Owing') \in Nat /\ Cardinality(Taken) \in Nat
    BY <1>2, OwingIsFinite, FS_CardinalityType DEF ChildInv
  <1>7. children \in Nat
    BY DEF TypeInv
  <1>8. children + 1 + Cardinality(Owing') <= Cardinality(Taken)
    BY <1>3, <1>4, <1>5, <1>6, <1>7 DEF ChildInv
  <1>9. QED
    BY <1>1, <1>8 DEF ChildInv

\* A new account may owe a child.
LEMMA ChildOwed ==
    ASSUME TokensLast, TypeInv, ChildInv, NEW h \in Handler, Joins(h)
    PROVE  ChildInv'
  <1>1. PICK n \in Name : accounts[n] = None /\ accounts' = [accounts EXCEPT ![n] = serving[h].who]
    BY DEF Joins
  <1>2. serving[h].who # None
    BY AuthAssumption DEF Joins, At, TypeInv, WellFormed
  <1>3. Taken' = Taken \union {n} /\ n \notin Taken
    BY <1>1, <1>2 DEF Taken, TypeInv
  <1>4. Owing' \in SUBSET (Owing \union {h}) /\ Owing' \in SUBSET Handler /\ Owing \in SUBSET Handler
    <2>1. \A g \in Handler : g # h => serving'[g] = serving[g]
      BY DEF Joins, TypeInv
    <2>2. QED
      BY <2>1 DEF Owing
  <1>5. IsFiniteSet(Owing) /\ Cardinality(Owing) \in Nat /\ Cardinality(Owing') \in Nat
    BY <1>4, OwingIsFinite
  <1>6. /\ IsFiniteSet(Owing \union {h}) /\ Cardinality(Owing \union {h}) \in Nat
        /\ Cardinality(Owing \union {h}) <= Cardinality(Owing) + 1
    <2>1. /\ IsFiniteSet(Owing \union {h})
          /\ Cardinality(Owing \union {h}) =
               IF h \in Owing THEN Cardinality(Owing) ELSE Cardinality(Owing) + 1
      BY <1>5, FS_AddElement
    <2>2. QED
      BY <1>5, <2>1
  <1>7. Cardinality(Owing') <= Cardinality(Owing \union {h})
    BY <1>4, <1>6, FS_Subset
  <1>8. /\ IsFiniteSet(Taken \union {n}) /\ Cardinality(Taken) \in Nat
        /\ Cardinality(Taken \union {n}) = Cardinality(Taken) + 1
    BY <1>3, FS_AddElement, FS_CardinalityType DEF ChildInv
  <1>9. children \in Nat /\ UNCHANGED children
    BY DEF TypeInv, Joins
  <1>10. children + Cardinality(Owing') <= Cardinality(Taken) + 1
    BY <1>5, <1>6, <1>7, <1>8, <1>9 DEF ChildInv
  <1>11. QED
    BY <1>3, <1>8, <1>9, <1>10 DEF ChildInv

LEMMA ChildStep ==
    ASSUME TokensLast, TypeInv, ChildInv, StepKinds
    PROVE  ChildInv'
  <1>1. CASE Ends
    <2>1. \A h \in Handler : Owes(serving'[h]) => Owes(serving[h])
      BY <1>1, IdleIsFine DEF Ends
    <2>2. QED
      BY <1>1, <2>1, ChildKept DEF Ends
  <1>2. ASSUME NEW h \in Handler, NEW q, serving' = [serving EXCEPT ![h] = q],
               Owes(q) => Owes(serving[h])
        PROVE  \A g \in Handler : Owes(serving'[g]) => Owes(serving[g])
    BY <1>2 DEF TypeInv
  <1>3. ASSUME NEW h \in Handler, WorksPlainly(h)
        PROVE  ChildInv'
    <2>1. \A g \in Handler : Owes(serving'[g]) => Owes(serving[g])
      BY <1>2, <1>3 DEF WorksPlainly, Plain
    <2>2. CASE UNCHANGED children
      BY <1>3, <2>1, <2>2, ChildKept DEF WorksPlainly
    <2>3. CASE children' = children + 1 /\ Owes(serving[h]) /\ ~Owes(serving'[h])
      BY <1>3, <2>1, <2>3, ChildPaid DEF WorksPlainly
    <2>4. QED
      BY <1>3, <2>2, <2>3 DEF WorksPlainly
  <1>4. ASSUME NEW h \in Handler, Passes(h)
        PROVE  ChildInv'
    <2>1. PICK q : q.pc = "create" /\ serving' = [serving EXCEPT ![h] = q]
      BY <1>4 DEF Passes
    <2>2. ~Owes(q)
      BY <2>1 DEF Owes
    <2>3. QED
      BY <1>2, <1>4, <2>1, <2>2, ChildKept DEF Passes
  <1>5. ASSUME NEW h \in Handler, Enters(h)
        PROVE  ChildInv'
    <2>1. PICK q : SignsIn(q) /\ q.what = serving[h].what /\ serving' = [serving EXCEPT ![h] = q]
      BY <1>5 DEF Enters
    <2>2. Owes(q) => Owes(serving[h])
      BY <1>5, <2>1 DEF Enters, At, Owes, SignsIn
    <2>3. QED
      BY <1>2, <1>5, <2>1, <2>2, ChildKept DEF Enters
  <1>6. ASSUME NEW t \in Tab, NEW h \in Handler, Begins(t, h) \/ Answers(t, h)
        PROVE  ChildInv'
    <2>1. \E q : (Owes(q) => Owes(serving[h])) /\ serving' = [serving EXCEPT ![h] = q]
      BY <1>6, IdleIsFine DEF Begins, Answers
    <2>2. UNCHANGED <<accounts, children>>
      BY <1>6 DEF Begins, Answers
    <2>3. QED
      BY <1>2, <2>1, <2>2, ChildKept
  <1>7. QED
    BY <1>1, <1>3, <1>4, <1>5, <1>6, ChildOwed DEF StepKinds

-------------------------------------------------------------------------------
(***************************************************************************)
(* The theorems.                                                           *)
(***************************************************************************)

LEMMA DashInit ==
    ASSUME TokensLast, Init
    PROVE  DashInv
  <1>1. PICK home \in Household :
          /\ typed = home.typed
          /\ tab = [t \in Tab |-> Blank(home.owner[t], home.opens[t], "home")]
    BY DEF Init
  <1>2. home.typed \in [Browser -> Typed] /\ home.owner \in [Tab -> Browser] /\ home.opens \in [Tab -> Page]
    BY DashboardAssumption
  <1>3. ASSUME NEW t \in Tab
        PROVE  /\ tab[t] \in Shown /\ tab[t].is = "blank" /\ tab[t].waits = None
    <2>1. tab[t] = Blank(home.owner[t], home.opens[t], "home")
      BY <1>1
    <2>2. home.owner[t] \in Browser /\ home.opens[t] \in Page /\ "home" \in Page
      BY <1>2 DEF Page
    <2>3. QED
      BY <2>1, <2>2, BlankPage
  <1>4. tab \in [Tab -> Shown]
    BY <1>1, <1>3
  <1>5. /\ accounts = [n \in Name |-> None] /\ sessions = {} /\ now = 0
        /\ serving = [h \in Handler |-> Idle]
        /\ cookie = [b \in Browser |-> None] /\ policy = Unset /\ children = 0 /\ saves = 0
    BY DEF Init, AuthInit
  <1>6. policy \in Policy /\ 0 \in 0 .. MaxNow /\ 0 \in 0 .. MaxSaves
    BY <1>5, AuthAssumption, DashboardAssumption DEF Unset, Policy
  <1>7. \A h \in Handler : serving[h] = Idle /\ serving[h].pc = "idle"
    BY <1>5, IdleIsFine
  <1>8. TypeInv
    BY <1>1, <1>2, <1>4, <1>5, <1>6, <1>7, IdleIsFine DEF TypeInv
  <1>9. WaitInv
    BY <1>3, <1>7 DEF WaitInv, Is, At
  <1>10. OwnInv
    BY <1>5, <1>7, IdleIsFine, FS_EmptySet DEF OwnInv
  <1>11. EarlyInv
    BY <1>7 DEF EarlyInv, At
  <1>12. ChildInv
    <2>1. Owing = {} /\ Taken = {}
      BY <1>5, <1>7, IdleIsFine DEF Owing, Taken
    <2>2. QED
      BY <1>5, <2>1, FS_EmptySet DEF ChildInv
  <1>13. QED
    BY <1>8, <1>9, <1>10, <1>11, <1>12 DEF DashInv

LEMMA DashStep ==
    ASSUME TokensLast, DashInv, [Next]_vars
    PROVE  DashInv'
  <1>1. StepKinds
    BY StepsAreOfAKind DEF DashInv
  <1>2. QED
    BY <1>1, TypeStep, WaitStep, OwnStep, EarlyStep, ChildStep DEF DashInv

LEMMA DashInvariant ==
    ASSUME TokensLast
    PROVE  Spec => []DashInv
  BY DashInit, DashStep, PTL DEF Spec

\* Types, and a tab waits for a request of its own, for any number of tabs.
THEOREM DashboardTypeCorrect ==
    ASSUME TokensLast
    PROVE  Spec => []TypeOK
  <1>1. DashInv => TypeOK
    <2>1. SUFFICES ASSUME DashInv PROVE TypeOK
      OBVIOUS
    <2>2. TypeInv /\ WaitInv
      BY <2>1 DEF DashInv
    <2>3. AuthTypeOK
      BY <2>2 DEF TypeInv, AuthTypeOK
    <2>4. \A t \in Tab : tab[t].page \in Page /\ tab[t].is \in Status /\ tab[t].copy \in Policy
      BY <2>2 DEF TypeInv, Shown
    <2>5. QED
      BY <2>2, <2>3, <2>4 DEF TypeInv, WaitInv, TypeOK, Is
  <1>2. QED
    BY <1>1, DashInvariant, PTL

\* However many parents race for however many names, no browser gets hold of a
\* session of another parent's account.
THEOREM SessionsAlwaysOwn ==
    ASSUME TokensLast
    PROVE  Spec => []SessionsAreOwn
  <1>1. DashInv => SessionsAreOwn
    BY DEF DashInv, OwnInv, SessionsAreOwn, NobodyElsesSession
  <1>2. QED
    BY <1>1, DashInvariant, PTL

\* There is never more than one child for an account, whatever answers are
\* lost and whatever forms are sent again.
THEOREM NeverADuplicateChild ==
    ASSUME TokensLast
    PROVE  Spec => []NoDuplicateChild
  <1>1. ASSUME DashInv PROVE NoDuplicateChild
    <2>1. Owing \in SUBSET Handler
      BY DEF Owing
    <2>2. Cardinality(Owing) \in Nat /\ Cardinality(Taken) \in Nat /\ children \in Nat
      BY <1>1, <2>1, OwingIsFinite, FS_CardinalityType DEF DashInv, ChildInv, TypeInv
    <2>3. children <= Cardinality(Taken)
      BY <1>1, <2>2 DEF DashInv, ChildInv
    <2>4. QED
      BY <2>3 DEF NoDuplicateChild, Taken
  <1>2. QED
    BY <1>1, DashInvariant, PTL

\* No setup that came when there was an account creates another.
THEOREM SetupHasOneChance ==
    ASSUME TokensLast
    PROVE  Spec => OneChance
  <1>1. ASSUME DashInv, [Next]_vars PROVE [NoLateAccount]_vars
    <2>1. SUFFICES ASSUME NEW g \in Handler, accounts' # accounts, serving'[g] # serving[g]
                   PROVE  serving[g].early
      BY DEF NoLateAccount
    <2>2. StepKinds
      BY <1>1, StepsAreOfAKind DEF DashInv
    <2>3. PICK h \in Handler : Joins(h)
      BY <2>1, <2>2 DEF StepKinds, Ends, WorksPlainly, Passes, Enters, Begins, Answers
    <2>4. g = h
      BY <1>1, <2>1, <2>3 DEF Joins, DashInv, TypeInv
    <2>5. QED
      BY <1>1, <2>3, <2>4 DEF Joins, DashInv, EarlyInv
  <1>2. QED
    BY <1>1, DashInvariant, PTL DEF OneChance, Spec

\* A save undoes another one only from a page that was loaded before it.
THEOREM OnlyStalePagesEverUndo ==
    ASSUME TokensLast
    PROVE  Spec => OnlyStalePagesUndo
  <1>1. ASSUME DashInv, [Next]_vars, NEW g \in Handler, NEW r \in Rule,
               serving[g].pc = "act", serving'[g].pc # "act", policy'[r] # policy[r]
        PROVE  r = serving[g].body.rule \/ policy[r] # serving[g].body.base[r]
    <2>1. StepKinds
      BY <1>1, StepsAreOfAKind DEF DashInv
    <2>2. PICK h \in Handler : WorksPlainly(h) /\ policy' # policy
      BY <1>1, <2>1 DEF StepKinds, Ends, WorksPlainly, Passes, Joins, Enters, Begins, Answers
    <2>3. g = h
      BY <1>1, <2>2 DEF WorksPlainly, DashInv, TypeInv
    <2>4. serving[g].pc = "act" /\ serving[g].what = "save" /\ policy' = serving[g].body.next
      BY <2>2, <2>3 DEF WorksPlainly, At
    <2>5. r # serving[g].body.rule => serving[g].body.next[r] = serving[g].body.base[r]
      BY <1>1, <2>4 DEF DashInv, TypeInv, WellFormed
    <2>6. QED
      BY <1>1, <2>4, <2>5
  <1>2. DashInv /\ [Next]_vars =>
          [\A h \in Handler, r \in Rule :
             At(h, "act") /\ ~At(h, "act")' /\ policy'[r] # policy[r] =>
               r = serving[h].body.rule \/ policy[r] # serving[h].body.base[r]]_vars
    BY <1>1 DEF At
  <1>3. QED
    BY <1>2, DashInvariant, PTL DEF OnlyStalePagesUndo, Spec

===============================================================================
