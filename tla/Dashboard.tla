------------------------------- MODULE Dashboard -------------------------------
(***************************************************************************)
(* The dashboard in the browser (web/dist/js) over the accounts of Auth:   *)
(* the first-run and login pages, the guard every page starts with, and    *)
(* the pages that edit one rule of a child's policy each and save all of   *)
(* it, with the rules they do not edit as they were when the page loaded.  *)
(* Behind the gate: the policy API and its store, and POST /api/people.    *)
(*                                                                         *)
(* Tabs of one browser share its cookie.  A page may be left while its     *)
(* request runs on, an answer may be lost, and the service may restart.    *)
(***************************************************************************)
EXTENDS Auth, FiniteSets

CONSTANTS
    Household,      \* how it may begin: a set of records with the names
                    \* typed, [Browser -> Typed], the owners of the tabs,
                    \* [Tab -> Browser], and the pages opened first
    Rule,           \* rules of a policy; each has the page that edits it
    Visited,        \* pages a parent opens by hand
    MaxSaves,       \* bound: saves
    MaxTrouble      \* bound: failures, lost answers, pages left, logouts and
                    \* restarts, all together

Page == {"root", "first-run", "login", "home"} \union Rule

ASSUME DashboardAssumption ==
    /\ Household \subseteq 
         [typed : [Browser -> Typed], owner : [Tab -> Browser], opens : [Tab -> Page]]
    /\ Visited \subseteq Page
    /\ Tab \subseteq Handler
    /\ MaxSaves \in Nat /\ MaxTrouble \in Nat

VARIABLES
    typed,      \* [Browser -> the user name its parent types]
    cookie,     \* [Browser -> its session cookie, or None]
    tab,        \* [Tab -> the page it shows]
    policy,     \* [Rule -> the save that last edited it, 0: not set]
    children,   \* how many there are
    saves, trouble

vars == <<accounts, sessions, serving, now, typed, cookie, tab, policy, children, saves, trouble>>
pageVars == <<typed, cookie, tab, policy, children, saves, trouble>>

Status == {"blank", "waits", "form", "refused", "ready"}
Policy == [Rule -> 0 .. MaxSaves]
Unset  == [r \in Rule |-> 0]

\* next: where the login page sends a parent who signs in.
\* copy: the policy as the page loaded it.
Blank(owner, page, next) ==
    [owner |-> owner, page |-> page, next |-> next, is |-> "blank", waits |-> None, copy |-> Unset]

Init ==
    /\ AuthInit
    /\ \E home \in Household :
         /\ typed = home.typed
         /\ tab = [t \in Tab |-> Blank(home.owner[t], home.opens[t], "home")]
    /\ cookie = [b \in Browser |-> None]
    /\ policy = Unset
    /\ children = 0 /\ saves = 0 /\ trouble = 0

Trouble == trouble < MaxTrouble /\ trouble' = trouble + 1
Shows(t, page) == tab[t].page = page
Is(t, status)  == tab[t].is = status
Show(t, page, next) == tab' = [tab EXCEPT ![t] = Blank(tab[t].owner, page, next)]

\* Goroutines are alike: a tab's request runs on the one named after it, or on
\* another when that one still serves an abandoned request.
Free(t) ==
    IF At(t, "idle") THEN t
    ELSE CHOOSE h \in Handler \union {None} :
           IF \E g \in Handler : At(g, "idle") THEN h # None /\ At(h, "idle") ELSE h = None

\* The tab sends a request and waits for its answer.
Send(t, h, what, body) ==
    LET b == tab[t].owner
    IN  /\ h = Free(t)
        /\ serving' = [serving EXCEPT ![h] = Request(t, what, b, typed[b], cookie[b], body)]
        /\ tab' = [tab EXCEPT ![t].is = "waits", ![t].waits = h]

-------------------------------------------------------------------------------
(***************************************************************************)
(* Pages.                                                                  *)
(***************************************************************************)

\* Opening "/" asks the server where to go; every other page asks who it is.
Open(t, h) ==
    /\ Is(t, "blank")
    /\ Send(t, h, IF Shows(t, "root") THEN "root" ELSE "me", None)
    /\ UNCHANGED <<accounts, sessions, now, typed, cookie, policy, children, saves, trouble>>

\* The parent fills in the form of the first-run or the login page.
Submit(t, h) ==
    /\ Is(t, "form") \/ Is(t, "refused")
    /\ Shows(t, "first-run") \/ Shows(t, "login")
    /\ Send(t, h, IF Shows(t, "login") THEN "login" ELSE "setup", None)
    /\ UNCHANGED <<accounts, sessions, now, typed, cookie, policy, children, saves, trouble>>

\* A bug the run must catch: a page sends only the rule it edits.
SavesOwnRule(copy, r, edit) == [Unset EXCEPT ![r] = edit]

\* The page of rule r sends its rule as edited and the others as loaded.
Edited(copy, r, edit) == [copy EXCEPT ![r] = edit]

Save(t, h) ==
    /\ Is(t, "ready") /\ tab[t].page \in Rule
    /\ saves < MaxSaves /\ saves' = saves + 1
    /\ LET r == tab[t].page
           copy == tab[t].copy
       IN  Send(t, h, "save", [rule |-> r, base |-> copy, next |-> Edited(copy, r, saves')])
    /\ UNCHANGED <<accounts, sessions, now, typed, cookie, policy, children, trouble>>

SignOut(t, h) ==
    /\ Is(t, "ready") /\ Trouble
    /\ Send(t, h, "logout", None)
    /\ UNCHANGED <<accounts, sessions, now, typed, cookie, policy, children, saves>>

-------------------------------------------------------------------------------
(***************************************************************************)
(* Answers.                                                                *)
(***************************************************************************)

\* The page an answer sends the browser to; none: it stays.  A signed-in
\* parent stays on the first-run page: Me says "setup_complete" only to those
\* who are not signed in.
Goes(here, r) ==
    CASE r.what = "me" /\ r.answer = "signin" /\ here.page # "login" -> {"login"}
      [] r.what = "me" /\ r.answer = "setup" /\ here.page # "first-run" -> {"first-run"}
      [] r.what = "me" /\ r.answer = "authenticated" /\ here.page = "login" -> {here.next}
      [] r.what = "login" /\ r.answer = "ok" -> {here.next}
      [] r.what = "root" -> {r.answer}
      [] r.what = "child" /\ r.answer = "ok" -> {"home"}
      [] r.what = "load" /\ r.answer = "missing" -> {"home"}
      [] r.what = "logout" \/ (r.what \in Gated /\ r.answer = "unauthorized") -> {"login"}
      [] OTHER -> {}

\* ?next= names the page that found its parent not signed in.
NextAfter(page, r) ==
    IF r.what \in Gated \/ (r.what = "me" /\ r.answer = "signin" /\ page # "first-run")
      THEN page ELSE "home"

\* A bug the run must catch: the form adds the child again when that failed.
AddsAgain(page, r) ==
    CASE r.what = "setup" /\ r.answer = "ok" -> "child"
      [] r.what = "child" /\ r.answer = "refused" -> "child"
      [] r.what = "me" /\ r.answer = "authenticated" /\ page \in Rule -> "load"
      [] OTHER -> None

\* The request with which a page that stays goes on: first-run adds the child
\* after the account, a policy page loads the policy once it knows its parent.
GoesOnWith(page, r) ==
    CASE r.what = "setup" /\ r.answer = "ok" -> "child"
      [] r.what = "me" /\ r.answer = "authenticated" /\ page \in Rule -> "load"
      [] OTHER -> None

\* What a page that stays and sends nothing is left as.
Left(page, r) ==
    CASE r.what = "me" /\ page \in {"first-run", "login"} -> "form"
      [] r.what = "save" \/ (r.what \in {"me", "load"} /\ r.answer \in {"authenticated", "ok"}) -> "ready"
      [] OTHER -> "refused"

\* Set-Cookie of the answer.
NewCookie(b, r) ==
    CASE r.what \in {"setup", "login"} /\ r.answer = "ok" -> r.token
      [] r.what = "logout" -> None
      [] OTHER -> cookie[b]

Deliver(t, h) ==
    /\ At(h, "answer") /\ tab[t].waits = h
    /\ LET r == serving[h]
           b == tab[t].owner
           p == tab[t].page
           goes == Goes(tab[t], r)
           more == GoesOnWith(p, r)
       IN  /\ cookie' = [cookie EXCEPT ![b] = NewCookie(b, r)]
           /\ \/ \E page \in goes :
                   /\ Show(t, page, IF page = "login" THEN NextAfter(p, r) ELSE "home")
                   /\ serving' = [serving EXCEPT ![h] = Idle]
              \/ /\ goes = {} /\ more # None
                 /\ serving' = [serving EXCEPT ![h] = Request(t, more, b, typed[b], cookie'[b], None)]
                 /\ UNCHANGED tab
              \/ /\ goes = {} /\ more = None
                 /\ serving' = [serving EXCEPT ![h] = Idle]
                 /\ tab' = [tab EXCEPT ![t].is = Left(p, r), ![t].waits = None,
                              ![t].copy = IF r.what = "load" /\ r.answer = "ok" THEN r.body ELSE @]
    /\ UNCHANGED <<accounts, sessions, now, typed, policy, children, saves, trouble>>

\* Nobody waits for the answer any more.
Unwanted(h) == \A t \in Tab : tab[t].waits # h

Discard(h) ==
    /\ At(h, "answer") /\ Unwanted(h)
    /\ serving' = [serving EXCEPT ![h] = Idle]
    /\ UNCHANGED <<accounts, sessions, now, pageVars>>

-------------------------------------------------------------------------------
(***************************************************************************)
(* Behind the gate.                                                        *)
(***************************************************************************)

\* GetPersonPolicy, after the person was found; SetPersonPolicy; the INSERT
\* of person.Store.Create.
Act(h) ==
    /\ At(h, "act")
    /\ LET r == serving[h]
       IN  CASE r.what = "load" ->
                  /\ serving' = [serving EXCEPT ![h].pc = "answer", ![h].body = policy,
                                   ![h].answer = IF children = 0 THEN "missing" ELSE "ok"]
                  /\ UNCHANGED <<policy, children>>
             [] r.what = "save" ->
                  policy' = r.body.next /\ Reply(h, "ok") /\ UNCHANGED children
             [] r.what = "child" ->
                  children' = children + 1 /\ Reply(h, "ok") /\ UNCHANGED policy
    /\ UNCHANGED <<accounts, sessions, now, typed, cookie, tab, saves, trouble>>

\* A statement behind the gate fails.  The child may be there all the same:
\* person.Store.Create reads its row again before it answers.
ActFails(h) ==
    /\ At(h, "act")
    /\ Reply(h, IF serving[h].what = "child" THEN "refused" ELSE "error")
    /\ \/ UNCHANGED children
       \/ serving[h].what = "child" /\ children' = children + 1
    /\ UNCHANGED <<accounts, sessions, now, policy>>

-------------------------------------------------------------------------------
(***************************************************************************)
(* The rest of the world.                                                  *)
(***************************************************************************)

\* A statement fails: now and then, or because net/http cancels the context of
\* a request whose browser has gone.
Fail(h) ==
    /\ IF Unwanted(h) THEN UNCHANGED trouble ELSE Trouble
    /\ \/ StatementFails(h) /\ UNCHANGED <<policy, children>>
       \/ ActFails(h)
    /\ UNCHANGED <<typed, cookie, tab, saves>>

\* A request that nobody waits for runs on until a statement fails; one that
\* only reads may as well end.
Abandon(t) ==
    serving' = IF Is(t, "waits") /\ serving[tab[t].waits].what \in {"root", "me", "load"}
                 THEN [serving EXCEPT ![tab[t].waits] = Idle] ELSE serving

\* The parent leaves a page.
Visit(t, page) ==
    /\ ~Is(t, "blank") /\ Trouble
    /\ Show(t, page, "home")
    /\ Abandon(t)
    /\ UNCHANGED <<accounts, sessions, now, typed, cookie, policy, children, saves>>

\* A parent whom a page refused starts over at the dashboard's address.
StartOver(t) ==
    /\ Is(t, "refused")
    /\ Show(t, "root", "home")
    /\ UNCHANGED <<accounts, sessions, serving, now, typed, cookie, policy, children, saves, trouble>>

\* A bug the run must catch: the page goes on waiting.
CutWaits(t) == [tab[t] EXCEPT !.is = "refused"]

\* What a tab shows when its request ends without an answer: a failed save
\* leaves the page as it is, and a failed logout goes to the login page too.
Cut(t) ==
    LET what == serving[tab[t].waits].what
    IN  IF what = "logout" THEN Blank(tab[t].owner, "login", "home")
        ELSE [tab[t] EXCEPT !.is = IF what = "save" THEN "ready" ELSE "refused", !.waits = None]

LoseAnswer(t) ==
    /\ Is(t, "waits") /\ Trouble
    /\ tab' = [tab EXCEPT ![t] = Cut(t)]
    /\ Abandon(t)
    /\ UNCHANGED <<accounts, sessions, now, typed, cookie, policy, children, saves>>

\* The service stops and starts again: requests end without an answer.
Restart ==
    /\ Trouble
    /\ PurgeExpired
    /\ serving' = [h \in Handler |-> Idle]
    /\ tab' = [t \in Tab |-> IF Is(t, "waits") THEN Cut(t) ELSE tab[t]]
    /\ UNCHANGED <<accounts, now, typed, cookie, policy, children, saves>>

Serve(h) ==
    \/ AuthStep(h, {cookie[b] : b \in Browser}) /\ UNCHANGED pageVars
    \/ Act(h) \/ Discard(h)
    \/ \E t \in Tab : Deliver(t, h)

Next ==
    \/ \E h \in Handler :
         \/ Serve(h) \/ Fail(h)
         \/ \E t \in Tab : Open(t, h) \/ Submit(t, h) \/ Save(t, h) \/ SignOut(t, h)
    \/ \E t \in Tab : StartOver(t) \/ LoseAnswer(t) \/ \E page \in Visited : Visit(t, page)
    \/ Restart
    \/ Tick /\ Trouble /\ UNCHANGED <<typed, cookie, tab, policy, children, saves>>

\* A handler that runs goes on and its answer arrives; a page that opens runs
\* its script; a parent who sees a form fills it in, and does not resubmit a
\* form that was refused for ever but starts over now and then.
Spec ==
    /\ Init /\ [][Next]_vars
    /\ \A h \in Handler : WF_vars(Serve(h))
    /\ \A t \in Tab :
         /\ WF_vars(\E h \in Handler : Open(t, h))
         /\ WF_vars(Is(t, "form") /\ \E h \in Handler : Submit(t, h))
         /\ SF_vars(StartOver(t))

-------------------------------------------------------------------------------
(***************************************************************************)
(* Properties.                                                             *)
(***************************************************************************)

\* Types; a tab waits for a request of its own, and nobody waits for two.
TypeOK ==
    /\ AuthTypeOK
    /\ cookie \in [Browser -> {None} \union Token]
    /\ policy \in Policy
    /\ children \in Nat
    /\ \A t \in Tab :
         /\ tab[t].page \in Page /\ tab[t].is \in Status /\ tab[t].copy \in Policy
         /\ Is(t, "waits") <=> tab[t].waits # None
         /\ Is(t, "waits") => serving[tab[t].waits].tab = t /\ ~At(tab[t].waits, "idle")

\* See Auth: setups race, tabs share cookies, answers come late.
SessionsAreOwn == NobodyElsesSession(cookie)

OneChance == [][NoLateAccount]_vars

\* A child is added with an account and never again: neither a lost answer
\* nor a form submitted again adds it twice.  (Nor does the "Add a child" link
\* of the home page, which leads to a form that is refused.)  first-run.js.
NoDuplicateChild == children <= Cardinality({n \in Name : accounts[n] # None})

\* Saving one rule undoes another one only if that one was changed after the
\* page of the first was loaded: what a page does not edit survives its PUT,
\* which replaces the whole policy.  policy-time.js,
\* policy-monitoring.js, policy-schedule.js, PutPersonPolicy.
OnlyStalePagesUndo ==
    [][\A h \in Handler, r \in Rule :
         At(h, "act") /\ ~At(h, "act")' /\ policy'[r] # policy[r] =>
           r = serving[h].body.rule \/ policy[r] # serving[h].body.base[r]]_vars

\* Once the disturbances end, a parent gets to see the dashboard and stays in,
\* unless the first account went to somebody else.  Names typed with blanks
\* around them are left out: Setup creates the account under the trimmed name
\* and Login looks for the untrimmed one.  Auth, app.js, login.js, first-run.js.
In(t) == Is(t, "ready")
Mine(b) == Trim[typed[b]] = typed[b] /\ accounts[typed[b]] = b
SomebodyElses(b) == ~Mine(b) /\ \E n \in Name : accounts[n] \notin {None, b}

ParentGetsIn ==
    \A t \in Tab :
      <>[](\/ In(t)
           \/ SomebodyElses(tab[t].owner)
           \/ Trim[typed[tab[t].owner]] # typed[tab[t].owner])

===============================================================================
