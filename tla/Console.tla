------------------------------ MODULE Console ------------------------------
(***************************************************************************)
(* One browser tab of the single page application: the session gate        *)
(* (App.tsx, pages/login.tsx, components/user-menu.tsx, lib/api.ts,        *)
(* routers/auth.py), the chosen node (lib/node-context.tsx,                *)
(* components/topbar.tsx) and the polled pages whose rows carry actions    *)
(* (pages/jobs.tsx, pages/tasks.tsx) and the log page (pages/log.tsx).     *)
(*                                                                         *)
(* A node is only a position in the server list, which other users edit;   *)
(* the session cookie is shared with the other tabs, which sign in and     *)
(* out; rows are a snapshot whose subject (a Scrapyd job, a timer task)    *)
(* moves on. A request carries the cookie, and reads the rows, when it is  *)
(* sent; its answer may arrive much later.                                 *)
(***************************************************************************)
EXTENDS Naturals, Sequences

CONSTANTS
    Servers,      \* Scrapyd servers
    App,          \* the subject of the tasks page: the task, known to the app itself
    Lists,        \* the server lists in force at one time or another
    None,         \* nothing cached, nothing in flight, nothing open
    Failed,       \* an answer without rows: the node number does not exist
    Scenarios     \* the bounds: which page, and how often each thing of Counted may
                  \* happen, one choice for each behaviour

ASSUME ServerAssumption ==
    App \notin Servers /\ None \notin Servers \cup {App} /\ Lists \subseteq Seq(Servers)

\* Edits of the server list, sign-ins and sign-outs in other tabs, row actions sent and
\* handled, jobs and tasks that end, failed reads of auth-me, submits and logouts.
Counted == {"edits", "away", "acts", "handled", "ends", "failures", "submits"}
ASSUME ScenarioAssumption ==
    Scenarios \subseteq [view : {"jobs", "tasks"}, limits : [Counted -> Nat]]

VARIABLES
    view,      \* the page the behaviour is about: jobs or tasks
    account,   \* an account exists
    cookie,    \* the browser holds a valid session cookie
    list,      \* the server list in force
    work,      \* the job of each server, and the task of the app
    tab,       \* the tab
    act,       \* the row action in flight
    limits,    \* the bounds of the behaviour
    counts     \* how often the bounded things happened

vars == <<view, account, cookie, list, work, tab, act, limits, counts>>
setting == <<view, limits>>
world == <<setting, account, cookie, list, work>>

Subjects == Servers \cup {App}
Numbers == 1 .. 2
JobStates == {"running", "stopping", "finished"}
TaskStates == {"Running", "Paused", "Finished", "Gone"}
Verbs == {"stop", "start", "fire", "pause", "resume", "remove", "delete"}

\* A row: node number and subject it was read from, what it shows, and the counts of
\* list edits and of handled actions at that time.
Row == [number : Numbers, source : Subjects, state : JobStates \cup TaskStates,
        edits : Nat, handled : Nat]
ASSUME RowAssumption ==
    None \notin Row /\ Failed \notin Row /\ None # Failed /\ None # "part"
Cached == Row \cup {Failed, None}
Me == {"in", "out", "setup"}
\* known: the link said the job is finished; own: it was made from a row of that node.
Log == [number : Numbers, known : BOOLEAN, own : BOOLEAN, edits : Nat,
        text : {None, "part", "whole", "other"}]
Tab == [route : {"login", "home", "list", "log"},
        me : Me \cup {None}, mefetch : Me \cup {None},
        signing : {"idle", "login", "setup", "enter", "logout", "leave"},
        nodes : Lists \cup {None}, node : Numbers,
        cache : [Numbers -> Cached], fetch : [Numbers -> Cached], prev : Cached,
        ask : [row : Row, verb : Verbs] \cup {None},
        log : Log \cup {None}, acked : [Numbers -> Nat]]
Act == [pc : {"sent", "adrift", "handled", "failed"}, row : Row, verb : Verbs,
        number : Numbers, hit : Subjects \cup {None}, edits : Nat,
        order : Nat]
NoAct == [pc |-> "idle"]
Counts == [Counted -> Nat]
\* One more of it, within the bound.
Once(thing) ==
    /\ counts[thing] < limits[thing]
    /\ counts' = [counts EXCEPT ![thing] = @ + 1]

Nothing == [n \in Numbers |-> None]
\* api.authMe, as the server answers it now.
MeAnswer == IF cookie THEN "in" ELSE IF account THEN "out" ELSE "setup"
\* A page load: an empty query cache, the node of localStorage.
Fresh(route, node, answer) ==
    [route |-> route, me |-> None, mefetch |-> answer, signing |-> "idle",
     nodes |-> None, node |-> node, cache |-> Nothing, fetch |-> Nothing, prev |-> None,
     ask |-> None, log |-> None, acked |-> [n \in Numbers |-> 0]]

Init ==
    /\ \E s \in Scenarios : view = s.view /\ limits = s.limits
    /\ counts = [thing \in Counted |-> 0]
    /\ account \in BOOLEAN /\ cookie \in BOOLEAN /\ (cookie => account)
    /\ list \in Lists
    /\ work = [s \in Subjects |-> IF s = App THEN "Running" ELSE "running"]
    /\ \E route \in {"login", "home", "list"} : tab = Fresh(route, 1, MeAnswer)
    /\ act = NoAct
-----------------------------------------------------------------------------
(* The session gate.                                                          *)

Settled(s) == s.me = "in" \/ (s.me = None /\ s.mefetch = None)
\* The pages behind the gate are mounted (AuthGate waits for the first answer only).
Inside(s) == s.route # "login" /\ Settled(s)

Refetched(s, answer) == [s EXCEPT !.mefetch = IF @ = None THEN answer ELSE @]
\* Mutant: the login page keeps a cached answer, as the gate does for a minute.
ToLoginCached(s, answer) ==
    [s EXCEPT !.route = "login", !.prev = None, !.ask = None, !.log = None]
\* Another mount of auth-me, which the login page always reads again.
ToLogin(s, answer) ==
    Refetched([s EXCEPT !.route = "login", !.prev = None, !.ask = None, !.log = None], answer)

\* What React does with a new state: the gate turns away, the login page turns in.
\* Mounting the pages mounts the user menu, which reads auth-me again.
Rendered(s, answer) ==
    IF s.route # "login" /\ s.me \in {"out", "setup"} THEN ToLogin(s, answer)
    ELSE IF s.route = "login" /\ s.me = "in" THEN Refetched([s EXCEPT !.route = "home"], answer)
    ELSE s

\* redirectToLogin: a 401 outside the login page loads the application anew.
Redirect ==
    /\ tab' = Fresh("login", tab.node, MeAnswer)
    /\ act' = IF act.pc = "sent" THEN [act EXCEPT !.pc = "adrift"]
              ELSE IF act.pc = "adrift" THEN act ELSE NoAct

\* The answer of auth-me arrives; a submit or a logout that awaits it navigates.
MeApplied(s, answer, now) ==
    LET t == [s EXCEPT !.me = answer, !.mefetch = None, !.signing =
                  IF @ \in {"enter", "leave"} THEN "idle" ELSE @]
        home == [t EXCEPT !.route = "home"]
    IN  Rendered(IF s.signing = "leave" THEN ToLogin(t, now)
                 ELSE IF s.signing # "enter" THEN t
                 ELSE IF Settled(home) THEN Refetched(home, now) ELSE home, now)

MeDeliver ==
    /\ tab.mefetch # None
    /\ tab' = MeApplied(tab, tab.mefetch, MeAnswer)
    /\ UNCHANGED <<world, act, counts>>

\* Both attempts fail: what was cached stays, and an awaiting submit goes on.
MeFail ==
    /\ tab.mefetch # None
    /\ Once("failures")
    /\ tab' = MeApplied(tab, tab.me, MeAnswer)
    /\ UNCHANGED <<world, act>>

\* submit of the login page: setup while no account exists, as far as the page knows.
Submit ==
    /\ tab.route = "login" /\ tab.signing = "idle"
    /\ Once("submits")
    /\ tab' = [tab EXCEPT !.signing = IF tab.me = "setup" THEN "setup" ELSE "login"]
    /\ UNCHANGED <<world, act>>

\* invalidateQueries(["auth-me"]): a read in flight is joined until there is data.
MeInvalidated(s, answer) ==
    [s EXCEPT !.mefetch = IF s.me = None /\ @ # None THEN @ ELSE answer]

SubmitAnswer ==
    /\ tab.signing \in {"login", "setup"}
    /\ \/ /\ (tab.signing = "login") <=> account
          /\ account' = TRUE /\ cookie' = TRUE
          /\ tab' = MeInvalidated([tab EXCEPT !.signing = "enter"], "in")
       \/ \* wrong password, too short a password, setup already completed
          /\ tab' = [tab EXCEPT !.signing = "idle"]
          /\ UNCHANGED <<account, cookie>>
    /\ UNCHANGED <<setting, list, work, act, counts>>

\* logout of the user menu, and the answer to it.
Logout ==
    /\ Inside(tab) /\ tab.signing = "idle"
    /\ Once("submits")
    /\ tab' = [tab EXCEPT !.signing = "logout"]
    /\ UNCHANGED <<world, act>>

LogoutAnswer ==
    /\ tab.signing = "logout"
    /\ cookie' = FALSE
    /\ tab' = MeInvalidated([tab EXCEPT !.signing = "leave"], "out")
    /\ UNCHANGED <<setting, account, list, work, act, counts>>

\* Another tab signs in or out, or creates the account.
ElsewhereSession ==
    /\ Once("away")
    /\ cookie' = ~cookie /\ account' = TRUE
    /\ UNCHANGED <<setting, list, work, tab, act>>
-----------------------------------------------------------------------------
(* The node: a position in the server list.                                   *)

NoNodes(s) == s.nodes = None \/ s.nodes = << >>
\* Mutant: the effect is missing.
ClampedNot(s, n) == n
Clamped(s, n) == IF NoNodes(s) \/ n <= Len(s.nodes) THEN n ELSE 1

\* The rows on the screen: the jobs page keeps those of the node before as a placeholder.
Rows(s) == IF s.cache[s.node] # None THEN s.cache[s.node] ELSE s.prev

Subject(n) ==
    IF view = "tasks" THEN App ELSE IF n \in DOMAIN list THEN list[n] ELSE None
RowsNow(n) ==
    IF n \notin DOMAIN list THEN Failed
    ELSE [number |-> n, source |-> Subject(n), state |-> work[Subject(n)],
          edits |-> counts.edits, handled |-> counts.handled]

\* setNode, with the effect that clamps it.
NodeSet(s, n) ==
    LET m == Clamped(s, n)
    IN  [s EXCEPT !.node = m,
             !.prev = IF view = "jobs" /\ s.route = "list" /\ s.cache[m] = None
                      THEN Rows(s) ELSE None]

setNode(n) ==
    /\ Inside(tab) /\ ~NoNodes(tab) /\ n \in DOMAIN tab.nodes /\ n # tab.node
    /\ cookie
    /\ tab' = NodeSet(tab, n)
    /\ UNCHANGED <<world, act, counts>>

\* Mutant: an answer that never came counts as a list.
NodesDueEmpty(s) == s.nodes = << >>
\* refetchInterval of the nodes query: it stops once the list has a server.
NodesDue(s) == NoNodes(s)

NodesApplied(s, l) == LET t == [s EXCEPT !.nodes = l] IN NodeSet(t, t.node)
\* NodeProvider sits outside the gate: it polls on the login page too, where a 401 is
\* only an error.
NodesPoll ==
    /\ NodesDue(tab)
    /\ \/ cookie /\ tab.nodes # list /\ tab' = NodesApplied(tab, list) /\ act' = act
       \/ ~cookie /\ tab.route # "login" /\ Redirect
    /\ UNCHANGED <<world, counts>>

\* The poll of daemonstatus in the topbar, of which only a 401 matters here.
StatusPoll ==
    /\ Inside(tab) /\ ~NoNodes(tab) /\ ~cookie
    /\ Redirect
    /\ UNCHANGED <<world, counts>>

\* The server list is edited elsewhere, or on the settings page of this tab.
EditServers(l) ==
    /\ Once("edits") /\ l # list
    /\ list' = l
    /\ \/ tab' = tab
       \/ cookie /\ Inside(tab) /\ tab.route = "home" /\ tab' = NodesApplied(tab, l)
    /\ UNCHANGED <<setting, account, cookie, work, act>>
-----------------------------------------------------------------------------
(* The jobs and tasks pages.                                                  *)

Go(page) ==
    /\ Inside(tab) /\ page # tab.route
    /\ tab' = [tab EXCEPT !.route = page, !.prev = None, !.ask = None, !.log = None]
    /\ UNCHANGED <<world, act, counts>>

\* A card of the dashboard, whose own list may be newer than the one of the topbar.
FromDashboard(n) ==
    /\ Inside(tab) /\ cookie /\ tab.route = "home" /\ n \in DOMAIN list
    /\ tab' = NodeSet([tab EXCEPT !.route = "list"], n)
    /\ UNCHANGED <<world, act, counts>>

Listing == Inside(tab) /\ tab.route = "list"

\* The read on mount, and the polls every ten or fifteen seconds.
ListPoll ==
    /\ Listing /\ tab.fetch[tab.node] = None
    /\ \/ cookie /\ tab' = [tab EXCEPT !.fetch[tab.node] = RowsNow(tab.node)] /\ act' = act
       \/ ~cookie /\ Redirect
    /\ UNCHANGED <<world, counts>>

\* An answer arrives, also for a node or a page that has been left.
ListApply(n) ==
    /\ tab.fetch[n] # None
    /\ tab' = [tab EXCEPT !.cache[n] = tab.fetch[n], !.fetch[n] = None,
                          !.prev = IF n = tab.node THEN None ELSE @]
    /\ UNCHANGED <<world, act, counts>>

Offered(row) ==
    {verb \in Verbs :
        \/ verb = "stop" /\ row.state \in {"running", "stopping"}
        \/ verb = "start" /\ row.state = "finished"
        \/ verb \in {"fire", "remove"} /\ row.state \in {"Running", "Paused"}
        \/ verb = "pause" /\ row.state = "Running"
        \/ verb = "resume" /\ row.state = "Paused"
        \/ verb = "delete" /\ row.state = "Finished"}
Confirmed == {"remove", "delete"}

\* Mutant: the request goes to the chosen node.
NumberChosen(row) == tab.node
\* url_stop and url_start of the row hold the node it was read from; taskAction takes
\* the chosen node, which the handler does not use.
NumberOf(row) == IF view = "jobs" THEN row.number ELSE tab.node

Sent(row, verb) ==
    /\ Once("acts") /\ act = NoAct
    /\ act' = [pc |-> "sent", row |-> row, verb |-> verb, number |-> NumberOf(row),
               hit |-> None, edits |-> 0, order |-> 0]

\* A click on an action of a row; two of them open a dialog first.
Click(verb) ==
    /\ Listing /\ tab.ask = None /\ Rows(tab) \in Row /\ verb \in Offered(Rows(tab))
    /\ \/ verb \notin Confirmed /\ Sent(Rows(tab), verb) /\ tab' = tab
       \/ verb \in Confirmed /\ tab' = [tab EXCEPT !.ask = [row |-> Rows(tab), verb |-> verb]]
          /\ UNCHANGED <<act, counts>>
    /\ UNCHANGED world

Confirm ==
    /\ Listing /\ tab.ask # None
    /\ tab' = [tab EXCEPT !.ask = None]
    /\ \/ Sent(tab.ask.row, tab.ask.verb)
       \/ UNCHANGED <<act, counts>>
    /\ UNCHANGED world

After(verb, state) ==
    IF verb = "stop" /\ state = "running" THEN "stopping"
    ELSE IF verb = "pause" /\ state = "Running" THEN "Paused"
    ELSE IF verb = "resume" /\ state = "Paused" THEN "Running"
    ELSE IF verb = "remove" /\ state \in {"Running", "Paused"} THEN "Finished"
    ELSE IF verb = "delete" THEN "Gone"
    ELSE state

\* The handler: the node number is looked up in the list in force.
ActHandle ==
    /\ act.pc \in {"sent", "adrift"}
    /\ LET target == Subject(act.number)
       IN  IF target = None
           THEN /\ act' = IF act.pc = "sent" THEN [act EXCEPT !.pc = "failed"] ELSE NoAct
                /\ UNCHANGED <<work, counts>>
           ELSE /\ work' = [work EXCEPT ![target] = After(act.verb, @)]
                /\ counts' = [counts EXCEPT !.handled = @ + 1]
                /\ act' = IF act.pc = "sent"
                          THEN [act EXCEPT !.pc = "handled", !.hit = target,
                                    !.edits = counts.edits, !.order = counts.handled + 1]
                          ELSE NoAct
    /\ UNCHANGED <<setting, account, cookie, list, tab>>

\* Mutant: nothing is invalidated.
ActInvalidatedNot(s) == s
\* onSuccess invalidates the rows of the node chosen now: a read in flight is dropped
\* for a new one once the node has rows, and joined otherwise.
ActInvalidated(s) ==
    IF Inside(s) /\ s.route = "list" /\ cookie /\ (s.cache[s.node] # None \/ s.fetch[s.node] = None)
    THEN [s EXCEPT !.fetch[s.node] = RowsNow(s.node)] ELSE s

\* acked follows what the user has been told about the rows on the screen.
ActAnswer ==
    /\ act.pc \in {"handled", "failed"}
    /\ act' = NoAct
    /\ LET told == act.pc = "handled" /\ Listing /\ cookie /\ act.row.number = tab.node
           t == IF act.pc = "handled" THEN ActInvalidated(tab) ELSE tab
       IN  tab' = IF told THEN [t EXCEPT !.acked[tab.node] = act.order] ELSE t
    /\ UNCHANGED <<world, counts>>

\* A job ends, or a task fires for the last time.
WorkEnds(s) ==
    /\ work[s] \in {"running", "stopping", "Running"}
    /\ s = App <=> view = "tasks"
    /\ Once("ends")
    /\ work' = [work EXCEPT ![s] = IF s = App THEN "Finished" ELSE "finished"]
    /\ UNCHANGED <<setting, account, cookie, list, tab, act>>
-----------------------------------------------------------------------------
(* The log page, of a job named by node number and job id.                    *)

\* Mutant: every job that was stopped is taken to be finished.
KnownStopped(state) == state # "running"
\* ?finished=1 of the link.
Known(state) == state = "finished"

\* A link of a row: it takes the chosen node, also on the rows of the node before.
OpenLog ==
    /\ Listing /\ view = "jobs" /\ Rows(tab) \in Row
    /\ LET row == Rows(tab)
       IN  tab' = [tab EXCEPT !.route = "log", !.prev = None, !.ask = None,
                       !.log = [number |-> tab.node, known |-> Known(row.state),
                                own |-> row.number = tab.node, edits |-> row.edits,
                                text |-> None]]
    /\ UNCHANGED <<world, act, counts>>

\* A link of the dashboard's activity feed.
OpenRecent(n) ==
    /\ Inside(tab) /\ cookie /\ view = "jobs" /\ tab.route = "home" /\ n \in DOMAIN list
    /\ tab' = NodeSet([tab EXCEPT !.route = "log",
                   !.log = [number |-> n, known |-> Known(work[list[n]]), own |-> TRUE,
                            edits |-> counts.edits, text |-> None]], n)
    /\ UNCHANGED <<world, act, counts>>

LogText ==
    IF tab.log.number \notin DOMAIN list THEN None
    ELSE IF counts.edits # tab.log.edits THEN "other"
    ELSE IF work[list[tab.log.number]] = "finished" THEN "whole" ELSE "part"

\* The text is read again until the link, or a map of finished jobs that nothing fills,
\* says that the job is finished.
LogPoll ==
    /\ Inside(tab) /\ tab.route = "log" /\ tab.log # None
    /\ ~(tab.log.known /\ tab.log.text # None)
    /\ \/ cookie /\ tab' = [tab EXCEPT !.log.text = LogText] /\ act' = act
       \/ ~cookie /\ Redirect
    /\ UNCHANGED <<world, counts>>
-----------------------------------------------------------------------------
Session == \/ MeDeliver \/ MeFail \/ Submit \/ SubmitAnswer \/ Logout \/ LogoutAnswer
           \/ ElsewhereSession
Node == \/ NodesPoll \/ StatusPoll
        \/ \E n \in Numbers : setNode(n)
        \/ \E l \in Lists : EditServers(l)
Page == \/ ListPoll \/ Confirm \/ ActHandle \/ ActAnswer
        \/ \E page \in {"home", "list"} : Go(page)
        \/ \E n \in Numbers : FromDashboard(n) \/ ListApply(n)
        \/ \E verb \in Verbs : Click(verb)
        \/ \E s \in Subjects : WorkEnds(s)
LogPage == OpenLog \/ LogPoll \/ \E n \in Numbers : OpenRecent(n)

Next == Session \/ Node \/ Page \/ LogPage

Spec == Init /\ [][Next]_vars
\* The reads that hold for every page go on: auth-me is answered, the timers of the nodes
\* query and of the topbar fire.
Fairness == WF_vars(MeDeliver) /\ WF_vars(NodesPoll) /\ WF_vars(StatusPoll)
FairSpec == Spec /\ Fairness
-----------------------------------------------------------------------------
TypeOK ==
    /\ view \in {"jobs", "tasks"} /\ account \in BOOLEAN /\ cookie \in BOOLEAN
    /\ list \in Lists /\ work \in [Subjects -> JobStates \cup TaskStates]
    /\ limits \in [Counted -> Nat] /\ tab \in Tab /\ (~NoNodes(tab) => tab.node \in DOMAIN tab.nodes)
    /\ act \in Act \cup {NoAct} /\ counts \in Counts

\* An action sent from a row reaches the server the row was read from, also from rows
\* that stay on the screen after another node was chosen, unless the list was edited
\* between the read and the handling (jobs.tsx, url_stop of apiv2.py).
ActsHitTheirRow ==
    act.pc = "handled" /\ act.edits = act.row.edits => act.hit = act.row.source

\* Once an action on a row of the chosen node was reported done, no answer read before it
\* is put on the screen for that node (onSuccess of jobs.tsx and tasks.tsx).
ReadYourActs ==
    [][\A n \in Numbers :
        tab'.cache[n] # tab.cache[n] /\ tab'.cache[n] \in Row
            => tab'.cache[n].handled >= tab.acked[n]]_vars

\* A log that is no longer polled is the whole log of the job, when the link was made
\* from a row of its own node and the list was not edited since (log.tsx, jobs.tsx).
LogWhole == tab.log # None /\ tab.log.known /\ tab.log.own => tab.log.text # "part"

\* After a successful submit the tab gets in, although the answer the login page was
\* still waiting for says that nobody is signed in; only a lost read may leave it out
\* (login.tsx, App.tsx).
LoginSettles ==
    tab.signing = "enter" ~> (Inside(tab) \/ ~cookie \/ counts.failures > 0)

\* A tab whose session ended is sent to the login page, whatever it shows: some poll of
\* it goes on (redirectToLogin of api.ts).
SignedOutLeaves == ~cookie /\ tab.route # "login" ~> (tab.route = "login" \/ cookie)

\* A tab with a session comes to know the servers, although the first reads were refused
\* on the login page or found none (the comment on refetchInterval in node-context.tsx).
NodesHeal == cookie /\ list # << >> ~> (~NoNodes(tab) \/ ~cookie \/ list = << >>)
=============================================================================
