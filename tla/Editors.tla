------------------------------ MODULE Editors ------------------------------
(***************************************************************************)
(* The pages that edit stored configuration, each open in several browser  *)
(* tabs, against the handlers that store it: the settings page             *)
(* (pages/settings.tsx, routers/settings.py, utils/apply_settings.py), the *)
(* alert rules (pages/alerts.tsx, routers/alerts.py), the registered       *)
(* projects (components/project-dialog.tsx, project-combobox.tsx,          *)
(* AutoDeployCard of pages/deploy.tsx, routers/projects.py) and the saved  *)
(* groups (pages/group.tsx, routers/groups.py).                            *)
(*                                                                         *)
(* A tab shows its query cache, which a fetch fills in three steps (sent,  *)
(* answered, applied); a form is filled from the cache and sent later.     *)
(* Settings are stored, then applied to the running process, and rolled    *)
(* back when that fails; a row of the other kinds is committed at once.    *)
(* The kinds share no state, so a behaviour is about one of them.          *)
(***************************************************************************)
EXTENDS Naturals

CONSTANTS
    Tabs,         \* browser tabs (of one or several users)
    Elsewhere,    \* pages open elsewhere, of which only the requests are followed
    Rows,         \* row ids of the rules, projects or groups table
    Registry,     \* the settings as one document
    Fields,       \* settings keys, or columns of a row
    Flag,         \* the column a Switch of the list writes (enabled)
    ServersKey,   \* SCRAPYD_SERVERS, whose application may fail
    Values,       \* what a field can hold
    None,         \* no value: key not stored, column NULL, nothing open
    New,          \* the row a form without an id will create
    Gone,         \* there is no row with this id
    MaxWrites,    \* bound: requests in a behaviour
    MaxRestarts   \* bound: restarts of the server in a behaviour

ASSUME FieldAssumption == Flag \in Fields /\ ServersKey \in Fields
ASSUME ClientAssumption == Tabs \cap Elsewhere = {}
ASSUME RowAssumption == Registry \notin Rows /\ New \notin Rows /\ None \notin Rows
ASSUME BoundAssumption == MaxWrites \in Nat /\ MaxRestarts \in Nat

VARIABLES
    kind,      \* what the behaviour edits
    stored,    \* the database: settings rows, or the rows of the table
    live,      \* app.state.settings, None where the default is in force
    version,   \* changes of a document visible to a fetch, counted
    tab,       \* page, form, query cache and fetch of each tab
    request,   \* the request of each client, one at a time
    overlap,   \* two settings saves were handled at once since the start
    writes,    \* requests sent
    restarts   \* restarts of the server

server == <<stored, live, version, overlap>>
bounds == <<kind, writes, restarts>>
vars == <<kind, stored, live, version, tab, request, overlap, writes, restarts>>

Kinds == {"settings", "rules", "projects", "groups"}
Clients == Tabs \cup Elsewhere
Docs == Rows \cup {Registry}
Content == [Fields -> Values \cup {None}]
Blank == [f \in Fields |-> None]
Snapshot == [Docs -> [ver : Nat, val : Content \cup {Gone}]]

\* typed: fields the user has set; base: version of the row the form was filled from.
Form == [doc : Docs \cup {New, None}, val : Content, typed : SUBSET Fields, base : Nat]
NoForm == [doc |-> None, val |-> Blank, typed |-> {}, base |-> 0]
Fetches == [pc : {"none", "sent"}] \cup [pc : {"answered"}, snap : Snapshot]
NoCache == None
Tab == [mounted : BOOLEAN, form : Form, cache : Snapshot \cup {NoCache}, fetch : Fetches,
        acked : [Docs -> Nat]]

Handling == {"taken", "written", "undo", "undone", "deleted"}
Ended == {"ok", "bad", "lost"}
Ops == {"save", "reset", "put", "rotate", "create", "toggle", "delete"}
\* sent: the fields the body names; editing: what the form held at the click; prior: the
\* snapshot for the rollback; ver: the version the request produced; attached: the page
\* it was sent from is still there.
Request ==
    [pc : {"sent"} \cup Handling \cup Ended, op : Ops, doc : Docs \cup {New},
     sent : SUBSET Fields, val : Content, typed : SUBSET Fields, base : Nat,
     editing : Docs \cup {New, None}, prior : Content, ver : Nat, attached : BOOLEAN]
NoRequest == [pc |-> "idle"]

\* Mutant: a row is replaced by the columns of the body.
BodyOnly(sent, new, old) == [f \in sent |-> new[f]]

Merge(sent, new, old) == [f \in Fields |-> IF f \in sent THEN new[f] ELSE old[f]]
\* What a page elsewhere does with an answer is not followed.
Idle(c) == request[c].pc \in {"idle"} \cup (IF c \in Elsewhere THEN Ended ELSE {})
Handled(c) == request[c].pc \in Handling
HasDialog == kind \in {"rules", "projects"}

\* What each form has controls for: the settings page one control a field and an editor
\* for the list of servers; the two dialogs leave the switch to their list.
ServersControls == {ServersKey}
FieldControls == Fields \ {ServersKey}
SettingControls == FieldControls \cup ServersControls
RuleControls == Fields \ {Flag}
ProjectControls == Fields \ {Flag}
GroupControls == Fields
Controls ==
    {f \in Fields :
        \/ kind = "settings" /\ f \in SettingControls
        \/ kind = "rules" /\ f \in RuleControls
        \/ kind = "projects" /\ f \in ProjectControls
        \/ kind = "groups" /\ f \in GroupControls}

\* The form of a page nothing is being edited on: the empty draft of the settings page,
\* the empty builder of the groups page, no dialog on the others.
RestingForm ==
    [NoForm EXCEPT !.doc = IF kind = "settings" THEN Registry
                           ELSE IF kind = "groups" THEN New ELSE None]

Init ==
    /\ kind \in Kinds
    /\ stored \in [Docs -> {Blank, Gone}] /\ stored[Registry] = Blank
    /\ kind = "settings" => \A r \in Rows : stored[r] = Gone
    /\ live = stored[Registry]
    /\ version = [d \in Docs |-> 0]
    /\ tab = [t \in Tabs |-> [mounted |-> FALSE, form |-> NoForm, cache |-> NoCache,
                              fetch |-> [pc |-> "none"], acked |-> [d \in Docs |-> 0]]]
    /\ request = [c \in Clients |-> NoRequest]
    /\ overlap = FALSE
    /\ writes = 0 /\ restarts = 0
-----------------------------------------------------------------------------
(* The query cache of a tab.                                                  *)

\* The settings schema reads the running process, the other lists the database.
Visible == [d \in Docs |-> [ver |-> version[d],
                            val |-> IF d = Registry THEN live ELSE stored[d]]]

\* Mutants: a fetch in flight is joined, nothing is invalidated.
InvalidatedJoins(s) ==
    IF s.mounted /\ s.fetch.pc = "none" THEN [s EXCEPT !.fetch = [pc |-> "sent"]] ELSE s
NotInvalidated(s) == s

\* invalidateQueries refetches what is mounted; it cancels a fetch in flight only when
\* the query already has data, and otherwise joins it.
Invalidated(s) ==
    IF s.mounted /\ (s.cache # NoCache \/ s.fetch.pc = "none")
    THEN [s EXCEPT !.fetch = [pc |-> "sent"]] ELSE s

\* A page is entered: its query is stale, so it is fetched unless a fetch is in flight.
Entered(s) ==
    [s EXCEPT !.mounted = TRUE, !.form = RestingForm,
              !.fetch = IF s.fetch.pc = "none" THEN [pc |-> "sent"] ELSE s.fetch]

Enter(t) ==
    /\ ~tab[t].mounted
    /\ tab' = [tab EXCEPT ![t] = Entered(@)]
    /\ UNCHANGED <<server, bounds, request>>

\* Another page is opened: the forms and drafts of this one are dropped.
Detached(q) == IF q.pc = "idle" THEN q ELSE [q EXCEPT !.attached = FALSE]

Leave(t) ==
    /\ tab[t].mounted
    /\ tab' = [tab EXCEPT ![t].mounted = FALSE, ![t].form = NoForm]
    /\ request' = [request EXCEPT ![t] = Detached(@)]
    /\ UNCHANGED <<server, bounds>>

FetchAnswer(t) ==
    /\ tab[t].fetch.pc = "sent"
    /\ tab' = [tab EXCEPT ![t].fetch = [pc |-> "answered", snap |-> Visible]]
    /\ UNCHANGED <<server, bounds, request>>

FetchApply(t) ==
    /\ tab[t].fetch.pc = "answered"
    /\ tab' = [tab EXCEPT ![t].cache = tab[t].fetch.snap, ![t].fetch = [pc |-> "none"]]
    /\ UNCHANGED <<server, bounds, request>>
-----------------------------------------------------------------------------
(* Forms.                                                                     *)

SetForm(t, form) ==
    /\ tab' = [tab EXCEPT ![t].form = form]
    /\ UNCHANGED <<server, bounds, request>>

Shown(t, r) == tab[t].mounted /\ tab[t].cache # NoCache /\ tab[t].cache[r].val # Gone

\* Mutant: the form forgets a column of the row.
OpenPartly(t, r) ==
    /\ kind # "settings" /\ Shown(t, r)
    /\ HasDialog => tab[t].form.doc = None
    /\ SetForm(t, [doc |-> r, val |-> [tab[t].cache[r].val EXCEPT ![Flag] = None],
                   typed |-> {}, base |-> tab[t].cache[r].ver])

\* The pencil of a row; a dialog is modal, the builder of the groups page is not.
Open(t, r) ==
    /\ kind # "settings" /\ Shown(t, r)
    /\ HasDialog => tab[t].form.doc = None
    /\ SetForm(t, [doc |-> r, val |-> tab[t].cache[r].val, typed |-> {},
                   base |-> tab[t].cache[r].ver])

OpenNew(t) ==
    /\ HasDialog /\ tab[t].mounted /\ tab[t].form.doc = None
    /\ SetForm(t, [NoForm EXCEPT !.doc = New])

\* A control of the form.
SetField(t, f, v) ==
    /\ tab[t].form.doc # None
    /\ kind = "settings" => tab[t].cache # NoCache
    /\ f \in Controls
    /\ SetForm(t, [tab[t].form EXCEPT !.val[f] = v, !.typed = @ \cup {f}])

ClearField(t, f) ==
    /\ kind = "settings" /\ f \in tab[t].form.typed
    /\ SetForm(t, [tab[t].form EXCEPT !.val[f] = None, !.typed = @ \ {f}])

\* Discard, Cancel, or the dialog closed, also while its request is in flight.
Close(t) ==
    /\ tab[t].mounted /\ tab[t].form # RestingForm
    /\ SetForm(t, RestingForm)

Post(c, op, form, doc, sent, val) ==
    /\ Idle(c) /\ writes < MaxWrites
    /\ writes' = writes + 1
    /\ request' = [request EXCEPT ![c] =
           [pc |-> "sent", op |-> op, doc |-> doc, sent |-> sent, val |-> val,
            typed |-> form.typed, base |-> form.base, editing |-> form.doc,
            prior |-> Blank, ver |-> 0, attached |-> TRUE]]
    /\ UNCHANGED <<server, tab, kind, restarts>>

Send(t, op, doc, sent, val) ==
    tab[t].mounted /\ Post(t, op, tab[t].form, doc, sent, val)

\* Mutant: the dialogs send the switch along.
BodyWithFlag(form) == IF kind = "settings" THEN form.typed ELSE Fields

\* What the body of a save names: the draft of the settings page, every column a dialog
\* has a control for, every column of a group.
Body(form) == IF kind = "settings" THEN form.typed ELSE Controls

SaveOps(form) ==
    {op \in Ops :
        \/ op = "save" /\ form.doc = Registry /\ form.typed # {}
        \/ op = "create" /\ form.doc = New
        \/ op = "put" /\ form.doc \in Rows
        \/ op = "rotate" /\ form.doc \in Rows /\ kind = "projects"}

SaveForm(t) ==
    LET form == tab[t].form
    IN  \E op \in SaveOps(form) : Send(t, op, form.doc, Body(form), form.val)

\* Reset to default of a setting shown as stored, or the Switch of a listed row.
ResetSetting(t, f) ==
    /\ kind = "settings" /\ Shown(t, Registry)
    /\ tab[t].cache[Registry].val[f] # None /\ f \notin tab[t].form.typed
    /\ Send(t, "reset", Registry, {f}, Blank)

Toggle(t, r, v) ==
    /\ HasDialog /\ Shown(t, r) /\ tab[t].form.doc = None
    /\ v # tab[t].cache[r].val[Flag]
    /\ Send(t, "toggle", r, {Flag}, [Blank EXCEPT ![Flag] = v])

\* Confirmed in a dialog; registered projects have no delete button.
Delete(t, r) ==
    /\ kind \in {"rules", "groups"} /\ Shown(t, r)
    /\ kind = "rules" => tab[t].form.doc = None
    /\ Send(t, "delete", r, {}, Blank)

\* Another user's page, opened at any time before and edited in any way: the body its
\* form gives, a switch, a reset or a deletion of whatever it shows.
SendElsewhere(e) ==
    \E d \in Docs \cup {New}, s \in SUBSET Fields, v \in Content :
        LET form == [NoForm EXCEPT !.doc = d, !.typed = s, !.val = v]
        IN  /\ d = Registry <=> kind = "settings"
            /\ \A f \in Fields \ s : v[f] = None
            /\ \/ /\ s = Body(form) /\ (d = Registry => \A f \in s : v[f] # None)
                  /\ \E op \in SaveOps(form) : Post(e, op, form, d, s, v)
               \/ HasDialog /\ d \in Rows /\ s = {Flag} /\ Post(e, "toggle", form, d, s, v)
               \/ /\ d = Registry /\ v = Blank /\ (\E f \in Fields : s = {f})
                  /\ Post(e, "reset", form, d, s, v)
               \/ /\ kind \in {"rules", "groups"} /\ d \in Rows /\ s = {}
                  /\ Post(e, "delete", form, d, s, v)

-----------------------------------------------------------------------------
(* The server: rows.                                                          *)

Step(c, pc) == request' = [request EXCEPT ![c].pc = pc]
Finish(c, d, v) ==
    request' = [request EXCEPT ![c].pc = "ok", ![c].doc = d, ![c].ver = v]

Commit(c, d, row) ==
    /\ stored' = [stored EXCEPT ![d] = row]
    /\ version' = [version EXCEPT ![d] = @ + 1]
    /\ Finish(c, d, version[d] + 1)
    /\ UNCHANGED <<tab, live, overlap, bounds>>

\* 400 for a value the validation refuses, 404 for an id that is gone.
Reject(c) ==
    /\ request[c].pc = "sent" /\ request[c].op \notin {"delete", "reset"}
    /\ request[c].op = "toggle" => stored[request[c].doc] = Gone
    /\ Step(c, "bad")
    /\ UNCHANGED <<server, tab, bounds>>

CreateRow(c, r) ==
    /\ request[c].pc = "sent" /\ request[c].op = "create" /\ stored[r] = Gone
    /\ Commit(c, r, Merge(request[c].sent, request[c].val, Blank))

UpdateRow(c) ==
    LET q == request[c]
    IN  /\ q.pc = "sent" /\ q.op \in {"put", "rotate", "toggle"} /\ stored[q.doc] # Gone
        /\ Commit(c, q.doc, Merge(q.sent, q.val, stored[q.doc]))

\* Deleting what is gone answers 404, which deleteJSON takes as an answer.
DeleteRow(c) ==
    LET q == request[c]
    IN  /\ q.pc = "sent" /\ q.op = "delete"
        /\ IF stored[q.doc] = Gone
           THEN Finish(c, q.doc, version[q.doc]) /\ UNCHANGED <<server, tab, bounds>>
           ELSE Commit(c, q.doc, Gone)
-----------------------------------------------------------------------------
(* The server: save_settings, an await between any two of its steps.          *)

Take(c) ==
    /\ request[c].pc = "sent" /\ request[c].op \in {"save", "reset"}
    /\ request' = [request EXCEPT ![c].pc = "taken", ![c].prior = stored[Registry]]
    /\ overlap' = (overlap \/ \E u \in Clients : Handled(u))
    /\ UNCHANGED <<stored, live, version, tab, bounds>>

Store(c, content, pc) ==
    /\ stored' = [stored EXCEPT ![Registry] = content]
    /\ Step(c, pc)
    /\ UNCHANGED <<tab, live, version, overlap, bounds>>

WriteSettings(c) ==
    /\ request[c].pc = "taken" /\ request[c].op = "save"
    /\ Store(c, Merge(request[c].sent, request[c].val, stored[Registry]), "written")

MakeLive(c, content) ==
    /\ live' = content
    /\ version' = [version EXCEPT ![Registry] = @ + 1]
    /\ Finish(c, Registry, version[Registry] + 1)
    /\ UNCHANGED <<tab, stored, overlap, bounds>>

ApplyChanges(c) ==
    /\ request[c].pc = "written"
    /\ MakeLive(c, Merge(request[c].sent, request[c].val, live))

\* Deriving the server lists is the only failure, and comes before any live change.
ApplyFails(c) ==
    /\ request[c].pc = "written" /\ ServersKey \in request[c].sent
    /\ Step(c, "undo")
    /\ UNCHANGED <<server, tab, bounds>>

\* The rollback: keys that were stored get their old value, the others are deleted.
Had(q) == {f \in q.sent : q.prior[f] # None}

\* Mutants: the whole snapshot is written back, the new keys are not deleted, or those that
\* were stored before are deleted with them.
RestoreAll(c) ==
    /\ request[c].pc = "undo"
    /\ Store(c, request[c].prior, "undone")
KeepNew(c) ==
    /\ request[c].pc = "undone"
    /\ Store(c, stored[Registry], "bad")
DropSent(c) ==
    /\ request[c].pc = "undone"
    /\ Store(c, Merge(request[c].sent, Blank, stored[Registry]), "bad")

Restore(c) ==
    /\ request[c].pc = "undo"
    /\ Store(c, Merge(Had(request[c]), request[c].prior, stored[Registry]), "undone")

DropNew(c) ==
    LET q == request[c]
    IN  /\ q.pc = "undone"
        /\ Store(c, Merge(q.sent \ Had(q), Blank, stored[Registry]), "bad")

DeleteKeys(c) ==
    /\ request[c].pc = "taken" /\ request[c].op = "reset"
    /\ Store(c, Merge(request[c].sent, Blank, stored[Registry]), "deleted")

RestoreDefaults(c) ==
    /\ request[c].pc = "deleted"
    /\ MakeLive(c, Merge(request[c].sent, Blank, live))

\* The process is replaced: its handlers are gone and create_app overlays the stored
\* settings on the defaults.  A query of a mounted page is retried once, others are not.
\* A start that cuts no request short and leaves the live settings as they are is left
\* out: it could only lose the read of a page that is not shown.
Interrupts ==
    \/ \E c \in Clients : Handled(c) \/ request[c].pc = "sent"
    \/ overlap \/ live # stored[Registry]

Restart ==
    /\ restarts < MaxRestarts /\ Interrupts
    /\ restarts' = restarts + 1
    /\ live' = stored[Registry]
    /\ version' = [version EXCEPT ![Registry] = IF live' = live THEN @ ELSE @ + 1]
    /\ overlap' = FALSE
    /\ request' = [c \in Clients |-> IF Handled(c) \/ request[c].pc = "sent"
                                     THEN [request[c] EXCEPT !.pc = "lost"] ELSE request[c]]
    /\ tab' = [t \in Tabs |-> IF tab[t].fetch.pc = "sent" /\ ~tab[t].mounted
                              THEN [tab[t] EXCEPT !.fetch = [pc |-> "none"]] ELSE tab[t]]
    /\ UNCHANGED <<kind, stored, writes>>
-----------------------------------------------------------------------------
(* The answer reaches the tab.                                                *)

\* A save that went well empties the draft, closes the dialog or empties the builder,
\* whatever they hold by now; so does deleting the group that was in the builder.
Cleared(q) ==
    q.attached /\ \/ q.op \in {"save", "put", "create"}
                  \/ q.op = "delete" /\ q.editing = q.doc

Acknowledged(q, s) ==
    IF s.mounted /\ s.cache # NoCache
    THEN [s EXCEPT !.acked[q.doc] = IF @ < q.ver THEN q.ver ELSE @]
    ELSE s

AnswerOk(t) ==
    LET q == request[t]
        s == [tab[t] EXCEPT !.form = IF Cleared(q) THEN RestingForm ELSE tab[t].form]
    IN  /\ q.pc = "ok"
        /\ tab' = [tab EXCEPT ![t] = Invalidated(Acknowledged(q, s))]
        /\ request' = [request EXCEPT ![t] = NoRequest]
        /\ UNCHANGED <<server, bounds>>

\* A refusal or a lost connection is reported and leaves form and cache as they are.
AnswerError(t) ==
    /\ request[t].pc \in {"bad", "lost"}
    /\ request' = [request EXCEPT ![t] = NoRequest]
    /\ UNCHANGED <<server, tab, bounds>>
-----------------------------------------------------------------------------
Server(c) ==
    \/ Reject(c) \/ UpdateRow(c) \/ DeleteRow(c)
    \/ \E r \in Rows : CreateRow(c, r)
    \/ Take(c) \/ WriteSettings(c) \/ ApplyChanges(c) \/ ApplyFails(c)
    \/ Restore(c) \/ DropNew(c) \/ DeleteKeys(c) \/ RestoreDefaults(c)

User(t) ==
    \/ Enter(t) \/ Leave(t) \/ OpenNew(t) \/ Close(t) \/ SaveForm(t)
    \/ \E r \in Rows : Open(t, r) \/ Delete(t, r) \/ \E v \in Values : Toggle(t, r, v)
    \/ \E f \in Fields : ClearField(t, f) \/ ResetSetting(t, f)
                         \/ \E v \in Values : SetField(t, f, v)

Browser(t) == FetchAnswer(t) \/ FetchApply(t) \/ AnswerOk(t) \/ AnswerError(t)

Next ==
    \/ \E t \in Tabs : User(t) \/ Browser(t)
    \/ \E e \in Elsewhere : SendElsewhere(e)
    \/ \E c \in Clients : Server(c)
    \/ Restart

Spec == Init /\ [][Next]_vars

\* Requests and answers travel; users, restarts and the handlers' outcomes are free.
FairSpec == Spec /\ \A t \in Tabs : WF_vars(FetchAnswer(t)) /\ WF_vars(FetchApply(t))
-----------------------------------------------------------------------------
\* Every variable has its type (the shapes above).
TypeOK ==
    /\ kind \in Kinds
    /\ stored \in [Docs -> Content \cup {Gone}] /\ stored[Registry] \in Content
    /\ live \in Content
    /\ version \in [Docs -> Nat]
    /\ tab \in [Tabs -> Tab]
    /\ request \in [Clients -> Request \cup {NoRequest}]
    /\ overlap \in BOOLEAN
    /\ writes \in 0..MaxWrites /\ restarts \in 0..MaxRestarts

\* When no handler is at work, the running process has exactly the stored settings: a
\* save that could not be applied is undone in full, a reset reaches both.  It takes
\* two saves handled at once to separate them, until the next start.
LiveFollowsStore ==
    ~overlap /\ (\A c \in Clients : ~Handled(c)) => live = stored[Registry]

\* A setting changes, stored or live, only by a request that names it, even when saves
\* overlap and one of them is rolled back from its older snapshot; a start apart.
SavesTouchOwnKeys ==
    [][\A f \in Fields :
         /\ stored'[Registry][f] # stored[Registry][f]
                => \E c \in Clients : Handled(c) /\ f \in request[c].sent
         /\ restarts' = restarts /\ live'[f] # live[f]
                => \E c \in Clients : Handled(c) /\ f \in request[c].sent]_vars

\* Saving a form that was opened on the row as it still is changes only what the user
\* touched: the form gives back every other column as it was read.
FormsKeepOtherColumns ==
    [][\A t \in Tabs :
         LET q == request[t]
         IN  q.pc = "sent" /\ q.op \in {"put", "rotate"} /\ request'[t].pc = "ok"
                /\ q.base = version[q.doc]
             => \A f \in Fields \ q.typed : stored'[q.doc][f] = stored[q.doc][f]]_vars

\* Saving the dialog of a rule or a project never undoes its enabled switch, however
\* old the row it was opened on.
ToggleSticks ==
    [][\A r \in Rows :
         HasDialog /\ Gone \notin {stored[r], stored'[r]} /\ stored'[r][Flag] # stored[r][Flag]
         => \E c \in Clients : request[c].pc = "sent" /\ request[c].op = "toggle"
                                /\ request[c].doc = r]_vars

\* Once a tab was told that its change is stored, no answer fetched before the change
\* enters its cache (onSuccess invalidates, which cancels the fetch under way).
ReadYourSaves ==
    [][\A t \in Tabs, d \in Docs :
         tab'[t].cache # tab[t].cache => tab'[t].cache[d].ver >= tab'[t].acked[d]]_vars

\* What it still has to show of its own changes it comes to show, unless the user
\* leaves the page: the list fetched after a save is not lost.
Behind(t) ==
    /\ tab[t].mounted /\ tab[t].cache # NoCache
    /\ \E d \in Docs : tab[t].cache[d].ver < tab[t].acked[d]

OwnSaveShown == \A t \in Tabs : []<>~Behind(t)

\* The contract of the settings page, SettingsContract, with the running process and the
\* handlers of settings requests as its state.  A setting is loose where the tables differ
\* from the process.
IsSave(c) == request[c] # NoRequest /\ request[c].op \in {"save", "reset"}
PhaseOf(c) ==
    IF ~IsSave(c) THEN "none" ELSE IF Handled(c) THEN "working" ELSE request[c].pc
AskOf(c) ==
    IF IsSave(c) THEN [keys |-> request[c].sent, new |-> request[c].val]
    ELSE [keys |-> {}, new |-> {}]
Unsettled == {f \in Fields : live[f] # stored[Registry][f]}

Contract == INSTANCE SettingsContract WITH
    Client <- Clients, Key <- Fields, Value <- Values \cup {None},
    value  <- live,
    phase  <- [c \in Clients |-> PhaseOf(c)],
    ask    <- [c \in Clients |-> AskOf(c)],
    loose  <- Unsettled,
    mixed  <- overlap

\* Whatever handlers, failed applications, rollbacks, resets and restarts interleave, the
\* settings in force are a behaviour of SettingsContract: a save that was answered with ok
\* took effect in full, a refused one not at all, and a crash puts nothing into force but
\* what the save it cut off had asked for.
ImplementsContract == Contract!Spec
=============================================================================
