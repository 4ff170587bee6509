--------------------------- MODULE Editors_proofs ---------------------------
(* Proofs about Editors: type correctness, the settings that are stored and    *)
(* live, and what forms and caches keep of the rows.                           *)
EXTENDS Editors, TLAPS

\* What a request is about fits what it does, a reset asks for no value, and the dialogs do
\* not send the switch.
RequestFits(q) ==
    /\ q.op \in {"put", "rotate", "toggle", "delete"} => q.doc \in Rows
    /\ q.op \in {"save", "reset"} => q.doc = Registry
    /\ q.op = "reset" => q.val = Blank
    /\ q.pc = "deleted" => q.op = "reset"
    /\ q.op \in {"put", "rotate"} /\ HasDialog => Flag \notin q.sent
    /\ q.pc \in Handling => q.op \in {"save", "reset"}
Fits == \A c \in Clients : request[c] # NoRequest => RequestFits(request[c])
Typed == TypeOK /\ Fits

LEMMA MergeType ==
    ASSUME NEW s, NEW a \in Content, NEW b \in Content
    PROVE  Merge(s, a, b) \in Content
BY DEF Merge, Content

LEMMA BlankType == Blank \in Content
BY DEF Blank, Content

LEMMA RestingType == RestingForm \in Form
BY BlankType DEF RestingForm, NoForm, Form, Docs

LEMMA InitTyped == Init => Typed
<1> SUFFICES ASSUME Init PROVE Typed
  OBVIOUS
<1>1. stored \in [Docs -> Content \cup {Gone}] /\ stored[Registry] \in Content
  BY BlankType DEF Init, Docs
<1>2. tab \in [Tabs -> Tab]
  BY BlankType DEF Init, Tab, NoForm, Form, Fetches
<1>3. request \in [Clients -> Request \cup {NoRequest}] /\ Fits
  BY DEF Init, Fits, NoRequest
<1>4. writes \in 0..MaxWrites /\ restarts \in 0..MaxRestarts /\ live \in Content
  BY <1>1, BoundAssumption DEF Init
<1>5. version \in [Docs -> Nat] /\ kind \in Kinds /\ overlap \in BOOLEAN
  BY DEF Init
<1> QED BY <1>1, <1>2, <1>3, <1>4, <1>5 DEF Typed, TypeOK
-----------------------------------------------------------------------------
(* Typed is preserved: the tab's own steps.                                   *)

\* What a tab's step may change, and what then stays typed.
LEMMA TabStep ==
    ASSUME Typed, NEW t \in Tabs, NEW s \in Tab, tab' = [tab EXCEPT ![t] = s],
           UNCHANGED <<server, bounds, request>>
    PROVE  Typed'
<1>1. tab' \in [Tabs -> Tab]
  BY DEF Typed, TypeOK
<1> QED BY <1>1 DEF Typed, TypeOK, Fits, RequestFits, HasDialog, server, bounds

LEMMA FormStep ==
    ASSUME Typed, NEW t \in Tabs, NEW form \in Form, SetForm(t, form)
    PROVE  Typed'
<1>1. [tab[t] EXCEPT !.form = form] \in Tab
  BY DEF Typed, TypeOK, Tab
<1>2. tab' = [tab EXCEPT ![t] = [tab[t] EXCEPT !.form = form]]
  BY DEF SetForm, Typed, TypeOK
<1> QED BY <1>1, <1>2, TabStep DEF SetForm

LEMMA PageTyped ==
    ASSUME Typed, NEW t \in Tabs, Enter(t) \/ FetchAnswer(t) \/ FetchApply(t)
    PROVE  Typed'
<1>1. CASE Enter(t)
  <2>1. Entered(tab[t]) \in Tab
    BY RestingType DEF Typed, TypeOK, Tab, Entered, Fetches
  <2> QED BY <1>1, <2>1, TabStep DEF Enter
<1>2. CASE FetchAnswer(t)
  <2>1. Visible \in Snapshot
    BY DEF Visible, Snapshot, Typed, TypeOK, Docs
  <2>2. [tab[t] EXCEPT !.fetch = [pc |-> "answered", snap |-> Visible]] \in Tab
    BY <2>1 DEF Typed, TypeOK, Tab, Fetches
  <2>3. tab' = [tab EXCEPT ![t] = [tab[t] EXCEPT !.fetch = [pc |-> "answered", snap |-> Visible]]]
    BY <1>2 DEF FetchAnswer, Typed, TypeOK
  <2> QED BY <1>2, <2>2, <2>3, TabStep DEF FetchAnswer
<1>3. CASE FetchApply(t)
  <2> DEFINE s == [tab[t] EXCEPT !.cache = tab[t].fetch.snap, !.fetch = [pc |-> "none"]]
  <2>1. tab[t].fetch.snap \in Snapshot
    BY <1>3 DEF FetchApply, Typed, TypeOK, Tab, Fetches
  <2>2. s \in Tab
    BY <2>1 DEF Typed, TypeOK, Tab, Fetches
  <2>3. tab' = [tab EXCEPT ![t] = s]
    BY <1>3 DEF FetchApply, Typed, TypeOK
  <2> QED BY <1>3, <2>2, <2>3, TabStep DEF FetchApply
<1> QED BY <1>1, <1>2, <1>3

LEMMA FormsTyped ==
    ASSUME Typed, NEW t \in Tabs,
           \/ OpenNew(t) \/ Close(t)
           \/ \E r \in Rows : Open(t, r)
           \/ \E f \in Fields : ClearField(t, f) \/ \E v \in Values : SetField(t, f, v)
    PROVE  Typed'
<1>0. tab[t] \in Tab /\ tab[t].form \in Form
  BY DEF Typed, TypeOK, Tab
<1>1. CASE OpenNew(t)
  <2>1. [NoForm EXCEPT !.doc = New] \in Form
    BY BlankType DEF NoForm, Form
  <2> QED BY <1>1, <2>1, FormStep DEF OpenNew
<1>2. CASE Close(t)
  BY <1>2, RestingType, FormStep DEF Close
<1>3. CASE \E r \in Rows : Open(t, r)
  <2>1. PICK r \in Rows : Open(t, r)
    BY <1>3
  <2>2. tab[t].cache[r].val \in Content /\ tab[t].cache[r].ver \in Nat
    BY <2>1, <1>0 DEF Open, Shown, Tab, Snapshot, Docs
  <2>3. [doc |-> r, val |-> tab[t].cache[r].val, typed |-> {},
         base |-> tab[t].cache[r].ver] \in Form
    BY <2>2 DEF Form, Docs
  <2> QED BY <2>1, <2>3, FormStep DEF Open
<1>4. ASSUME NEW f \in Fields, NEW v \in Values, SetField(t, f, v)
      PROVE  Typed'
  <2>1. [tab[t].form EXCEPT !.val[f] = v, !.typed = @ \cup {f}] \in Form
    BY <1>0 DEF Form, Content
  <2> QED BY <1>4, <2>1, FormStep DEF SetField
<1>5. ASSUME NEW f \in Fields, ClearField(t, f)
      PROVE  Typed'
  <2>1. [tab[t].form EXCEPT !.val[f] = None, !.typed = @ \ {f}] \in Form
    BY <1>0 DEF Form, Content
  <2> QED BY <1>5, <2>1, FormStep DEF ClearField
<1> QED BY <1>1, <1>2, <1>3, <1>4, <1>5

\* One request is replaced.
LEMMA RequestStep ==
    ASSUME Typed, NEW c \in Clients, NEW q \in Request, RequestFits(q),
           request' = [request EXCEPT ![c] = q], kind' = kind
    PROVE  /\ request' \in [Clients -> Request \cup {NoRequest}]
           /\ Fits'
BY DEF Typed, TypeOK, Fits, RequestFits, HasDialog

LEMMA LeaveTyped ==
    ASSUME Typed, NEW t \in Tabs, Leave(t)
    PROVE  Typed'
<1>1. [tab[t] EXCEPT !.mounted = FALSE, !.form = NoForm] \in Tab
  BY BlankType DEF Typed, TypeOK, Tab, NoForm, Form
<1>2. tab' = [tab EXCEPT ![t] = [tab[t] EXCEPT !.mounted = FALSE, !.form = NoForm]]
  BY DEF Leave, Typed, TypeOK
<1>3. tab' \in [Tabs -> Tab]
  BY <1>1, <1>2 DEF Typed, TypeOK
<1>4. /\ request' \in [Clients -> Request \cup {NoRequest}]
      /\ Fits'
  <2>0. t \in Clients /\ kind' = kind /\ request' = [request EXCEPT ![t] = Detached(request[t])]
    BY DEF Leave, Clients, bounds
  <2>1. CASE request[t] = NoRequest
    <3>1. Detached(request[t]) = request[t]
      BY <2>1 DEF Detached, NoRequest
    <3>2. request' = request
      BY <3>1, <2>0 DEF Typed, TypeOK
    <3> QED BY <3>2, <2>0 DEF Typed, TypeOK, Fits, RequestFits, HasDialog
  <2>2. CASE request[t] # NoRequest
    <3>1. request[t] \in Request /\ RequestFits(request[t])
      BY <2>0, <2>2 DEF Typed, TypeOK, Fits
    <3>2. Detached(request[t]) \in Request /\ RequestFits(Detached(request[t]))
      BY <3>1 DEF Detached, Request, RequestFits
    <3> QED BY <2>0, <3>2, RequestStep
  <2> QED BY <2>1, <2>2
<1> QED BY <1>3, <1>4 DEF Typed, TypeOK, Leave, server, bounds

LEMMA PostTyped ==
    ASSUME Typed, NEW c \in Clients, NEW op \in Ops, NEW form \in Form,
           NEW doc \in Docs \cup {New}, NEW sent \in SUBSET Fields, NEW val \in Content,
           op \in {"put", "rotate", "toggle", "delete"} => doc \in Rows,
           op \in {"save", "reset"} => doc = Registry, op = "reset" => val = Blank,
           op \in {"put", "rotate"} /\ HasDialog => Flag \notin sent,
           Post(c, op, form, doc, sent, val)
    PROVE  Typed'
<1> DEFINE q == [pc |-> "sent", op |-> op, doc |-> doc, sent |-> sent, val |-> val,
                 typed |-> form.typed, base |-> form.base, editing |-> form.doc,
                 prior |-> Blank, ver |-> 0, attached |-> TRUE]
<1>1. q \in Request
  BY BlankType DEF Request, Form
<1>2. RequestFits(q)
  BY DEF RequestFits, Handling
<1>3. request' = [request EXCEPT ![c] = q] /\ kind' = kind
  BY DEF Post
<1> HIDE DEF q
<1>4. request' \in [Clients -> Request \cup {NoRequest}] /\ Fits'
  BY <1>1, <1>2, <1>3, RequestStep
<1>5. writes' \in 0..MaxWrites
  BY BoundAssumption DEF Post, Typed, TypeOK
<1> QED BY <1>4, <1>5 DEF Typed, TypeOK, Post, server

\* The body of a save fits what it does.
LEMMA BodyFits ==
    ASSUME Typed, NEW form \in Form, NEW op \in SaveOps(form)
    PROVE  /\ op \in Ops \ {"reset"} /\ form.doc \in Docs \cup {New}
           /\ op \in {"put", "rotate", "toggle", "delete"} => form.doc \in Rows
           /\ op \in {"save", "reset"} => form.doc = Registry
           /\ Body(form) \in SUBSET Fields
           /\ op \in {"put", "rotate"} /\ HasDialog => Flag \notin Body(form)
<1>1. Body(form) \in SUBSET Fields
  BY DEF Body, Controls, Form
<1>2. HasDialog => Flag \notin Body(form)
  BY DEF HasDialog, Body, Controls, RuleControls, ProjectControls
<1> QED BY <1>1, <1>2 DEF SaveOps, Docs

LEMMA SendsTyped ==
    ASSUME Typed, NEW t \in Tabs,
           \/ SaveForm(t)
           \/ \E f \in Fields : ResetSetting(t, f)
           \/ \E r \in Rows : Delete(t, r) \/ \E v \in Values : Toggle(t, r, v)
    PROVE  Typed'
<1>0. tab[t].form \in Form /\ t \in Clients
  BY DEF Typed, TypeOK, Tab, Clients
<1>1. CASE SaveForm(t)
  <2>1. PICK op \in SaveOps(tab[t].form) :
            Post(t, op, tab[t].form, tab[t].form.doc, Body(tab[t].form), tab[t].form.val)
    BY <1>1 DEF SaveForm, Send
  <2>2. tab[t].form.val \in Content
    BY <1>0 DEF Form
  <2> QED BY <1>0, <2>1, <2>2, BodyFits, PostTyped
<1>2. ASSUME NEW f \in Fields, ResetSetting(t, f)
      PROVE  Typed'
  <2>1. Post(t, "reset", tab[t].form, Registry, {f}, Blank)
    BY <1>2 DEF ResetSetting, Send
  <2>2. "reset" \in Ops /\ Registry \in Docs \cup {New} /\ {f} \in SUBSET Fields
    BY DEF Ops, Docs
  <2> QED BY <1>0, <2>1, <2>2, BlankType, PostTyped
<1>3. ASSUME NEW r \in Rows, Delete(t, r)
      PROVE  Typed'
  <2>1. Post(t, "delete", tab[t].form, r, {}, Blank)
    BY <1>3 DEF Delete, Send
  <2>2. "delete" \in Ops /\ r \in Docs \cup {New} /\ {} \in SUBSET Fields
    BY DEF Ops, Docs
  <2> QED BY <1>0, <2>1, <2>2, BlankType, PostTyped
<1>4. ASSUME NEW r \in Rows, NEW v \in Values, Toggle(t, r, v)
      PROVE  Typed'
  <2>1. Post(t, "toggle", tab[t].form, r, {Flag}, [Blank EXCEPT ![Flag] = v])
    BY <1>4 DEF Toggle, Send
  <2>2. "toggle" \in Ops /\ r \in Docs \cup {New} /\ {Flag} \in SUBSET Fields
    BY FieldAssumption DEF Ops, Docs
  <2>3. [Blank EXCEPT ![Flag] = v] \in Content
    BY FieldAssumption DEF Blank, Content
  <2> QED BY <1>0, <2>1, <2>2, <2>3, PostTyped
<1> QED BY <1>1, <1>2, <1>3, <1>4

\* What a page elsewhere sends.
LEMMA ElsewhereTyped ==
    ASSUME Typed, NEW e \in Elsewhere, SendElsewhere(e)
    PROVE  Typed'
<1>1. PICK d \in Docs \cup {New}, s \in SUBSET Fields, v \in Content :
        LET form == [NoForm EXCEPT !.doc = d, !.typed = s, !.val = v]
        IN  /\ d = Registry <=> kind = "settings"
            /\ \A f \in Fields \ s : v[f] = None
            /\ \/ /\ s = Body(form) /\ (d = Registry => \A f \in s : v[f] # None)
                  /\ \E op \in SaveOps(form) : Post(e, op, form, d, s, v)
               \/ HasDialog /\ d \in Rows /\ s = {Flag} /\ Post(e, "toggle", form, d, s, v)
               \/ /\ d = Registry /\ v = Blank /\ (\E f \in Fields : s = {f})
                  /\ Post(e, "reset", form, d, s, v)
               \/ /\ kind \in {"rules", "groups"} /\ d \in Rows /\ s = {}
                  /\ Post(e, "delete", form, d, s, v)
  BY Zenon DEF SendElsewhere
<1> DEFINE form == [NoForm EXCEPT !.doc = d, !.typed = s, !.val = v]
<1>2. form \in Form /\ form.doc = d
  BY DEF Form, NoForm
<1>3. e \in Clients /\ {"toggle", "reset", "delete"} \subseteq Ops
  BY DEF Clients, Ops
<1> HIDE DEF form
<1>4. CASE s = Body(form) /\ \E op \in SaveOps(form) : Post(e, op, form, d, s, v)
  <2>1. PICK op \in SaveOps(form) : Post(e, op, form, d, s, v)
    BY <1>4
  <2> QED BY <1>2, <1>3, <1>4, <2>1, BodyFits, PostTyped
<1>5. CASE HasDialog /\ d \in Rows /\ s = {Flag} /\ Post(e, "toggle", form, d, s, v)
  BY <1>2, <1>3, <1>5, PostTyped
<1>6. CASE d = Registry /\ v = Blank /\ Post(e, "reset", form, d, s, v)
  BY <1>2, <1>3, <1>6, PostTyped
<1>7. CASE d \in Rows /\ Post(e, "delete", form, d, s, v)
  BY <1>2, <1>3, <1>7, PostTyped
<1> QED BY <1>1, <1>4, <1>5, <1>6, <1>7 DEF form
-----------------------------------------------------------------------------
(* Typed is preserved: the server and the answers.                            *)

LEMMA RequestType ==
    ASSUME Typed, NEW c \in Clients, request[c].pc # "idle"
    PROVE  request[c] \in Request /\ RequestFits(request[c])
BY DEF Typed, TypeOK, Fits, NoRequest

\* A step of a handler: one request moves on, the rest stays typed.
LEMMA HandlerStep ==
    ASSUME Typed, NEW c \in Clients, NEW q \in Request, RequestFits(q),
           request' = [request EXCEPT ![c] = q], UNCHANGED <<tab, bounds>>,
           stored' \in [Docs -> Content \cup {Gone}], stored'[Registry] \in Content,
           live' \in Content, version' \in [Docs -> Nat], overlap' \in BOOLEAN
    PROVE  Typed'
<1>1. request' \in [Clients -> Request \cup {NoRequest}] /\ Fits'
  BY RequestStep DEF bounds
<1> QED BY <1>1 DEF Typed, TypeOK, bounds

LEMMA CommitTyped ==
    ASSUME Typed, NEW c \in Clients, NEW d \in Rows, NEW row \in Content \cup {Gone},
           request[c].pc = "sent", request[c].op \notin {"save", "reset"}, Commit(c, d, row)
    PROVE  Typed'
<1>1. request[c] \in Request /\ RequestFits(request[c])
  BY RequestType
<1> DEFINE q == [request[c] EXCEPT !.pc = "ok", !.doc = d, !.ver = version[d] + 1]
<1>2. d \in Docs /\ version[d] + 1 \in Nat /\ d # Registry
  BY RowAssumption DEF Docs, Typed, TypeOK
<1>3. q \in Request /\ RequestFits(q)
  BY <1>1, <1>2 DEF Request, RequestFits, Ended, Handling
<1>4. request' = [request EXCEPT ![c] = q]
  BY DEF Commit, Finish, Typed, TypeOK
<1>5. /\ stored' \in [Docs -> Content \cup {Gone}] /\ stored'[Registry] \in Content
      /\ version' \in [Docs -> Nat]
  BY <1>2 DEF Commit, Typed, TypeOK
<1> HIDE DEF q
<1> QED BY <1>3, <1>4, <1>5, HandlerStep DEF Commit, Typed, TypeOK

\* A handler that only moves to another point.
LEMMA StepTyped ==
    ASSUME Typed, NEW c \in Clients, NEW pc \in Handling \cup Ended, Step(c, pc),
           request[c].pc # "idle",
           pc \in Handling => request[c].op \in {"save", "reset"},
           pc = "deleted" => request[c].op = "reset",
           UNCHANGED <<tab, bounds>>,
           stored' \in [Docs -> Content \cup {Gone}], stored'[Registry] \in Content,
           live' \in Content, version' \in [Docs -> Nat], overlap' \in BOOLEAN
    PROVE  Typed'
<1>1. request[c] \in Request /\ RequestFits(request[c])
  BY RequestType
<1> DEFINE q == [request[c] EXCEPT !.pc = pc]
<1>2. q \in Request /\ RequestFits(q)
  BY <1>1 DEF Request, RequestFits
<1>3. request' = [request EXCEPT ![c] = q]
  BY DEF Step, Typed, TypeOK
<1> HIDE DEF q
<1> QED BY <1>2, <1>3, HandlerStep

LEMMA RowsTyped ==
    ASSUME Typed, NEW c \in Clients,
           \/ Reject(c) \/ UpdateRow(c) \/ DeleteRow(c)
           \/ \E r \in Rows : CreateRow(c, r)
    PROVE  Typed'
<1>1. CASE Reject(c)
  <2>1. "bad" \in Handling \cup Ended /\ "bad" \notin Handling
    BY DEF Handling, Ended
  <2> QED BY <1>1, <2>1, StepTyped DEF Reject, server, Typed, TypeOK
<1>2. CASE UpdateRow(c)
  <2>1. request[c] \in Request /\ request[c].doc \in Rows
    BY <1>2, RequestType DEF UpdateRow, RequestFits
  <2>2. stored[request[c].doc] \in Content /\ request[c].val \in Content
    BY <1>2, <2>1 DEF UpdateRow, Typed, TypeOK, Docs, Request
  <2>3. Merge(request[c].sent, request[c].val, stored[request[c].doc]) \in Content
    BY <2>2, MergeType
  <2> QED BY <1>2, <2>1, <2>3, CommitTyped DEF UpdateRow
<1>3. CASE DeleteRow(c)
  <2>1. request[c] \in Request /\ RequestFits(request[c]) /\ request[c].doc \in Rows
    BY <1>3, RequestType DEF DeleteRow, RequestFits
  <2>2. CASE Commit(c, request[c].doc, Gone)
    BY <1>3, <2>1, <2>2, CommitTyped DEF DeleteRow
  <2>3. CASE Finish(c, request[c].doc, version[request[c].doc]) /\ UNCHANGED <<server, tab, bounds>>
    <3> DEFINE q == [request[c] EXCEPT !.pc = "ok", !.doc = request[c].doc,
                                       !.ver = version[request[c].doc]]
    <3>1. q \in Request /\ RequestFits(q)
      BY <2>1 DEF Request, RequestFits, Ended, Handling, Docs, Typed, TypeOK
    <3>2. request' = [request EXCEPT ![c] = q]
      BY <2>3 DEF Finish, Typed, TypeOK
    <3> HIDE DEF q
    <3> QED BY <2>3, <3>1, <3>2, HandlerStep DEF server, Typed, TypeOK
  <2> QED BY <1>3, <2>2, <2>3 DEF DeleteRow
<1>4. ASSUME NEW r \in Rows, CreateRow(c, r)
      PROVE  Typed'
  <2>1. request[c] \in Request
    BY <1>4, RequestType DEF CreateRow
  <2>2. Merge(request[c].sent, request[c].val, Blank) \in Content
    BY <2>1, BlankType, MergeType DEF Request
  <2> QED BY <1>4, <2>2, CommitTyped DEF CreateRow
<1> QED BY <1>1, <1>2, <1>3, <1>4

LEMMA StoreTyped ==
    ASSUME Typed, NEW c \in Clients, NEW content \in Content, NEW pc \in Handling \cup {"bad"},
           request[c].pc # "idle", request[c].op \in {"save", "reset"},
           pc = "deleted" => request[c].op = "reset", Store(c, content, pc)
    PROVE  Typed'
<1>1. stored' \in [Docs -> Content \cup {Gone}] /\ stored'[Registry] \in Content
  BY DEF Store, Typed, TypeOK, Docs
<1>2. pc \in Handling \cup Ended
  BY DEF Ended
<1> QED BY <1>1, <1>2, StepTyped DEF Store, Typed, TypeOK

LEMMA MakeLiveTyped ==
    ASSUME Typed, NEW c \in Clients, NEW content \in Content,
           request[c].pc # "idle", request[c].op \in {"save", "reset"}, MakeLive(c, content)
    PROVE  Typed'
<1>1. request[c] \in Request /\ RequestFits(request[c])
  BY RequestType
<1>2. Registry \in Docs /\ version[Registry] + 1 \in Nat
  BY DEF Docs, Typed, TypeOK
<1> DEFINE q == [request[c] EXCEPT !.pc = "ok", !.doc = Registry, !.ver = version[Registry] + 1]
<1>3. q \in Request /\ RequestFits(q)
  BY <1>1, <1>2 DEF Request, RequestFits, Ended, Handling
<1>4. request' = [request EXCEPT ![c] = q]
  BY DEF MakeLive, Finish, Typed, TypeOK
<1>5. version' \in [Docs -> Nat]
  BY <1>2 DEF MakeLive, Typed, TypeOK
<1> HIDE DEF q
<1> QED BY <1>3, <1>4, <1>5, HandlerStep DEF MakeLive, Typed, TypeOK

LEMMA SettingsTyped ==
    ASSUME Typed, NEW c \in Clients,
           \/ Take(c) \/ WriteSettings(c) \/ ApplyChanges(c) \/ ApplyFails(c)
           \/ Restore(c) \/ DropNew(c) \/ DeleteKeys(c) \/ RestoreDefaults(c)
    PROVE  Typed'
<1>0. /\ request[c].pc \in {"sent"} \cup Handling
      /\ request[c].op \in {"save", "reset"}
      /\ request[c].pc # "idle"
  <2>1. request[c].pc \in {"sent"} \cup Handling /\ request[c].pc # "idle"
    BY DEF Take, WriteSettings, ApplyChanges, ApplyFails, Restore, DropNew, DeleteKeys,
           RestoreDefaults, Handling
  <2>2. RequestFits(request[c])
    BY <2>1, RequestType
  <2> QED BY <2>1, <2>2 DEF RequestFits, Take, WriteSettings, ApplyChanges, ApplyFails,
             Restore, DropNew, DeleteKeys, RestoreDefaults, Handling
<1>1. request[c] \in Request /\ RequestFits(request[c])
  BY <1>0, RequestType
<1>2. /\ stored[Registry] \in Content /\ live \in Content
      /\ request[c].val \in Content /\ request[c].prior \in Content
  BY <1>1 DEF Typed, TypeOK, Request
<1>3. {"written", "undo", "undone", "deleted", "taken"} \subseteq Handling
  BY DEF Handling
<1>4. CASE Take(c)
  <2> DEFINE q == [request[c] EXCEPT !.pc = "taken", !.prior = stored[Registry]]
  <2>1. q \in Request /\ RequestFits(q)
    BY <1>0, <1>1, <1>2, <1>3 DEF Request, RequestFits
  <2>2. request' = [request EXCEPT ![c] = q]
    BY <1>4 DEF Take, Typed, TypeOK
  <2> HIDE DEF q
  <2>3. overlap' \in BOOLEAN
    BY <1>4 DEF Take
  <2> QED BY <1>4, <2>1, <2>2, <2>3, HandlerStep DEF Take, Typed, TypeOK
<1>5. CASE WriteSettings(c)
  <2>1. Merge(request[c].sent, request[c].val, stored[Registry]) \in Content
    BY <1>2, MergeType
  <2> QED BY <1>0, <1>3, <1>5, <2>1, StoreTyped DEF WriteSettings
<1>6. CASE ApplyChanges(c)
  <2>1. Merge(request[c].sent, request[c].val, live) \in Content
    BY <1>2, MergeType
  <2> QED BY <1>0, <1>6, <2>1, MakeLiveTyped DEF ApplyChanges
<1>7. CASE ApplyFails(c)
  BY <1>0, <1>2, <1>3, <1>7, StepTyped DEF ApplyFails, server, Typed, TypeOK
<1>8. CASE Restore(c)
  <2>1. Merge(Had(request[c]), request[c].prior, stored[Registry]) \in Content
    BY <1>2, MergeType
  <2> QED BY <1>0, <1>3, <1>8, <2>1, StoreTyped DEF Restore
<1>9. CASE DropNew(c)
  <2>1. Merge(request[c].sent \ Had(request[c]), Blank, stored[Registry]) \in Content
    BY <1>2, BlankType, MergeType
  <2> QED BY <1>0, <1>9, <2>1, StoreTyped DEF DropNew
<1>10. CASE DeleteKeys(c)
  <2>1. Merge(request[c].sent, Blank, stored[Registry]) \in Content
    BY <1>2, BlankType, MergeType
  <2> QED BY <1>0, <1>3, <1>10, <2>1, StoreTyped DEF DeleteKeys
<1>11. CASE RestoreDefaults(c)
  <2>1. Merge(request[c].sent, Blank, live) \in Content
    BY <1>2, BlankType, MergeType
  <2> QED BY <1>0, <1>11, <2>1, MakeLiveTyped DEF RestoreDefaults
<1> QED BY <1>4, <1>5, <1>6, <1>7, <1>8, <1>9, <1>10, <1>11

LEMMA RestartTyped == ASSUME Typed, Restart PROVE Typed'
<1>1. /\ stored' \in [Docs -> Content \cup {Gone}] /\ stored'[Registry] \in Content
      /\ live' \in Content /\ version' \in [Docs -> Nat] /\ overlap' \in BOOLEAN
      /\ kind' = kind /\ writes' = writes
  <2>1. version' \in [Docs -> Nat]
    <3>1. CASE live' = live
      BY <3>1 DEF Restart, Typed, TypeOK
    <3>2. CASE live' # live
      BY <3>2 DEF Restart, Typed, TypeOK, Docs
    <3> QED BY <3>1, <3>2
  <2> QED BY <2>1 DEF Restart, Typed, TypeOK
<1>2. restarts' \in 0..MaxRestarts
  BY BoundAssumption DEF Restart, Typed, TypeOK
<1>3. tab' \in [Tabs -> Tab]
  <2> SUFFICES ASSUME NEW t \in Tabs PROVE tab'[t] \in Tab
    BY DEF Restart
  <2>1. tab[t] \in Tab
    BY DEF Typed, TypeOK
  <2>2. [tab[t] EXCEPT !.fetch = [pc |-> "none"]] \in Tab
    BY <2>1 DEF Tab, Fetches
  <2> QED BY <2>1, <2>2 DEF Restart
<1>4. ASSUME NEW c \in Clients
      PROVE  /\ request'[c] \in Request \cup {NoRequest}
             /\ (request[c] # NoRequest => RequestFits(request[c]))'
  <2>1. CASE Handled(c) \/ request[c].pc = "sent"
    <3>1. request[c] \in Request /\ RequestFits(request[c])
      BY <2>1, RequestType DEF Handled, Handling
    <3>2. request'[c] = [request[c] EXCEPT !.pc = "lost"]
      BY <2>1 DEF Restart
    <3> QED BY <1>1, <3>1, <3>2 DEF Request, RequestFits, Ended, Handling, HasDialog
  <2>2. CASE ~(Handled(c) \/ request[c].pc = "sent")
    <3>1. request'[c] = request[c]
      BY <2>2 DEF Restart
    <3> QED BY <1>1, <3>1 DEF Typed, TypeOK, Fits, RequestFits, HasDialog
  <2> QED BY <2>1, <2>2
<1>5. request' \in [Clients -> Request \cup {NoRequest}] /\ Fits'
  BY <1>4 DEF Restart, Fits
<1> QED BY <1>1, <1>2, <1>3, <1>5 DEF Typed, TypeOK

\* A request that has ended is forgotten.
LEMMA Forgets ==
    ASSUME Typed, NEW c \in Clients, request' = [request EXCEPT ![c] = NoRequest],
           kind' = kind
    PROVE  request' \in [Clients -> Request \cup {NoRequest}] /\ Fits'
BY DEF Typed, TypeOK, Fits, RequestFits, HasDialog

LEMMA AnswersTyped ==
    ASSUME Typed, NEW t \in Tabs, AnswerOk(t) \/ AnswerError(t)
    PROVE  Typed'
<1>0. t \in Clients /\ tab[t] \in Tab
  BY DEF Clients, Typed, TypeOK
<1>1. request' \in [Clients -> Request \cup {NoRequest}] /\ Fits'
  BY <1>0, Forgets DEF AnswerOk, AnswerError, bounds
<1>2. tab' \in [Tabs -> Tab]
  <2>1. CASE AnswerError(t)
    BY <2>1 DEF AnswerError, Typed, TypeOK
  <2>2. CASE AnswerOk(t)
    <3> DEFINE s == [tab[t] EXCEPT !.form = IF Cleared(request[t]) THEN RestingForm
                                            ELSE tab[t].form]
    <3>1. s \in Tab
      BY <1>0, RestingType DEF Tab
    <3>2. Acknowledged(request[t], s) \in Tab
      <4>1. request[t] \in Request
        BY <1>0, <2>2, RequestType DEF AnswerOk
      <4>2. request[t].ver \in Nat
        BY <4>1 DEF Request
      <4> HIDE DEF s
      <4> QED BY <3>1, <4>2 DEF Acknowledged, Tab
    <3> HIDE DEF s
    <3>3. Invalidated(Acknowledged(request[t], s)) \in Tab
      BY <3>2 DEF Invalidated, Tab, Fetches
    <3>4. tab' = [tab EXCEPT ![t] = Invalidated(Acknowledged(request[t], s))]
      BY <2>2 DEF AnswerOk, s
    <3> QED BY <3>3, <3>4 DEF Typed, TypeOK
  <2> QED BY <2>1, <2>2
<1> QED BY <1>1, <1>2 DEF Typed, TypeOK, AnswerOk, AnswerError, server, bounds

LEMMA NextTyped == Typed /\ [Next]_vars => Typed'
<1> SUFFICES ASSUME Typed, [Next]_vars PROVE Typed'
  OBVIOUS
<1>1. ASSUME NEW t \in Tabs, User(t) PROVE Typed'
  BY <1>1, PageTyped, FormsTyped, LeaveTyped, SendsTyped DEF User
<1>2. ASSUME NEW t \in Tabs, Browser(t) PROVE Typed'
  BY <1>2, PageTyped, AnswersTyped DEF Browser
<1>3. ASSUME NEW c \in Clients, Server(c) PROVE Typed'
  BY <1>3, RowsTyped, SettingsTyped DEF Server
<1>4. CASE UNCHANGED vars
  BY <1>4 DEF vars, Typed, TypeOK, Fits, RequestFits, HasDialog
<1> QED BY <1>1, <1>2, <1>3, <1>4, ElsewhereTyped, RestartTyped DEF Next

LEMMA SpecTyped == Spec => []Typed
<1>1. Typed /\ [Next]_vars => Typed'
  BY NextTyped
<1> QED BY <1>1, InitTyped, PTL DEF Spec

\* Every variable of the editors keeps its type, whatever the pages and handlers do.
THEOREM TypeCorrect == Spec => []TypeOK
<1>1. Typed => TypeOK
  BY DEF Typed
<1> QED BY <1>1, SpecTyped, PTL
-----------------------------------------------------------------------------
(* What the steps of the pages and of the row handlers leave alone.           *)

\* A page's step never touches the server, and a request only to send or forget it.
ClientStep == (\E t \in Tabs : User(t) \/ Browser(t)) \/ (\E e \in Elsewhere : SendElsewhere(e))
AtWork(c) == Handled(c) \/ request[c].pc = "sent"

LEMMA PostEffect ==
    ASSUME Typed, NEW c \in Clients, NEW op, NEW form, NEW doc, NEW sent, NEW val,
           Post(c, op, form, doc, sent, val)
    PROVE  /\ UNCHANGED <<server, kind, restarts, tab>> /\ ~AtWork(c)
           /\ request'[c].pc = "sent" /\ request'[c].op = op
           /\ \A d \in Clients \ {c} : request'[d] = request[d]
BY DEF Post, Idle, AtWork, Handled, Handling, Ended, Typed, TypeOK

\* A page elsewhere sends one request of its own.
LEMMA ElsewherePosts ==
    ASSUME NEW e \in Elsewhere, SendElsewhere(e)
    PROVE  \E op, form, doc, sent, val : Post(e, op, form, doc, sent, val)
<1>1. PICK d \in Docs \cup {New}, s \in SUBSET Fields, v \in Content :
        LET form == [NoForm EXCEPT !.doc = d, !.typed = s, !.val = v]
        IN  /\ d = Registry <=> kind = "settings"
            /\ \A f \in Fields \ s : v[f] = None
            /\ \/ /\ s = Body(form) /\ (d = Registry => \A f \in s : v[f] # None)
                  /\ \E op \in SaveOps(form) : Post(e, op, form, d, s, v)
               \/ HasDialog /\ d \in Rows /\ s = {Flag} /\ Post(e, "toggle", form, d, s, v)
               \/ /\ d = Registry /\ v = Blank /\ (\E f \in Fields : s = {f})
                  /\ Post(e, "reset", form, d, s, v)
               \/ /\ kind \in {"rules", "groups"} /\ d \in Rows /\ s = {}
                  /\ Post(e, "delete", form, d, s, v)
  BY Zenon DEF SendElsewhere
<1> DEFINE form == [NoForm EXCEPT !.doc = d, !.typed = s, !.val = v]
<1>2. \E op : Post(e, op, form, d, s, v)
  <2>1. \/ \E op \in SaveOps(form) : Post(e, op, form, d, s, v)
        \/ Post(e, "toggle", form, d, s, v) \/ Post(e, "reset", form, d, s, v)
        \/ Post(e, "delete", form, d, s, v)
    BY <1>1
  <2> HIDE DEF form
  <2> QED BY <2>1
<1> HIDE DEF form
<1> QED BY <1>2

LEMMA SendsEffect ==
    ASSUME Typed,
           \/ \E t \in Tabs :
                \/ SaveForm(t)
                \/ \E f \in Fields : ResetSetting(t, f)
                \/ \E r \in Rows : Delete(t, r) \/ \E v \in Values : Toggle(t, r, v)
           \/ \E e \in Elsewhere : SendElsewhere(e)
    PROVE  \E c \in Clients : /\ UNCHANGED <<server, kind, restarts, tab>> /\ ~AtWork(c)
                              /\ request'[c].pc = "sent"
                              /\ \A d \in Clients \ {c} : request'[d] = request[d]
<1> SUFFICES \E c \in Clients : \E op, form, doc, sent, val : Post(c, op, form, doc, sent, val)
  BY PostEffect
<1>1. Tabs \subseteq Clients /\ Elsewhere \subseteq Clients
  BY DEF Clients
<1>2. ASSUME NEW t \in Tabs, SaveForm(t)
      PROVE  \E op, form, doc, sent, val : Post(t, op, form, doc, sent, val)
  BY <1>2 DEF SaveForm, Send
<1>3. ASSUME NEW t \in Tabs, NEW f \in Fields, ResetSetting(t, f)
      PROVE  \E op, form, doc, sent, val : Post(t, op, form, doc, sent, val)
  BY <1>3 DEF ResetSetting, Send
<1>4. ASSUME NEW t \in Tabs, NEW r \in Rows, Delete(t, r)
      PROVE  \E op, form, doc, sent, val : Post(t, op, form, doc, sent, val)
  BY <1>4 DEF Delete, Send
<1>5. ASSUME NEW t \in Tabs, NEW r \in Rows, NEW v \in Values, Toggle(t, r, v)
      PROVE  \E op, form, doc, sent, val : Post(t, op, form, doc, sent, val)
  BY <1>5 DEF Toggle, Send
<1>6. ASSUME NEW e \in Elsewhere, SendElsewhere(e)
      PROVE  \E op, form, doc, sent, val : Post(e, op, form, doc, sent, val)
  BY <1>6, ElsewherePosts
<1> QED BY <1>1, <1>2, <1>3, <1>4, <1>5, <1>6

LEMMA ClientEffect ==
    ASSUME Typed, ClientStep, NEW c \in Clients
    PROVE  /\ UNCHANGED <<server, kind, restarts>>
           /\ \/ request'[c] = request[c]
              \/ AtWork(c) /\ request'[c] = [request[c] EXCEPT !.attached = FALSE]
              \/ ~AtWork(c) /\ ~Handled(c)'
<1> DEFINE Effect == /\ UNCHANGED <<server, kind, restarts>>
                     /\ \/ request'[c] = request[c]
                        \/ AtWork(c) /\ request'[c] = [request[c] EXCEPT !.attached = FALSE]
                        \/ ~AtWork(c) /\ ~Handled(c)'
<1>1. ASSUME NEW t \in Tabs, Leave(t) PROVE Effect
  <2>1. t \in Clients /\ UNCHANGED <<server, kind, restarts>>
        /\ request' = [request EXCEPT ![t] = Detached(request[t])]
    BY <1>1 DEF Leave, Clients, bounds
  <2>2. CASE c # t \/ request[t].pc = "idle"
    BY <2>1, <2>2 DEF Detached, Typed, TypeOK
  <2>3. CASE c = t /\ request[t].pc # "idle"
    <3>1. request'[c] = [request[c] EXCEPT !.attached = FALSE]
      BY <2>1, <2>3 DEF Detached, Typed, TypeOK
    <3>2. request[c] \in Request
      BY <2>3, RequestType
    <3>3. request'[c].pc = request[c].pc
      BY <3>1, <3>2 DEF Request
    <3> QED BY <2>1, <3>1, <3>3 DEF AtWork, Handled
  <2> QED BY <2>2, <2>3
<1>2. ASSUME NEW t \in Tabs,
             \/ SaveForm(t)
             \/ \E f \in Fields : ResetSetting(t, f)
             \/ \E r \in Rows : Delete(t, r) \/ \E v \in Values : Toggle(t, r, v)
      PROVE  Effect
  BY <1>2, SendsEffect DEF Handled, Handling
<1>3. ASSUME NEW e \in Elsewhere, SendElsewhere(e) PROVE Effect
  BY <1>3, SendsEffect DEF Handled, Handling
<1>4. ASSUME NEW t \in Tabs, AnswerOk(t) \/ AnswerError(t) PROVE Effect
  BY <1>4 DEF AnswerOk, AnswerError, NoRequest, AtWork, Handled, Handling, Clients, bounds,
              Typed, TypeOK
<1>5. ASSUME NEW t \in Tabs,
             \/ Enter(t) \/ FetchAnswer(t) \/ FetchApply(t) \/ OpenNew(t) \/ Close(t)
             \/ \E r \in Rows : Open(t, r)
             \/ \E f \in Fields : ClearField(t, f) \/ \E v \in Values : SetField(t, f, v)
      PROVE  Effect
  BY <1>5 DEF Enter, FetchAnswer, FetchApply, OpenNew, Close, Open, ClearField, SetField,
              SetForm, bounds
<1> QED BY <1>1, <1>2, <1>3, <1>4, <1>5 DEF ClientStep, User, Browser

LEMMA ClientQuiet ==
    ASSUME Typed, ClientStep
    PROVE  UNCHANGED <<server, kind, restarts>>
<1>1. \E c \in Clients : TRUE
  BY DEF ClientStep, Clients
<1> QED BY <1>1, ClientEffect

RowStep(c) == Reject(c) \/ UpdateRow(c) \/ DeleteRow(c) \/ \E r \in Rows : CreateRow(c, r)

LEMMA RowEffect ==
    ASSUME Typed, NEW c \in Clients, RowStep(c)
    PROVE  /\ UNCHANGED <<live, overlap, restarts, kind>>
           /\ stored'[Registry] = stored[Registry]
           /\ ~Handled(c) /\ ~Handled(c)'
           /\ \A d \in Clients \ {c} : request'[d] = request[d]
<1>1. request[c].pc = "sent" /\ RequestFits(request[c]) /\ request[c] \in Request
  <2>1. request[c].pc = "sent"
    BY DEF RowStep, Reject, UpdateRow, DeleteRow, CreateRow
  <2> QED BY <2>1, RequestType
<1>2. ~Handled(c)
  BY <1>1 DEF Handled, Handling
<1>3. CASE Reject(c)
  BY <1>1, <1>2, <1>3 DEF Reject, Step, Handled, Handling, server, bounds, Typed, TypeOK, Request
<1>4. ASSUME NEW d \in Rows, NEW row, Commit(c, d, row)
      PROVE  /\ UNCHANGED <<live, overlap, restarts, kind>>
             /\ stored'[Registry] = stored[Registry] /\ ~Handled(c)'
             /\ \A b \in Clients \ {c} : request'[b] = request[b]
  BY <1>1, <1>4, RowAssumption
     DEF Commit, Finish, Handled, Handling, bounds, Typed, TypeOK, Request
<1>5. CASE UpdateRow(c)
  BY <1>1, <1>2, <1>4, <1>5 DEF UpdateRow, RequestFits
<1>6. CASE DeleteRow(c)
  <2>1. CASE Commit(c, request[c].doc, Gone)
    BY <1>1, <1>2, <1>4, <1>6, <2>1 DEF DeleteRow, RequestFits
  <2>2. CASE Finish(c, request[c].doc, version[request[c].doc]) /\ UNCHANGED <<server, tab, bounds>>
    BY <1>1, <1>2, <2>2 DEF Finish, Handled, Handling, server, bounds, Typed, TypeOK, Request
  <2> QED BY <1>6, <2>1, <2>2 DEF DeleteRow
<1>7. CASE \E r \in Rows : CreateRow(c, r)
  BY <1>1, <1>2, <1>4, <1>7 DEF CreateRow
<1> QED BY <1>3, <1>5, <1>6, <1>7 DEF RowStep
-----------------------------------------------------------------------------
(* The settings: a save touches its own keys, and stored and live agree.      *)

LEMMA SettingsFit ==
    ASSUME Typed, NEW c \in Clients, AtWork(c)
    PROVE  /\ request[c] \in Request /\ RequestFits(request[c])
           /\ request[c].sent \in SUBSET Fields
           /\ request[c].val \in Content /\ request[c].prior \in Content
<1>1. request[c].pc # "idle"
  BY DEF AtWork, Handled, Handling
<1> QED BY <1>1, RequestType DEF Request

\* A setting of the result of a merge is the new or the old one.
LEMMA MergedField ==
    ASSUME NEW s, NEW a, NEW b, NEW f \in Fields
    PROVE  Merge(s, a, b)[f] = IF f \in s THEN a[f] ELSE b[f]
BY DEF Merge

SettingStep(c) ==
    \/ Take(c) \/ WriteSettings(c) \/ ApplyChanges(c) \/ ApplyFails(c)
    \/ Restore(c) \/ DropNew(c) \/ DeleteKeys(c) \/ RestoreDefaults(c)

\* The content a handler stores or makes live differs from the old one in its own keys.
LEMMA SettingTouches ==
    ASSUME Typed, NEW c \in Clients, SettingStep(c), NEW f \in Fields
    PROVE  /\ stored'[Registry][f] # stored[Registry][f] => Handled(c) /\ f \in request[c].sent
           /\ live'[f] # live[f] => Handled(c) /\ f \in request[c].sent
           /\ \A r \in Rows : stored'[r] = stored[r]
           /\ restarts' = restarts /\ kind' = kind
<1>0. Registry \in Docs /\ stored \in [Docs -> Content \cup {Gone}]
  BY DEF Docs, Typed, TypeOK
<1>1. ASSUME NEW content, NEW pc, Store(c, content, pc)
      PROVE  /\ stored'[Registry] = content /\ live' = live
             /\ \A r \in Rows : stored'[r] = stored[r]
             /\ restarts' = restarts /\ kind' = kind
  BY <1>0, <1>1, RowAssumption DEF Store, bounds
<1>2. ASSUME NEW content, MakeLive(c, content)
      PROVE  live' = content /\ stored' = stored /\ restarts' = restarts /\ kind' = kind
  BY <1>2 DEF MakeLive, bounds
<1>3. CASE Take(c) \/ ApplyFails(c)
  BY <1>3 DEF Take, ApplyFails, server, bounds
<1>4. CASE WriteSettings(c) \/ DeleteKeys(c)
  BY <1>1, <1>4, MergedField DEF WriteSettings, DeleteKeys, Handled, Handling
<1>5. CASE ApplyChanges(c) \/ RestoreDefaults(c)
  BY <1>2, <1>5, MergedField DEF ApplyChanges, RestoreDefaults, Handled, Handling
<1>6. CASE Restore(c) \/ DropNew(c)
  <2>1. Had(request[c]) \subseteq request[c].sent
    BY DEF Had
  <2> QED BY <1>1, <1>6, <2>1, MergedField DEF Restore, DropNew, Handled, Handling
<1> QED BY <1>3, <1>4, <1>5, <1>6 DEF SettingStep

\* SavesTouchOwnKeys for any number of tabs, users and keys.
THEOREM SavesTouchOwnKeysCorrect == Spec => SavesTouchOwnKeys
<1> DEFINE Touch == \A f \in Fields :
         /\ stored'[Registry][f] # stored[Registry][f]
                => \E c \in Clients : Handled(c) /\ f \in request[c].sent
         /\ restarts' = restarts /\ live'[f] # live[f]
                => \E c \in Clients : Handled(c) /\ f \in request[c].sent
<1>1. Typed /\ [Next]_vars => Touch
  <2> SUFFICES ASSUME Typed, [Next]_vars PROVE Touch
    OBVIOUS
  <2>1. CASE ClientStep
    BY <2>1, ClientQuiet DEF server
  <2>2. ASSUME NEW c \in Clients, RowStep(c) PROVE Touch
    BY <2>2, RowEffect
  <2>3. ASSUME NEW c \in Clients, SettingStep(c) PROVE Touch
    BY <2>3, SettingTouches
  <2>4. CASE Restart
    BY <2>4 DEF Restart, Typed, TypeOK
  <2>5. CASE UNCHANGED vars
    BY <2>5 DEF vars
  <2> QED BY <2>1, <2>2, <2>3, <2>4, <2>5 DEF Next, ClientStep, Server, RowStep, SettingStep
<1> QED BY <1>1, SpecTyped, PTL DEF Spec, SavesTouchOwnKeys

\* ToggleSticks for any number of tabs, users, rows and columns.
THEOREM ToggleSticksCorrect == Spec => ToggleSticks
<1> DEFINE Sticks == \A r \in Rows :
         HasDialog /\ Gone \notin {stored[r], stored'[r]} /\ stored'[r][Flag] # stored[r][Flag]
         => \E c \in Clients : request[c].pc = "sent" /\ request[c].op = "toggle"
                                /\ request[c].doc = r
<1>1. Typed /\ [Next]_vars => Sticks
  <2> SUFFICES ASSUME Typed, [Next]_vars PROVE Sticks
    OBVIOUS
  <2>1. CASE ClientStep
    BY <2>1, ClientQuiet DEF server
  <2>2. ASSUME NEW c \in Clients, RowStep(c) PROVE Sticks
    <3> SUFFICES ASSUME NEW r \in Rows, HasDialog, stored[r] # Gone, stored'[r] # Gone,
                        stored'[r][Flag] # stored[r][Flag]
                 PROVE  request[c].pc = "sent" /\ request[c].op = "toggle" /\ request[c].doc = r
      OBVIOUS
    <3>0. r \in Docs /\ stored \in [Docs -> Content \cup {Gone}]
      BY DEF Docs, Typed, TypeOK
    <3>1. CASE Reject(c)
      BY <3>1 DEF Reject, server
    <3>2. CASE UpdateRow(c)
      <4>1. RequestFits(request[c]) /\ request[c].pc = "sent"
        BY <3>2, RequestType DEF UpdateRow
      <4>2. request[c].doc = r
        BY <3>0, <3>2, <4>1 DEF UpdateRow, Commit
      <4>3. stored'[r][Flag] = IF Flag \in request[c].sent THEN request[c].val[Flag]
                               ELSE stored[r][Flag]
        BY <3>0, <3>2, <4>2, MergedField, FieldAssumption DEF UpdateRow, Commit
      <4> QED BY <3>2, <4>1, <4>2, <4>3 DEF UpdateRow, RequestFits
    <3>3. CASE DeleteRow(c)
      BY <3>0, <3>3 DEF DeleteRow, Commit, Finish, server
    <3>4. CASE \E q \in Rows : CreateRow(c, q)
      BY <3>0, <3>4 DEF CreateRow, Commit
    <3> QED BY <2>2, <3>1, <3>2, <3>3, <3>4 DEF RowStep
  <2>3. ASSUME NEW c \in Clients, SettingStep(c) PROVE Sticks
    BY <2>3, SettingTouches, FieldAssumption
  <2>4. CASE Restart
    BY <2>4 DEF Restart
  <2>5. CASE UNCHANGED vars
    BY <2>5 DEF vars
  <2> QED BY <2>1, <2>2, <2>3, <2>4, <2>5 DEF Next, ClientStep, Server, RowStep, SettingStep
<1> QED BY <1>1, SpecTyped, PTL DEF Spec, ToggleSticks
-----------------------------------------------------------------------------
(* What a handler has already done tells what is stored while nothing overlaps. *)

\* The snapshot a handler took is what is live, and what it stored since is known.
Holds(q) ==
    /\ q.pc = "taken" => q.prior = live /\ stored[Registry] = live
    /\ q.pc \in {"written", "undo"} =>
           q.prior = live /\ stored[Registry] = Merge(q.sent, q.val, live)
    /\ q.pc = "undone" =>
           /\ q.prior = live
           /\ stored[Registry] = Merge(Had(q), live, Merge(q.sent, q.val, live))
    /\ q.pc = "deleted" => stored[Registry] = Merge(q.sent, Blank, live)

OneHandler == \A c, d \in Clients : Handled(c) /\ Handled(d) => c = d
HandlerHolds == \A c \in Clients : Handled(c) => Holds(request[c])
Agree == LiveFollowsStore /\ (~overlap => OneHandler /\ HandlerHolds)

\* Undoing both halves gives the snapshot back.
LEMMA UndoneInFull ==
    ASSUME NEW q \in Request
    PROVE  Merge(q.sent \ Had(q), Blank,
                 Merge(Had(q), q.prior, Merge(q.sent, q.val, q.prior))) = q.prior
<1>1. q.prior \in Content /\ q.sent \in SUBSET Fields
  BY DEF Request
<1> DEFINE m == Merge(q.sent \ Had(q), Blank,
                      Merge(Had(q), q.prior, Merge(q.sent, q.val, q.prior)))
<1>2. m = [f \in Fields |-> m[f]]
  BY DEF Merge
<1>3. ASSUME NEW f \in Fields PROVE m[f] = q.prior[f]
  BY <1>1 DEF Merge, Had, Blank
<1>4. q.prior = [f \in Fields |-> q.prior[f]]
  BY <1>1 DEF Content
<1> QED BY <1>2, <1>3, <1>4

\* A request a page step leaves at work holds what it held.
LEMMA ClientAgree ==
    ASSUME Typed, Agree, ClientStep
    PROVE  Agree'
<1>1. UNCHANGED <<stored, live, overlap>>
  BY ClientQuiet DEF server
<1>2. ASSUME NEW c \in Clients, Handled(c)'
      PROVE  /\ Handled(c)
             /\ Holds(request[c]) => Holds(request[c])'
  <2>1. CASE request'[c] = request[c]
    BY <1>1, <1>2, <2>1 DEF Handled, Holds, Had
  <2>2. CASE AtWork(c) /\ request'[c] = [request[c] EXCEPT !.attached = FALSE]
    <3>1. request[c] \in Request
      BY <2>2, SettingsFit
    <3>2. /\ request'[c].pc = request[c].pc /\ request'[c].sent = request[c].sent
          /\ request'[c].val = request[c].val /\ request'[c].prior = request[c].prior
      BY <2>2, <3>1 DEF Request
    <3> QED BY <1>1, <1>2, <3>2 DEF Handled, Holds, Had
  <2> QED BY <1>2, <2>1, <2>2, ClientEffect
<1>3. ASSUME NEW c \in Clients, Handled(c) PROVE Handled(c)'
  <2>1. AtWork(c)
    BY <1>3 DEF AtWork
  <2>2. CASE request'[c] = [request[c] EXCEPT !.attached = FALSE]
    <3>1. request[c] \in Request
      BY <2>1, SettingsFit
    <3>2. request'[c].pc = request[c].pc
      BY <2>2, <3>1 DEF Request
    <3> QED BY <1>3, <3>2 DEF Handled
  <2> QED BY <1>3, <2>1, <2>2, ClientEffect DEF Handled
<1> QED BY <1>1, <1>2, <1>3 DEF Agree, LiveFollowsStore, OneHandler, HandlerHolds

\* A handler at work on its own moves on from what it holds.
LEMMA SettingAgree ==
    ASSUME Typed, Agree, NEW c \in Clients, SettingStep(c)
    PROVE  Agree'
<1>0. AtWork(c)
  BY DEF SettingStep, Take, WriteSettings, ApplyChanges, ApplyFails, Restore, DropNew,
         DeleteKeys, RestoreDefaults, AtWork, Handled, Handling
<1> DEFINE q == request[c]
<1>1. /\ q \in Request /\ q.sent \in SUBSET Fields /\ q.val \in Content /\ q.prior \in Content
      /\ live \in Content /\ stored[Registry] \in Content /\ Registry \in Docs
      /\ stored \in [Docs -> Content \cup {Gone}] /\ request \in [Clients -> Request \cup {NoRequest}]
  BY <1>0, SettingsFit DEF Typed, TypeOK, Docs
<1>2. ASSUME ~overlap', ~Take(c)
      PROVE  ~overlap /\ Handled(c) /\ Holds(q) /\ \A d \in Clients \ {c} : ~Handled(d)
  <2>1. Handled(c) /\ overlap' = overlap
    BY <1>2 DEF SettingStep, Take, WriteSettings, ApplyChanges, ApplyFails, Restore, DropNew,
       DeleteKeys, RestoreDefaults, Handled, Handling, Store, MakeLive, server
  <2> QED BY <1>2, <2>1 DEF Agree, OneHandler, HandlerHolds
<1>3. \A d \in Clients \ {c} : request'[d] = request[d]
  BY <1>1 DEF SettingStep, Take, WriteSettings, ApplyChanges, ApplyFails, Restore, DropNew,
     DeleteKeys, RestoreDefaults, Step, Finish, Store, MakeLive
<1>4. ASSUME ~overlap', \A d \in Clients \ {c} : ~Handled(d),
             Handled(c)' => Holds(request[c])',
             ~Handled(c)' => live' = stored'[Registry]
      PROVE  Agree'
  BY <1>3, <1>4 DEF Agree, LiveFollowsStore, OneHandler, HandlerHolds, Handled
<1>5. CASE overlap'
  BY <1>5 DEF Agree, LiveFollowsStore
<1>6. CASE ~overlap' /\ Take(c)
  <2>1. ~overlap /\ \A d \in Clients : ~Handled(d)
    BY <1>6 DEF Take
  <2>2. live = stored[Registry]
    BY <2>1 DEF Agree, LiveFollowsStore
  <2>3. /\ request'[c] = [q EXCEPT !.pc = "taken", !.prior = stored[Registry]]
        /\ UNCHANGED <<stored, live>>
    BY <1>1, <1>6 DEF Take
  <2>4. request'[c].pc = "taken" /\ request'[c].prior = stored[Registry]
    BY <1>1, <2>3 DEF Request
  <2>5. Holds(request[c])' /\ Handled(c)'
    BY <2>2, <2>3, <2>4 DEF Holds, Handled, Handling
  <2> QED BY <1>4, <1>6, <2>1, <2>5
<1>7. CASE ~overlap' /\ ~Take(c)
  <2>0. Holds(q) /\ \A d \in Clients \ {c} : ~Handled(d)
    BY <1>2, <1>7
  <2> DEFINE Moved(content, pc) ==
               /\ request'[c].pc = pc /\ request'[c].sent = q.sent /\ request'[c].val = q.val
               /\ request'[c].prior = q.prior /\ live' = live /\ stored'[Registry] = content
  <2>1. ASSUME NEW content, NEW pc, Store(c, content, pc)
        PROVE  Moved(content, pc)
    <3>1. request'[c] = [q EXCEPT !.pc = pc] /\ live' = live /\ stored'[Registry] = content
      BY <1>1, <2>1 DEF Store, Step
    <3> QED BY <1>1, <3>1 DEF Request
  <2>2. ASSUME NEW content, MakeLive(c, content)
        PROVE  request'[c].pc = "ok" /\ live' = content /\ stored' = stored
    <3>1. request'[c] = [q EXCEPT !.pc = "ok", !.doc = Registry, !.ver = version[Registry] + 1]
      BY <1>1, <2>2 DEF MakeLive, Finish
    <3> QED BY <1>1, <2>2, <3>1 DEF MakeLive, Request
  <2>3. CASE WriteSettings(c)
    <3>1. q.pc = "taken" /\ Moved(Merge(q.sent, q.val, stored[Registry]), "written")
      BY <2>1, <2>3 DEF WriteSettings
    <3>2. Holds(request[c])' /\ Handled(c)'
      BY <2>0, <3>1 DEF Holds, Handled, Handling
    <3> QED BY <1>4, <1>7, <2>0, <3>2
  <2>4. CASE ApplyChanges(c)
    <3>1. ~Handled(c)' /\ live' = stored'[Registry]
      BY <2>0, <2>2, <2>4 DEF ApplyChanges, Holds, Handled, Handling
    <3> QED BY <1>4, <1>7, <2>0, <3>1
  <2>5. CASE ApplyFails(c)
    <3>1. request'[c] = [q EXCEPT !.pc = "undo"] /\ UNCHANGED <<stored, live>>
      BY <1>1, <2>5 DEF ApplyFails, Step, server
    <3>2. /\ request'[c].pc = "undo" /\ request'[c].sent = q.sent
          /\ request'[c].val = q.val /\ request'[c].prior = q.prior
      BY <1>1, <3>1 DEF Request
    <3>3. Holds(request[c])' /\ Handled(c)'
      BY <2>0, <2>5, <3>1, <3>2 DEF ApplyFails, Holds, Handled, Handling
    <3> QED BY <1>4, <1>7, <2>0, <3>3
  <2>6. CASE Restore(c)
    <3>1. q.pc = "undo" /\ Moved(Merge(Had(q), q.prior, stored[Registry]), "undone")
      BY <2>1, <2>6 DEF Restore
    <3>2. Had(request[c])' = Had(q)
      BY <3>1 DEF Had
    <3>3. Holds(request[c])' /\ Handled(c)'
      BY <2>0, <3>1, <3>2 DEF Holds, Handled, Handling
    <3> QED BY <1>4, <1>7, <2>0, <3>3
  <2>7. CASE DropNew(c)
    <3>1. q.pc = "undone" /\ Moved(Merge(q.sent \ Had(q), Blank, stored[Registry]), "bad")
      BY <2>1, <2>7 DEF DropNew
    <3>2. q.prior = live
          /\ stored[Registry] = Merge(Had(q), q.prior, Merge(q.sent, q.val, q.prior))
      BY <2>0, <3>1 DEF Holds
    <3>3. stored'[Registry] = live
      BY <1>1, <3>1, <3>2, UndoneInFull
    <3>4. ~Handled(c)' /\ live' = stored'[Registry]
      BY <3>1, <3>3 DEF Handled, Handling
    <3> QED BY <1>4, <1>7, <2>0, <3>4
  <2>8. CASE DeleteKeys(c)
    <3>1. q.pc = "taken" /\ Moved(Merge(q.sent, Blank, stored[Registry]), "deleted")
      BY <2>1, <2>8 DEF DeleteKeys
    <3>2. Holds(request[c])' /\ Handled(c)'
      BY <2>0, <3>1 DEF Holds, Handled, Handling
    <3> QED BY <1>4, <1>7, <2>0, <3>2
  <2>9. CASE RestoreDefaults(c)
    <3>1. ~Handled(c)' /\ live' = stored'[Registry]
      BY <2>0, <2>2, <2>9 DEF RestoreDefaults, Holds, Handled, Handling
    <3> QED BY <1>4, <1>7, <2>0, <3>1
  <2> QED BY <1>7, <2>3, <2>4, <2>5, <2>6, <2>7, <2>8, <2>9 DEF SettingStep
<1> QED BY <1>5, <1>6, <1>7

LEMMA RowAgree ==
    ASSUME Typed, Agree, NEW c \in Clients, RowStep(c)
    PROVE  Agree'
<1>1. \A d \in Clients : Handled(d)' <=> Handled(d)
  BY RowEffect DEF Handled
<1>2. ASSUME NEW d \in Clients, Handled(d)
      PROVE  Holds(request[d])' <=> Holds(request[d])
  BY <1>2, RowEffect DEF Holds, Had, Handled
<1> QED BY <1>1, <1>2, RowEffect DEF Agree, LiveFollowsStore, OneHandler, HandlerHolds

LEMMA RestartAgree ==
    ASSUME Typed, Restart
    PROVE  Agree'
<1>1. ASSUME NEW c \in Clients PROVE ~Handled(c)'
  <2>1. CASE AtWork(c)
    <3>1. request[c] \in Request /\ request'[c] = [request[c] EXCEPT !.pc = "lost"]
      BY <2>1, SettingsFit DEF Restart, AtWork
    <3> QED BY <3>1 DEF Request, Handled, Handling
  <2>2. CASE ~AtWork(c)
    BY <2>2 DEF Restart, AtWork, Handled
  <2> QED BY <2>1, <2>2
<1>2. live' = stored'[Registry]
  BY DEF Restart
<1> QED BY <1>1, <1>2 DEF Agree, LiveFollowsStore, OneHandler, HandlerHolds

LEMMA AgreeAlways == Spec => []Agree
<1>1. Init => Agree
  BY DEF Init, Agree, LiveFollowsStore, OneHandler, HandlerHolds, Handled, Handling, NoRequest
<1>2. Typed /\ Agree /\ [Next]_vars => Agree'
  <2> SUFFICES ASSUME Typed, Agree, [Next]_vars PROVE Agree'
    OBVIOUS
  <2>1. CASE UNCHANGED vars
    BY <2>1 DEF vars, Agree, LiveFollowsStore, OneHandler, HandlerHolds, Handled, Holds, Had
  <2> QED BY <2>1, ClientAgree, RowAgree, SettingAgree, RestartAgree
          DEF Next, ClientStep, Server, RowStep, SettingStep
<1> QED BY <1>1, <1>2, SpecTyped, PTL DEF Spec

\* LiveFollowsStore for any number of users and settings, from Agree.
THEOREM LiveFollowsStoreCorrect == Spec => []LiveFollowsStore
<1>1. Agree => LiveFollowsStore
  BY DEF Agree
<1> QED BY <1>1, AgreeAlways, PTL
-----------------------------------------------------------------------------
(* The refinement: the settings in force are a behaviour of SettingsContract. *)

\* What the contract knows of c's save is as before.
SameSave(c) == PhaseOf(c)' = PhaseOf(c) /\ AskOf(c)' = AskOf(c)
OthersSame(c) == \A d \in Clients \ {c} : SameSave(d)
SettingsStay == UNCHANGED <<live, overlap>> /\ stored'[Registry] = stored[Registry]
Meets == Contract!Next \/ UNCHANGED Contract!vars

\* PhaseOf and AskOf of a request that is, or is not, a save.
LEMMA SaveOf ==
    ASSUME Typed, NEW c \in Clients
    PROVE  /\ IsSave(c) => /\ request[c] \in Request
                           /\ PhaseOf(c) = IF request[c].pc \in Handling THEN "working"
                                           ELSE request[c].pc
                           /\ AskOf(c) = [keys |-> request[c].sent, new |-> request[c].val]
                           /\ request[c].sent \in SUBSET Fields
                           /\ request[c].val \in [Fields -> Values \cup {None}]
           /\ ~IsSave(c) => PhaseOf(c) = "none" /\ AskOf(c) = [keys |-> {}, new |-> {}]
           /\ Handled(c) => IsSave(c)
           /\ PhaseOf(c) = "working" <=> Handled(c)
<1>1. request[c] = NoRequest \/ request[c] \in Request
  BY DEF Typed, TypeOK
<1>2. request[c] # NoRequest /\ request[c] \in Request => request[c].pc \notin {"working", "idle"}
  BY DEF Request, Handling, Ended
<1>3. Handled(c) => IsSave(c)
  BY <1>1 DEF Handled, Handling, IsSave, NoRequest, Typed, Fits, RequestFits
<1> QED BY <1>1, <1>2, <1>3
        DEF IsSave, PhaseOf, AskOf, Handled, Request, Content, NoRequest, Handling

LEMMA SaveKept ==
    ASSUME NEW c \in Clients, request'[c] = request[c]
    PROVE  SameSave(c)
BY DEF SameSave, PhaseOf, AskOf, IsSave, Handled

\* A request that moves on keeps what it asks for.
LEMMA SaveMoves ==
    ASSUME Typed, NEW c \in Clients, request[c] \in Request, request'[c] \in Request,
           request'[c].op = request[c].op, request'[c].sent = request[c].sent,
           request'[c].val = request[c].val
    PROVE  /\ IsSave(c)' <=> IsSave(c)
           /\ ~IsSave(c) => SameSave(c)
           /\ AskOf(c)' = AskOf(c)
           /\ IsSave(c) => PhaseOf(c)' = IF request'[c].pc \in Handling THEN "working"
                                         ELSE request'[c].pc
<1>1. request[c] # NoRequest /\ request'[c] # NoRequest
  BY DEF Request, NoRequest, Handling, Ended
<1> QED BY <1>1 DEF SameSave, IsSave, PhaseOf, AskOf, Handled

LEMMA ContractStutters ==
    ASSUME \A c \in Clients : SameSave(c), SettingsStay
    PROVE  Meets
<1>1. Unsettled' = Unsettled
  BY DEF SettingsStay, Unsettled
<1>2. /\ [c \in Clients |-> PhaseOf(c)]' = [c \in Clients |-> PhaseOf(c)]
      /\ [c \in Clients |-> AskOf(c)]' = [c \in Clients |-> AskOf(c)]
  BY DEF SameSave
<1> QED BY <1>1, <1>2 DEF Meets, Contract!vars, SettingsStay

LEMMA PhaseMoves ==
    ASSUME NEW c \in Clients, NEW p, OthersSame(c), PhaseOf(c)' = p, AskOf(c)' = AskOf(c)
    PROVE  /\ Contract!Move(c, p)
           /\ [d \in Clients |-> AskOf(d)]' = [d \in Clients |-> AskOf(d)]
BY DEF Contract!Move, OthersSame, SameSave

\* One page sends or forgets a request, and nothing else happens to the requests.
LEMMA ClientMoves ==
    ASSUME Typed, ClientStep
    PROVE  \E c \in Clients :
               /\ \A d \in Clients \ {c} : request'[d] = request[d]
               /\ \/ request'[c] = request[c]
                  \/ /\ request[c] # NoRequest
                     /\ request'[c] = [request[c] EXCEPT !.attached = FALSE]
                  \/ ~AtWork(c) /\ request'[c].pc \in {"sent", "idle"}
<1> DEFINE Moved(c) ==
               /\ \A d \in Clients \ {c} : request'[d] = request[d]
               /\ \/ request'[c] = request[c]
                  \/ /\ request[c] # NoRequest
                     /\ request'[c] = [request[c] EXCEPT !.attached = FALSE]
                  \/ ~AtWork(c) /\ request'[c].pc \in {"sent", "idle"}
<1>0. Tabs \subseteq Clients /\ Elsewhere \subseteq Clients
  BY DEF Clients
<1>1. ASSUME NEW t \in Tabs, Leave(t) PROVE Moved(t)
  <2>1. request' = [request EXCEPT ![t] = Detached(request[t])]
    BY <1>1 DEF Leave
  <2>2. request[t].pc = "idle" <=> request[t] = NoRequest
    BY <1>0 DEF Typed, TypeOK, NoRequest, Request, Handling, Ended
  <2> QED BY <1>0, <2>1, <2>2 DEF Detached, Typed, TypeOK
<1>2. ASSUME \/ \E t \in Tabs :
                  \/ SaveForm(t)
                  \/ \E f \in Fields : ResetSetting(t, f)
                  \/ \E r \in Rows : Delete(t, r) \/ \E v \in Values : Toggle(t, r, v)
             \/ \E e \in Elsewhere : SendElsewhere(e)
      PROVE  \E c \in Clients : Moved(c)
  BY <1>2, SendsEffect
<1>3. ASSUME NEW t \in Tabs, AnswerOk(t) \/ AnswerError(t) PROVE Moved(t)
  BY <1>0, <1>3 DEF AnswerOk, AnswerError, NoRequest, AtWork, Handled, Handling, Typed, TypeOK
<1>4. ASSUME NEW t \in Tabs,
             \/ Enter(t) \/ FetchAnswer(t) \/ FetchApply(t) \/ OpenNew(t) \/ Close(t)
             \/ \E r \in Rows : Open(t, r)
             \/ \E f \in Fields : ClearField(t, f) \/ \E v \in Values : SetField(t, f, v)
      PROVE  Moved(t)
  BY <1>4 DEF Enter, FetchAnswer, FetchApply, OpenNew, Close, Open, ClearField, SetField,
              SetForm
<1> HIDE DEF Moved
<1>5. \E c \in Clients : Moved(c)
  BY <1>0, <1>1, <1>2, <1>3, <1>4 DEF ClientStep, User, Browser
<1> QED BY <1>5 DEF Moved

LEMMA ClientMeets ==
    ASSUME Typed, Typed', ClientStep
    PROVE  Meets
<1>0. SettingsStay
  BY ClientQuiet DEF server, SettingsStay
<1>1. PICK c \in Clients :
               /\ \A d \in Clients \ {c} : request'[d] = request[d]
               /\ \/ request'[c] = request[c]
                  \/ /\ request[c] # NoRequest
                     /\ request'[c] = [request[c] EXCEPT !.attached = FALSE]
                  \/ ~AtWork(c) /\ request'[c].pc \in {"sent", "idle"}
  BY ClientMoves
<1>2. OthersSame(c)
  BY <1>1, SaveKept DEF OthersSame
<1>3. ASSUME SameSave(c) PROVE Meets
  BY <1>0, <1>2, <1>3, ContractStutters DEF OthersSame
<1>4. CASE request'[c] = request[c]
  BY <1>3, <1>4, SaveKept
<1>5. CASE request[c] # NoRequest /\ request'[c] = [request[c] EXCEPT !.attached = FALSE]
  <2>1. request[c] \in Request
    BY <1>5 DEF Typed, TypeOK
  <2>2. /\ request'[c] \in Request /\ request'[c].pc = request[c].pc
        /\ request'[c].op = request[c].op /\ request'[c].sent = request[c].sent
        /\ request'[c].val = request[c].val
    BY <1>5, <2>1 DEF Request
  <2>3. SameSave(c)
    BY <2>1, <2>2, SaveMoves, SaveOf DEF SameSave
  <2> QED BY <1>3, <2>3
<1>6. CASE ~AtWork(c) /\ request'[c].pc \in {"sent", "idle"}
  <2>1. PhaseOf(c) \in {"none", "ok", "bad", "lost"}
    <3>1. ~IsSave(c) => PhaseOf(c) = "none"
      BY SaveOf
    <3>2. IsSave(c) => PhaseOf(c) = request[c].pc /\ request[c].pc \in Ended
      BY <1>6, SaveOf DEF AtWork, Handled, Request
    <3> QED BY <3>1, <3>2 DEF Ended
  <2>2. CASE IsSave(c)'
    <3>1. request'[c] \in Request
      BY <2>2 DEF IsSave, Typed, TypeOK
    <3>2. request'[c].pc = "sent" /\ request'[c].sent \in SUBSET Fields
          /\ request'[c].val \in [Fields -> Values \cup {None}]
      BY <1>6, <3>1 DEF Request, Handling, Ended, Content
    <3>3. PhaseOf(c)' = "sent"
          /\ AskOf(c)' = [keys |-> request'[c].sent, new |-> request'[c].val]
      BY <2>2, <3>2 DEF PhaseOf, AskOf, Handled, Handling
    <3>4. Contract!Send(c)
      <4>1. Unsettled' = Unsettled
        BY <1>0 DEF SettingsStay, Unsettled
      <4>2. [d \in Clients |-> PhaseOf(d)]' = [[d \in Clients |-> PhaseOf(d)] EXCEPT ![c] = "sent"]
        BY <1>2, <3>3 DEF OthersSame, SameSave
      <4>3. [d \in Clients |-> AskOf(d)]'
                = [[d \in Clients |-> AskOf(d)] EXCEPT
                       ![c] = [keys |-> request'[c].sent, new |-> request'[c].val]]
        BY <1>2, <3>3 DEF OthersSame, SameSave
      <4> DEFINE now == [keys |-> request'[c].sent, new |-> request'[c].val]
      <4>4. now \in [keys : SUBSET Fields, new : [Fields -> Values \cup {None}]]
        BY <3>2
      <4> HIDE DEF now
      <4>5. [d \in Clients |-> AskOf(d)]'[c] = now
        BY <3>3 DEF now
      <4>6. [d \in Clients |-> AskOf(d)]' = [[d \in Clients |-> AskOf(d)] EXCEPT ![c] = now]
        BY <4>3 DEF now
      <4> QED BY <1>0, <2>1, <4>1, <4>2, <4>4, <4>5, <4>6 DEF Contract!Send, Contract!Move, SettingsStay
    <3> QED BY <3>4 DEF Meets, Contract!Next
  <2>3. CASE ~IsSave(c)'
    <3>1. PhaseOf(c)' = "none" /\ AskOf(c)' = [keys |-> {}, new |-> {}]
      BY <2>3 DEF PhaseOf, AskOf
    <3>2. CASE PhaseOf(c) = "none"
      <4>1. ~IsSave(c)
        BY <3>2, SaveOf DEF Request, Handling, Ended
      <4> QED BY <1>3, <3>1, <3>2, <4>1, SaveOf DEF SameSave
    <3>3. CASE PhaseOf(c) # "none"
      <4>1. Unsettled' = Unsettled
        BY <1>0 DEF SettingsStay, Unsettled
      <4>2. [d \in Clients |-> PhaseOf(d)]' = [[d \in Clients |-> PhaseOf(d)] EXCEPT ![c] = "none"]
        BY <1>2, <3>1 DEF OthersSame, SameSave
      <4>3. [d \in Clients |-> AskOf(d)]'
                = [[d \in Clients |-> AskOf(d)] EXCEPT ![c] = [keys |-> {}, new |-> {}]]
        BY <1>2, <3>1 DEF OthersSame, SameSave
      <4>4. Contract!Forget(c)
        BY <1>0, <2>1, <3>3, <4>1, <4>2, <4>3
           DEF Contract!Forget, Contract!Move, Contract!Nothing, SettingsStay
      <4> QED BY <4>4 DEF Meets, Contract!Next
    <3> QED BY <3>2, <3>3
  <2> QED BY <2>2, <2>3
<1> QED BY <1>1, <1>4, <1>5, <1>6

\* A row handler that gets hold of a request to save settings can only refuse it.
LEMMA RowMeets ==
    ASSUME Typed, Typed', NEW c \in Clients, RowStep(c)
    PROVE  Meets
<1>0. SettingsStay /\ Unsettled' = Unsettled
  BY RowEffect DEF SettingsStay, Unsettled
<1>1. OthersSame(c)
  BY RowEffect, SaveKept DEF OthersSame
<1>2. request[c].pc = "sent" /\ request[c] \in Request
  <2>1. request[c].pc = "sent"
    BY DEF RowStep, Reject, UpdateRow, DeleteRow, CreateRow
  <2> QED BY <2>1, RequestType
<1>3. /\ request'[c] \in Request /\ request'[c].op = request[c].op
      /\ request'[c].sent = request[c].sent /\ request'[c].val = request[c].val
  <2>1. \/ request'[c] = [request[c] EXCEPT !.pc = "bad"]
        \/ \E d, v : request'[c] = [request[c] EXCEPT !.pc = "ok", !.doc = d, !.ver = v]
    <3>1. CASE Reject(c)
      BY <3>1 DEF Reject, Step, Typed, TypeOK
    <3>2. ASSUME NEW d, NEW v, Finish(c, d, v)
          PROVE  request'[c] = [request[c] EXCEPT !.pc = "ok", !.doc = d, !.ver = v]
      BY <3>2 DEF Finish, Typed, TypeOK
    <3>3. Reject(c) \/ \E d, v : Finish(c, d, v)
      <4>1. ASSUME NEW d, NEW row, Commit(c, d, row) PROVE \E e, v : Finish(c, e, v)
        <5>1. Finish(c, d, version[d] + 1)
          BY <4>1 DEF Commit
        <5> QED BY <5>1
      <4>2. CASE UpdateRow(c)
        BY <4>1, <4>2 DEF UpdateRow
      <4>3. CASE DeleteRow(c)
        <5>1. \/ Finish(c, request[c].doc, version[request[c].doc])
              \/ Commit(c, request[c].doc, Gone)
          BY <4>3 DEF DeleteRow
        <5> QED BY <4>1, <5>1
      <4>4. CASE \E r \in Rows : CreateRow(c, r)
        BY <4>1, <4>4 DEF CreateRow
      <4> QED BY <4>2, <4>3, <4>4 DEF RowStep
    <3>4. CASE \E d, v : Finish(c, d, v)
      <4>1. PICK d, v : Finish(c, d, v)
        BY <3>4
      <4>2. request'[c] = [request[c] EXCEPT !.pc = "ok", !.doc = d, !.ver = v]
        BY <3>2, <4>1
      <4> QED BY <4>2, Zenon
    <3> QED BY <3>1, <3>3, <3>4
  <2>2. request'[c] # NoRequest
    BY <1>2, <2>1 DEF Request, NoRequest
  <2>3. request'[c] \in Request
    BY <2>2 DEF Typed, TypeOK
  <2> QED BY <1>2, <2>1, <2>3 DEF Request
<1>4. CASE ~IsSave(c)
  <2>1. SameSave(c)
    BY <1>2, <1>3, <1>4, SaveMoves
  <2> QED BY <1>0, <1>1, <2>1, ContractStutters DEF OthersSame
<1>5. CASE IsSave(c)
  <2>1. Reject(c)
    BY <1>5 DEF RowStep, UpdateRow, DeleteRow, CreateRow, IsSave
  <2>2. request'[c].pc = "bad"
    BY <1>2, <2>1 DEF Reject, Step, Typed, TypeOK, Request
  <2>3. PhaseOf(c) = "sent" /\ PhaseOf(c)' = "bad" /\ AskOf(c)' = AskOf(c)
    BY <1>2, <1>3, <1>5, <2>2, SaveOf, SaveMoves DEF Handling
  <2>4. Contract!Move(c, "bad") /\ [d \in Clients |-> AskOf(d)]' = [d \in Clients |-> AskOf(d)]
    BY <1>1, <2>3, PhaseMoves
  <2>5. Contract!Refuse(c)
    BY <1>0, <2>3, <2>4 DEF Contract!Refuse, SettingsStay
  <2> QED BY <2>5 DEF Meets, Contract!Next
<1> QED BY <1>4, <1>5

\* How a settings handler moves its request, and that it is one.
LEMMA HandlerMoves ==
    ASSUME Typed, NEW c \in Clients, SettingStep(c)
    PROVE  /\ IsSave(c) /\ request[c] \in Request /\ OthersSame(c)
           /\ \A d \in Clients \ {c} : request'[d] = request[d]
           /\ PhaseOf(c)' = IF request'[c].pc \in Handling THEN "working" ELSE request'[c].pc
           /\ AskOf(c)' = AskOf(c)
           /\ ~Take(c) => Handled(c) /\ overlap' = overlap
           /\ \A pc, content : Store(c, content, pc) \/ Step(c, pc) => request'[c].pc = pc
           /\ \A content : MakeLive(c, content) => request'[c].pc = "ok"
           /\ Take(c) => request'[c].pc = "taken"
<1>1. AtWork(c)
  BY DEF SettingStep, Take, WriteSettings, ApplyChanges, ApplyFails, Restore, DropNew,
         DeleteKeys, RestoreDefaults, AtWork, Handled, Handling
<1>2. request[c] \in Request /\ RequestFits(request[c])
  BY <1>1, SettingsFit
<1>3. IsSave(c)
  <2>1. request[c] # NoRequest
    BY <1>2 DEF Request, NoRequest, Handling, Ended
  <2>2. Take(c) => request[c].op \in {"save", "reset"}
    BY DEF Take
  <2>3. ~Take(c) => Handled(c)
    BY DEF SettingStep, WriteSettings, ApplyChanges, ApplyFails, Restore, DropNew,
           DeleteKeys, RestoreDefaults, Handled, Handling
  <2> QED BY <1>2, <2>1, <2>2, <2>3 DEF IsSave, RequestFits, Handled
<1>4. \/ Take(c) /\ request' = [request EXCEPT ![c].pc = "taken", ![c].prior = stored[Registry]]
      \/ ~Take(c) /\ Handled(c) /\ overlap' = overlap
         /\ \/ \E pc \in Handling \cup Ended : Step(c, pc)
            \/ Finish(c, Registry, version[Registry] + 1)
  BY DEF SettingStep, Take, WriteSettings, ApplyChanges, ApplyFails, Restore, DropNew,
         DeleteKeys, RestoreDefaults, Store, MakeLive, Handled, Handling, Ended, server
<1> DEFINE MovesOn ==
               /\ \A d \in Clients \ {c} : request'[d] = request[d]
               /\ request'[c].op = request[c].op /\ request'[c].sent = request[c].sent
               /\ request'[c].val = request[c].val /\ request'[c].pc \in Handling \cup Ended
               /\ request'[c] # NoRequest
<1>5. MovesOn
  <2>1. ASSUME Take(c), request' = [request EXCEPT ![c].pc = "taken", ![c].prior = stored[Registry]]
        PROVE  MovesOn
    BY <1>2, <2>1 DEF Request, Handling, NoRequest, Typed, TypeOK
  <2>2. ASSUME NEW pc \in Handling \cup Ended, Step(c, pc) PROVE MovesOn
    BY <1>2, <2>2 DEF Step, Request, Handling, Ended, NoRequest, Typed, TypeOK
  <2>3. ASSUME Finish(c, Registry, version[Registry] + 1) PROVE MovesOn
    BY <1>2, <2>3 DEF Finish, Request, Ended, NoRequest, Typed, TypeOK
  <2> QED BY <1>4, <2>1, <2>2, <2>3
<1>6. PhaseOf(c)' = (IF request'[c].pc \in Handling THEN "working" ELSE request'[c].pc)
      /\ AskOf(c)' = AskOf(c)
  BY <1>3, <1>5 DEF PhaseOf, AskOf, IsSave, Handled
<1>7. OthersSame(c)
  BY <1>5, SaveKept DEF OthersSame
<1>8. /\ \A pc, content : Store(c, content, pc) \/ Step(c, pc) => request'[c].pc = pc
      /\ \A content : MakeLive(c, content) => request'[c].pc = "ok"
      /\ Take(c) => request'[c].pc = "taken"
  BY <1>2 DEF Store, Step, MakeLive, Finish, Take, Request, Typed, TypeOK
<1> QED BY <1>2, <1>3, <1>4, <1>5, <1>6, <1>7, <1>8

\* Each step of a settings handler is one of the contract.
LEMMA SettingMeets ==
    ASSUME Typed, Typed', Agree, Agree', NEW c \in Clients, SettingStep(c)
    PROVE  Meets
<1> DEFINE q == request[c]
<1>0. /\ q \in Request /\ IsSave(c) /\ OthersSame(c) /\ AskOf(c)' = AskOf(c)
      /\ AskOf(c) = [keys |-> q.sent, new |-> q.val] /\ q.sent \in SUBSET Fields
      /\ q.val \in Content /\ live \in Content
  BY HandlerMoves, SaveOf, SettingsFit DEF Typed, TypeOK, Content
<1>1. Unsettled' \ q.sent = Unsettled \ q.sent
  BY SettingTouches DEF Unsettled
<1>2. CASE Take(c)
  <2>1. PhaseOf(c) = "sent" /\ PhaseOf(c)' = "working"
    BY <1>0, <1>2, HandlerMoves, SaveOf DEF Take, Handling
  <2>2. Contract!Move(c, "working")
        /\ [d \in Clients |-> AskOf(d)]' = [d \in Clients |-> AskOf(d)]
    BY <1>0, <2>1, PhaseMoves
  <2>3. overlap' = (overlap \/ \E d \in Clients : PhaseOf(d) = "working")
    BY <1>2, SaveOf DEF Take
  <2>4. live' = live /\ Unsettled' = Unsettled
    BY <1>2 DEF Take, Unsettled
  <2>5. Contract!Begin(c)
    BY <2>1, <2>2, <2>3, <2>4 DEF Contract!Begin
  <2> QED BY <2>5 DEF Meets, Contract!Next
<1>3. CASE ~Take(c)
  <2>1. PhaseOf(c) = "working" /\ Handled(c) /\ overlap' = overlap
    BY <1>3, HandlerMoves, SaveOf
  <2>2. Contract!OwnKeysMove(c)
    BY <1>0, <1>1 DEF Contract!OwnKeysMove
  <2>3. ASSUME request'[c].pc \in Handling, live' = live PROVE Meets
    <3>1. PhaseOf(c)' = PhaseOf(c)
      BY <2>1, <2>3, HandlerMoves
    <3>2. /\ [d \in Clients |-> PhaseOf(d)]' = [d \in Clients |-> PhaseOf(d)]
          /\ [d \in Clients |-> AskOf(d)]' = [d \in Clients |-> AskOf(d)]
      BY <1>0, <3>1 DEF OthersSame, SameSave
    <3>3. Contract!Work(c)
      BY <2>1, <2>2, <2>3, <3>2 DEF Contract!Work
    <3> QED BY <3>3 DEF Meets, Contract!Next
  <2>4. ASSUME NEW p \in Ended, request'[c].pc = p PROVE Contract!End(c, p)
    <3>1. PhaseOf(c)' = p
      BY <2>4, HandlerMoves DEF Ended, Handling
    <3>2. Contract!Move(c, p) /\ [d \in Clients |-> AskOf(d)]' = [d \in Clients |-> AskOf(d)]
      BY <1>0, <3>1, PhaseMoves
    <3>3. ASSUME ~overlap PROVE Unsettled' = {}
      <4>1. ~overlap' /\ \A d \in Clients : ~Handled(d)'
        <5>1. \A d \in Clients \ {c} : ~Handled(d)
          BY <2>1, <3>3 DEF Agree, OneHandler
        <5>2. \A d \in Clients \ {c} : ~Handled(d)'
          BY <5>1, HandlerMoves DEF Handled
        <5>3. ~Handled(c)'
          BY <2>4 DEF Handled, Handling, Ended
        <5> QED BY <2>1, <3>3, <5>2, <5>3
      <4>2. live' = stored'[Registry]
        BY <4>1 DEF Agree, LiveFollowsStore
      <4> QED BY <4>2 DEF Unsettled
    <3> QED BY <2>1, <2>2, <3>2, <3>3 DEF Contract!End
  <2>5. CASE WriteSettings(c) \/ Restore(c) \/ DeleteKeys(c)
    <3>1. \E content : \E pc \in Handling : Store(c, content, pc)
      BY <2>5 DEF WriteSettings, Restore, DeleteKeys, Handling
    <3> QED BY <2>3, <3>1, HandlerMoves DEF Store
  <2>6. CASE ApplyFails(c)
    <3>1. Step(c, "undo") /\ live' = live
      BY <2>6 DEF ApplyFails, server
    <3>2. request'[c].pc = "undo"
      BY <3>1, HandlerMoves
    <3> QED BY <2>3, <3>1, <3>2 DEF Handling
  <2>7. CASE DropNew(c)
    <3>1. Store(c, Merge(q.sent \ Had(q), Blank, stored[Registry]), "bad")
      BY <2>7 DEF DropNew
    <3>2. request'[c].pc = "bad" /\ live' = live
      BY <3>1, HandlerMoves DEF Store
    <3>3. Contract!Undo(c)
      BY <2>4, <3>2 DEF Contract!Undo, Ended
    <3> QED BY <3>3 DEF Meets, Contract!Next
  <2>8. CASE ApplyChanges(c) \/ RestoreDefaults(c)
    <3>1. MakeLive(c, Merge(q.sent, q.val, live))
      <4>1. RestoreDefaults(c) => q.val = Blank
        BY <2>1, SettingsFit DEF RestoreDefaults, RequestFits, AtWork
      <4> QED BY <2>8, <4>1 DEF ApplyChanges, RestoreDefaults
    <3>2. request'[c].pc = "ok" /\ live' = Merge(q.sent, q.val, live)
      BY <3>1, HandlerMoves DEF MakeLive
    <3>3. Contract!Wanted(c) = Merge(q.sent, q.val, live)
      BY <1>0 DEF Contract!Wanted, Merge
    <3>4. Contract!TakeEffect(c)
      BY <2>4, <3>2, <3>3 DEF Contract!TakeEffect, Ended
    <3> QED BY <3>4 DEF Meets, Contract!Next
  <2> QED BY <1>3, <2>5, <2>6, <2>7, <2>8 DEF SettingStep
<1> QED BY <1>2, <1>3

\* A start brings what is stored into force, and that is what the one save under way made of
\* it; no save was under way, or several were, and only what they unsettled changes.
LEMMA RestartMeets ==
    ASSUME Typed, Agree, Restart
    PROVE  Meets
<1>1. /\ live' = stored[Registry] /\ stored' = stored /\ overlap' = FALSE
      /\ live \in Content /\ live' \in [Fields -> Values \cup {None}] /\ Unsettled' = {}
  BY DEF Restart, Unsettled, Typed, TypeOK, Content
<1>2. ASSUME NEW f \in Fields \ Unsettled PROVE live'[f] = live[f]
  BY <1>1, <1>2 DEF Unsettled
<1>3. ASSUME NEW f \in Unsettled, ~overlap
      PROVE  \E c \in Clients : /\ PhaseOf(c) = "working" /\ f \in AskOf(c).keys
                                /\ live'[f] = AskOf(c).new[f]
  <2>1. f \in Fields /\ live[f] # stored[Registry][f]
    BY <1>3 DEF Unsettled
  <2>2. PICK c \in Clients : Handled(c)
    BY <1>3, <2>1 DEF Agree, LiveFollowsStore
  <2> DEFINE q == request[c]
  <2>3. /\ Holds(q) /\ q \in Request /\ RequestFits(q) /\ q.pc \in Handling
        /\ PhaseOf(c) = "working" /\ AskOf(c) = [keys |-> q.sent, new |-> q.val]
    BY <1>3, <2>2, SaveOf, SettingsFit DEF Agree, HandlerHolds, AtWork, Handled
  <2>4. f \in q.sent /\ stored[Registry][f] = q.val[f]
    <3>1. CASE q.pc = "taken"
      BY <2>1, <2>3, <3>1 DEF Holds
    <3>2. CASE q.pc \in {"written", "undo"}
      BY <2>1, <2>3, <3>2, MergedField DEF Holds
    <3>3. CASE q.pc = "undone"
      BY <2>1, <2>3, <3>3, MergedField DEF Holds
    <3>4. CASE q.pc = "deleted"
      BY <2>1, <2>3, <3>4, MergedField DEF Holds, RequestFits
    <3> QED BY <2>3, <3>1, <3>2, <3>3, <3>4 DEF Handling
  <2> QED BY <1>1, <2>3, <2>4
<1>4. ASSUME NEW c \in Clients
      PROVE  /\ PhaseOf(c)' = IF PhaseOf(c) \in {"sent", "working"} THEN "lost" ELSE PhaseOf(c)
             /\ AskOf(c)' = AskOf(c)
  <2>1. CASE ~AtWork(c)
    <3>1. request'[c] = request[c]
      BY <2>1 DEF Restart, AtWork
    <3>2. PhaseOf(c) \notin {"sent", "working"}
      BY <2>1, SaveOf DEF AtWork, Handled
    <3> QED BY <3>1, <3>2, SaveKept DEF SameSave
  <2>2. CASE AtWork(c)
    <3>1. request[c] \in Request /\ request'[c] = [request[c] EXCEPT !.pc = "lost"]
      BY <2>2, SettingsFit DEF Restart, AtWork
    <3>2. /\ request'[c] \in Request /\ request'[c].pc = "lost"
          /\ request'[c].op = request[c].op /\ request'[c].sent = request[c].sent
          /\ request'[c].val = request[c].val
      BY <3>1 DEF Request, Ended
    <3>3. CASE ~IsSave(c)
      BY <3>1, <3>2, <3>3, SaveMoves, SaveOf DEF SameSave
    <3>4. CASE IsSave(c)
      <4>1. PhaseOf(c) \in {"sent", "working"}
        BY <2>2, <3>4, SaveOf DEF AtWork, Handled
      <4>2. PhaseOf(c)' = "lost" /\ AskOf(c)' = AskOf(c)
        BY <3>1, <3>2, <3>4, SaveMoves DEF Handling
      <4> QED BY <4>1, <4>2
    <3> QED BY <3>3, <3>4
  <2> QED BY <2>1, <2>2
<1>5. Contract!Restart
  BY <1>1, <1>2, <1>3, <1>4 DEF Contract!Restart
<1> QED BY <1>5 DEF Meets, Contract!Next

LEMMA InitMeets == Init => Contract!Init
<1> SUFFICES ASSUME Init PROVE Contract!Init
  OBVIOUS
<1>1. live \in [Fields -> Values \cup {None}] /\ Unsettled = {} /\ overlap = FALSE
  BY InitTyped DEF Init, Typed, TypeOK, Content, Unsettled
<1>2. \A c \in Clients : PhaseOf(c) = "none" /\ AskOf(c) = [keys |-> {}, new |-> {}]
  BY DEF Init, PhaseOf, AskOf, IsSave
<1> QED BY <1>1, <1>2 DEF Contract!Init, Contract!Nothing

\* The settings in force are a behaviour of SettingsContract, for any number of users,
\* settings, requests and restarts: a save takes effect with all its keys or with none, and
\* a start of the server finishes at most the one save it cut off.
THEOREM ImplementsContractCorrect == Spec => ImplementsContract
<1>1. Typed /\ Typed' /\ Agree /\ Agree' /\ [Next]_vars => [Contract!Next]_(Contract!vars)
  <2> SUFFICES ASSUME Typed, Typed', Agree, Agree', [Next]_vars PROVE Meets
    BY DEF Meets
  <2>1. ASSUME NEW c \in Clients, Server(c) PROVE Meets
    BY <2>1, RowMeets, SettingMeets DEF Server, RowStep, SettingStep
  <2>2. CASE UNCHANGED vars
    BY <2>2, SaveKept, ContractStutters DEF vars, SettingsStay
  <2> QED BY <2>1, <2>2, ClientMeets, RestartMeets DEF Next, ClientStep
<1>2. Spec => Contract!Init /\ [][Contract!Next]_(Contract!vars)
  BY <1>1, InitMeets, SpecTyped, AgreeAlways, PTL DEF Spec
<1> QED BY <1>2 DEF ImplementsContract, Contract!Spec
=============================================================================
