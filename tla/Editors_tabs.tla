---------------------------- MODULE Editors_tabs ----------------------------
(* Proofs about Editors: what a tab keeps of the rows, in its query cache, in  *)
(* the form filled from it and in the request sent from that, never is ahead   *)
(* of the database, and is what the database holds while the row is unchanged. *)
EXTENDS Editors_proofs

\* How each part of a tab may move in one step.
CacheMove(t) ==
    \/ tab'[t].cache = tab[t].cache
    \/ tab[t].fetch.pc = "answered" /\ tab'[t].cache = tab[t].fetch.snap
FetchMove(t) ==
    \/ tab'[t].fetch = tab[t].fetch
    \/ tab'[t].fetch.pc # "answered"
    \/ tab'[t].fetch = [pc |-> "answered", snap |-> Visible]
FilledFrom(t, r) ==
    [doc |-> r, val |-> tab[t].cache[r].val, typed |-> {}, base |-> tab[t].cache[r].ver]
FormMove(t) ==
    LET old == tab[t].form new == tab'[t].form
    IN  \/ new = old
        \/ new.doc \notin Rows
        \/ kind # "settings" /\ tab[t].cache # NoCache /\ \E r \in Rows : new = FilledFrom(t, r)
        \/ kind = "settings" /\ new.doc = old.doc
        \/ /\ new.doc = old.doc /\ new.base = old.base
           /\ \E f \in Fields : /\ new.typed = old.typed \cup {f}
                                /\ \A g \in Fields \ {f} : new.val[g] = old.val[g]
\* A change is acknowledged, and the list is fetched again.
AckMove(t) ==
    \/ tab'[t].acked = tab[t].acked
    \/ /\ request[t].pc = "ok" /\ tab'[t].fetch.pc = "sent"
       /\ \A d \in Docs : \/ tab'[t].acked[d] = tab[t].acked[d]
                          \/ d = request[t].doc /\ tab'[t].acked[d] = request[t].ver
\* The cache moves and an acknowledgement is taken in different steps.
Apart(t) == tab'[t].cache = tab[t].cache \/ tab'[t].acked = tab[t].acked
Moves(t) == CacheMove(t) /\ FetchMove(t) /\ FormMove(t) /\ AckMove(t) /\ Apart(t)

LEMMA SameMoves == ASSUME NEW t \in Tabs, tab'[t] = tab[t] PROVE Moves(t)
BY DEF Moves, CacheMove, FetchMove, FormMove, AckMove, Apart

LEMMA OneTab ==
    ASSUME Typed, NEW u \in Tabs, NEW s, tab' = [tab EXCEPT ![u] = s]
    PROVE  tab'[u] = s /\ \A t \in Tabs \ {u} : tab'[t] = tab[t]
BY DEF Typed, TypeOK

LEMMA RestingElsewhere == RestingForm.doc \notin Rows /\ NoForm.doc \notin Rows
BY RowAssumption DEF RestingForm, NoForm

\* A control, the pencil of a row, or a dialog opened or closed: only the form moves.
LEMMA FormMoves ==
    ASSUME Typed, NEW u \in Tabs, NEW form \in Form, SetForm(u, form),
           LET old == tab[u].form
           IN  \/ form.doc \notin Rows
               \/ /\ kind # "settings" /\ tab[u].cache # NoCache
                  /\ \E r \in Rows : form = FilledFrom(u, r)
               \/ kind = "settings" /\ form.doc = old.doc
               \/ /\ form.doc = old.doc /\ form.base = old.base
                  /\ \E f \in Fields : /\ form.typed = old.typed \cup {f}
                                       /\ \A g \in Fields \ {f} : form.val[g] = old.val[g]
    PROVE  \A t \in Tabs : Moves(t)
<1>1. tab' = [tab EXCEPT ![u] = [tab[u] EXCEPT !.form = form]]
  BY DEF SetForm, Typed, TypeOK
<1>2. tab'[u] = [tab[u] EXCEPT !.form = form] /\ \A t \in Tabs \ {u} : tab'[t] = tab[t]
  BY <1>1, OneTab
<1>3. /\ tab'[u].form = form /\ tab'[u].cache = tab[u].cache
      /\ tab'[u].fetch = tab[u].fetch /\ tab'[u].acked = tab[u].acked
  BY <1>2 DEF Typed, TypeOK, Tab
<1>4. Moves(u)
  BY <1>3 DEF Moves, CacheMove, FetchMove, FormMove, AckMove, Apart
<1> QED BY <1>2, <1>4, SameMoves

LEMMA EditsMove ==
    ASSUME Typed, NEW u \in Tabs,
           \/ OpenNew(u) \/ Close(u)
           \/ \E r \in Rows : Open(u, r)
           \/ \E f \in Fields : ClearField(u, f) \/ \E v \in Values : SetField(u, f, v)
    PROVE  \A t \in Tabs : Moves(t)
<1>0. tab[u] \in Tab /\ tab[u].form \in Form
  BY DEF Typed, TypeOK, Tab
<1>1. CASE OpenNew(u)
  <2>1. [NoForm EXCEPT !.doc = New] \in Form /\ [NoForm EXCEPT !.doc = New].doc \notin Rows
    BY BlankType, RowAssumption DEF NoForm, Form
  <2> QED BY <1>1, <2>1, FormMoves DEF OpenNew
<1>2. CASE Close(u)
  BY <1>2, RestingType, RestingElsewhere, FormMoves DEF Close
<1>3. ASSUME NEW r \in Rows, Open(u, r) PROVE \A t \in Tabs : Moves(t)
  <2>1. tab[u].cache[r].val \in Content /\ tab[u].cache[r].ver \in Nat
    BY <1>3, <1>0 DEF Open, Shown, Tab, Snapshot, Docs
  <2>2. FilledFrom(u, r) \in Form
    BY <2>1 DEF Form, Docs, FilledFrom
  <2>3. kind # "settings" /\ tab[u].cache # NoCache /\ SetForm(u, FilledFrom(u, r))
    BY <1>3 DEF Open, Shown, FilledFrom
  <2> QED BY <2>2, <2>3, FormMoves
<1>4. ASSUME NEW f \in Fields, NEW v \in Values, SetField(u, f, v)
      PROVE  \A t \in Tabs : Moves(t)
  <2> DEFINE form == [tab[u].form EXCEPT !.val[f] = v, !.typed = @ \cup {f}]
  <2>1. /\ form \in Form /\ form.doc = tab[u].form.doc /\ form.base = tab[u].form.base
        /\ form.typed = tab[u].form.typed \cup {f}
        /\ \A g \in Fields \ {f} : form.val[g] = tab[u].form.val[g]
    BY <1>0 DEF Form, Content
  <2>2. SetForm(u, form)
    BY <1>4 DEF SetField
  <2> HIDE DEF form
  <2> QED BY <2>1, <2>2, FormMoves
<1>5. ASSUME NEW f \in Fields, ClearField(u, f) PROVE \A t \in Tabs : Moves(t)
  <2> DEFINE form == [tab[u].form EXCEPT !.val[f] = None, !.typed = @ \ {f}]
  <2>1. form \in Form /\ form.doc = tab[u].form.doc
    BY <1>0 DEF Form, Content
  <2>2. SetForm(u, form) /\ kind = "settings"
    BY <1>5 DEF ClearField
  <2> HIDE DEF form
  <2> QED BY <2>1, <2>2, FormMoves
<1> QED BY <1>1, <1>2, <1>3, <1>4, <1>5

LEMMA PageMoves ==
    ASSUME Typed, NEW u \in Tabs, Enter(u) \/ Leave(u) \/ FetchAnswer(u) \/ FetchApply(u)
    PROVE  \A t \in Tabs : Moves(t)
<1>0. tab[u] \in Tab
  BY DEF Typed, TypeOK
<1>1. CASE Enter(u)
  <2>1. tab'[u] = Entered(tab[u]) /\ \A t \in Tabs \ {u} : tab'[t] = tab[t]
    BY <1>1, OneTab DEF Enter
  <2>2. /\ tab'[u].form = RestingForm /\ tab'[u].cache = tab[u].cache
        /\ tab'[u].acked = tab[u].acked
        /\ tab'[u].fetch = tab[u].fetch \/ tab'[u].fetch = [pc |-> "sent"]
    BY <1>0, <2>1 DEF Entered, Tab
  <2>3. Moves(u)
    BY <2>2, RestingElsewhere DEF Moves, CacheMove, FetchMove, FormMove, AckMove, Apart
  <2> QED BY <2>1, <2>3, SameMoves
<1>2. CASE Leave(u)
  <2> DEFINE s == [tab[u] EXCEPT !.mounted = FALSE, !.form = NoForm]
  <2>1. tab' = [tab EXCEPT ![u] = s]
    BY <1>2 DEF Leave, Typed, TypeOK
  <2>2. tab'[u] = s /\ \A t \in Tabs \ {u} : tab'[t] = tab[t]
    BY <2>1, OneTab
  <2>3. /\ tab'[u].form = NoForm /\ tab'[u].cache = tab[u].cache
        /\ tab'[u].acked = tab[u].acked /\ tab'[u].fetch = tab[u].fetch
    BY <1>0, <2>2 DEF Tab
  <2>4. Moves(u)
    BY <2>3, RestingElsewhere DEF Moves, CacheMove, FetchMove, FormMove, AckMove, Apart
  <2> QED BY <2>2, <2>4, SameMoves
<1>3. CASE FetchAnswer(u)
  <2> DEFINE s == [tab[u] EXCEPT !.fetch = [pc |-> "answered", snap |-> Visible]]
  <2>1. tab' = [tab EXCEPT ![u] = s]
    BY <1>3 DEF FetchAnswer, Typed, TypeOK
  <2>2. tab'[u] = s /\ \A t \in Tabs \ {u} : tab'[t] = tab[t]
    BY <2>1, OneTab
  <2>3. /\ tab'[u].form = tab[u].form /\ tab'[u].cache = tab[u].cache
        /\ tab'[u].acked = tab[u].acked
        /\ tab'[u].fetch = [pc |-> "answered", snap |-> Visible]
    BY <1>0, <2>2 DEF Tab
  <2>4. Moves(u)
    BY <2>3 DEF Moves, CacheMove, FetchMove, FormMove, AckMove, Apart
  <2> QED BY <2>2, <2>4, SameMoves
<1>4. CASE FetchApply(u)
  <2> DEFINE s == [tab[u] EXCEPT !.cache = tab[u].fetch.snap, !.fetch = [pc |-> "none"]]
  <2>1. tab' = [tab EXCEPT ![u] = s]
    BY <1>4 DEF FetchApply, Typed, TypeOK
  <2>2. tab'[u] = s /\ \A t \in Tabs \ {u} : tab'[t] = tab[t]
    BY <2>1, OneTab
  <2>3. /\ tab'[u].form = tab[u].form /\ tab'[u].cache = tab[u].fetch.snap
        /\ tab'[u].acked = tab[u].acked
        /\ tab'[u].fetch = [pc |-> "none"] /\ tab[u].fetch.pc = "answered"
    <3>1. tab[u].fetch.pc = "answered"
      BY <1>4 DEF FetchApply
    <3> QED BY <1>0, <2>2, <3>1 DEF Tab
  <2>4. Moves(u)
    BY <2>3 DEF Moves, CacheMove, FetchMove, FormMove, AckMove, Apart
  <2> QED BY <2>2, <2>4, SameMoves
<1> QED BY <1>1, <1>2, <1>3, <1>4

LEMMA AnswerMoves ==
    ASSUME Typed, NEW u \in Tabs, AnswerOk(u)
    PROVE  \A t \in Tabs : Moves(t)
<1> DEFINE q == request[u]
           s == [tab[u] EXCEPT !.form = IF Cleared(q) THEN RestingForm ELSE tab[u].form]
           a == Acknowledged(q, s)
<1>0. tab[u] \in Tab
  BY DEF Typed, TypeOK
<1>1. /\ s \in Tab /\ s.cache = tab[u].cache /\ s.fetch = tab[u].fetch
      /\ s.acked = tab[u].acked /\ s.mounted = tab[u].mounted
      /\ s.form = tab[u].form \/ s.form = RestingForm
  BY <1>0, RestingType DEF Tab
<1>2. q \in Request /\ q.ver \in Nat /\ q.pc = "ok" /\ u \in Clients
  <2>1. u \in Clients /\ q.pc = "ok"
    BY DEF AnswerOk, Clients
  <2> QED BY <2>1, RequestType DEF Request
<1> HIDE DEF s, q
<1>3. /\ a \in Tab /\ a.cache = s.cache /\ a.form = s.form /\ a.fetch = s.fetch
      /\ a.mounted = s.mounted
      /\ \/ a.acked = s.acked
         \/ /\ s.mounted /\ s.cache # NoCache
            /\ \A d \in Docs : \/ a.acked[d] = s.acked[d]
                               \/ d = q.doc /\ a.acked[d] = q.ver
  BY <1>1, <1>2 DEF Acknowledged, Tab
<1> HIDE DEF a
<1>4. tab'[u] = Invalidated(a) /\ \A t \in Tabs \ {u} : tab'[t] = tab[t]
  BY OneTab DEF AnswerOk, a, s, q
<1>5. /\ tab'[u].cache = a.cache /\ tab'[u].form = a.form /\ tab'[u].acked = a.acked
      /\ tab'[u].fetch = a.fetch \/ tab'[u].fetch = [pc |-> "sent"]
      /\ a.mounted /\ a.cache # NoCache => tab'[u].fetch = [pc |-> "sent"]
  BY <1>3, <1>4 DEF Invalidated, Tab
<1>6. Moves(u)
  <2>1. CacheMove(u) /\ FetchMove(u) /\ Apart(u)
    BY <1>1, <1>3, <1>5 DEF CacheMove, FetchMove, Apart
  <2>2. FormMove(u)
    BY <1>1, <1>3, <1>5, RestingElsewhere DEF FormMove
  <2>3. AckMove(u)
    BY <1>1, <1>2, <1>3, <1>5 DEF AckMove, q
  <2> QED BY <2>1, <2>2, <2>3 DEF Moves
<1> QED BY <1>4, <1>6, SameMoves

LEMMA RestartMoves ==
    ASSUME Typed, Restart
    PROVE  \A t \in Tabs : Moves(t)
<1> SUFFICES ASSUME NEW t \in Tabs PROVE Moves(t)
  OBVIOUS
<1>0. tab[t] \in Tab
  BY DEF Typed, TypeOK
<1>1. CASE tab'[t] = tab[t]
  BY <1>1, SameMoves
<1>2. CASE tab'[t] = [tab[t] EXCEPT !.fetch = [pc |-> "none"]]
  <2>1. /\ tab'[t].form = tab[t].form /\ tab'[t].cache = tab[t].cache
        /\ tab'[t].acked = tab[t].acked /\ tab'[t].fetch = [pc |-> "none"]
    BY <1>0, <1>2 DEF Tab
  <2> QED BY <2>1 DEF Moves, CacheMove, FetchMove, FormMove, AckMove, Apart
<1> QED BY <1>1, <1>2 DEF Restart

LEMMA TabMoves ==
    ASSUME Typed, [Next]_vars
    PROVE  (\A t \in Tabs : Moves(t)) /\ kind' = kind
<1>1. CASE ClientStep
  <2>1. kind' = kind
    BY <1>1, ClientQuiet
  <2>2. ASSUME NEW u \in Tabs, AnswerError(u)
        PROVE  \A t \in Tabs : Moves(t)
    BY <2>2, SameMoves DEF AnswerError
  <2>3. ASSUME NEW u \in Tabs,
               \/ SaveForm(u)
               \/ \E f \in Fields : ResetSetting(u, f)
               \/ \E r \in Rows : Delete(u, r) \/ \E v \in Values : Toggle(u, r, v)
        PROVE  \A t \in Tabs : Moves(t)
    BY <2>3, SendsEffect, SameMoves
  <2>4. ASSUME NEW e \in Elsewhere, SendElsewhere(e)
        PROVE  \A t \in Tabs : Moves(t)
    BY <2>4, SendsEffect, SameMoves
  <2> QED BY <1>1, <2>1, <2>2, <2>3, <2>4, EditsMove, PageMoves, AnswerMoves
          DEF ClientStep, User, Browser
<1>2. ASSUME NEW c \in Clients, RowStep(c) PROVE tab' = tab /\ kind' = kind
  BY <1>2 DEF RowStep, Reject, UpdateRow, DeleteRow, CreateRow, Commit, bounds
<1>3. ASSUME NEW c \in Clients, SettingStep(c) PROVE tab' = tab /\ kind' = kind
  BY <1>3 DEF SettingStep, Take, WriteSettings, ApplyChanges, ApplyFails, Restore, DropNew,
     DeleteKeys, RestoreDefaults, Store, MakeLive, bounds
<1>4. CASE Restart
  BY <1>4, RestartMoves DEF Restart
<1>5. CASE UNCHANGED vars
  BY <1>5, SameMoves DEF vars
<1> QED BY <1>1, <1>2, <1>3, <1>4, <1>5, SameMoves
        DEF Next, ClientStep, Server, RowStep, SettingStep
-----------------------------------------------------------------------------
(* What was read of a row, and what the row holds.                            *)

\* A document's version only grows, and a row that kept its version is unchanged.
DocMoves ==
    /\ \A d \in Docs : version'[d] >= version[d]
    /\ \A r \in Rows : version'[r] = version[r] => stored'[r] = stored[r]

LEMMA DocsMove ==
    ASSUME Typed, [Next]_vars
    PROVE  DocMoves
<1>0. /\ version \in [Docs -> Nat] /\ stored \in [Docs -> Content \cup {Gone}]
      /\ Rows \subseteq Docs /\ Registry \in Docs /\ Registry \notin Rows
  BY RowAssumption DEF Typed, TypeOK, Docs
<1>1. ASSUME UNCHANGED <<version, stored>> PROVE DocMoves
  BY <1>0, <1>1 DEF DocMoves
<1>2. CASE ClientStep
  BY <1>1, <1>2, ClientQuiet DEF server
<1>3. ASSUME NEW c \in Clients, NEW d \in Rows, NEW row, Commit(c, d, row) PROVE DocMoves
  BY <1>0, <1>3 DEF Commit, DocMoves
<1>4. ASSUME NEW c \in Clients, RowStep(c) PROVE DocMoves
  <2>1. CASE Reject(c) \/ (DeleteRow(c) /\ UNCHANGED server)
    BY <1>1, <2>1 DEF Reject, server
  <2>2. CASE UpdateRow(c) \/ (DeleteRow(c) /\ ~UNCHANGED server)
    <3>1. request[c].doc \in Rows
      BY <2>2, RequestType DEF UpdateRow, DeleteRow, RequestFits
    <3> QED BY <1>3, <2>2, <3>1 DEF UpdateRow, DeleteRow
  <2>3. CASE \E r \in Rows : CreateRow(c, r)
    BY <1>3, <2>3 DEF CreateRow
  <2> QED BY <1>4, <2>1, <2>2, <2>3 DEF RowStep
<1>5. ASSUME NEW c \in Clients, SettingStep(c) PROVE DocMoves
  BY <1>0, <1>5 DEF SettingStep, Take, WriteSettings, ApplyChanges, ApplyFails, Restore,
     DropNew, DeleteKeys, RestoreDefaults, Store, MakeLive, server, DocMoves
<1>6. CASE Restart
  BY <1>0, <1>6 DEF Restart, DocMoves
<1>7. CASE UNCHANGED vars
  BY <1>1, <1>7 DEF vars
<1> QED BY <1>2, <1>4, <1>5, <1>6, <1>7 DEF Next, ClientStep, Server, RowStep, SettingStep

\* Some fields of row r as of version ver: not ahead, and right if r has that version.
Reads(r, ver, val, fields) ==
    /\ ver <= version[r]
    /\ ver = version[r] => \A f \in fields : val[f] = stored[r][f]

LEMMA ReadsKept ==
    ASSUME Typed, Typed', DocMoves, NEW r \in Rows, NEW ver \in Nat, NEW val, NEW fields,
           Reads(r, ver, val, fields)
    PROVE  Reads(r, ver, val, fields)'
<1>1. /\ version[r] \in Nat /\ version'[r] \in Nat /\ version'[r] >= version[r]
      /\ version'[r] = version[r] => stored'[r] = stored[r]
  BY DEF Typed, TypeOK, DocMoves, Docs
<1>2. ver <= version'[r]
  BY <1>1 DEF Reads
<1>3. ASSUME ver = version'[r] PROVE \A f \in fields : val[f] = stored'[r][f]
  BY <1>1, <1>3 DEF Reads
<1> QED BY <1>2, <1>3 DEF Reads
-----------------------------------------------------------------------------
(* How requests move.                                                         *)

\* A handler moves its own request only, and what it made is not ahead of the document.
LEMMA HandlersMove ==
    ASSUME Typed, Typed', NEW c \in Clients, RowStep(c) \/ SettingStep(c)
    PROVE  /\ \A d \in Clients \ {c} : request'[d] = request[d]
           /\ request'[c].pc # "sent"
           /\ request'[c].pc = "ok" /\ request'[c].doc \in Docs
                 => request'[c].ver <= version'[request'[c].doc]
<1>0. /\ version \in [Docs -> Nat] /\ request \in [Clients -> Request \cup {NoRequest}]
      /\ Rows \subseteq Docs /\ Registry \in Docs
  BY DEF Typed, TypeOK, Docs
<1>1. request[c] \in Request /\ RequestFits(request[c])
  <2>1. AtWork(c)
    BY DEF RowStep, Reject, UpdateRow, DeleteRow, CreateRow, SettingStep, Take, WriteSettings,
       ApplyChanges, ApplyFails, Restore, DropNew, DeleteKeys, RestoreDefaults, AtWork,
       Handled, Handling
  <2> QED BY <2>1, SettingsFit
<1>2. ASSUME NEW pc, pc \notin {"sent", "ok"}, Step(c, pc)
      PROVE  /\ \A d \in Clients \ {c} : request'[d] = request[d]
             /\ request'[c].pc \notin {"sent", "ok"}
  BY <1>0, <1>1, <1>2 DEF Step, Request
<1>3. ASSUME NEW d, NEW v, Finish(c, d, v)
      PROVE  /\ \A e \in Clients \ {c} : request'[e] = request[e]
             /\ request'[c].pc = "ok" /\ request'[c].doc = d /\ request'[c].ver = v
  BY <1>0, <1>1, <1>3 DEF Finish, Request
<1>4. ASSUME NEW d \in Docs, version' = [version EXCEPT ![d] = @ + 1],
             Finish(c, d, version[d] + 1)
      PROVE  /\ \A e \in Clients \ {c} : request'[e] = request[e]
             /\ request'[c].pc = "ok" /\ request'[c].doc = d
             /\ request'[c].ver <= version'[d]
  BY <1>0, <1>3, <1>4
<1>5. CASE \/ Reject(c) \/ ApplyFails(c) \/ WriteSettings(c) \/ Restore(c) \/ DropNew(c)
           \/ DeleteKeys(c)
  BY <1>2, <1>5 DEF Reject, ApplyFails, WriteSettings, Restore, DropNew, DeleteKeys, Store
<1>6. CASE Take(c)
  BY <1>0, <1>1, <1>6 DEF Take, Request
<1>7. CASE ApplyChanges(c) \/ RestoreDefaults(c)
  BY <1>0, <1>4, <1>7 DEF ApplyChanges, RestoreDefaults, MakeLive
<1>8. CASE UpdateRow(c)
  BY <1>0, <1>1, <1>4, <1>8 DEF UpdateRow, Commit, RequestFits
<1>9. CASE \E r \in Rows : CreateRow(c, r)
  BY <1>0, <1>4, <1>9 DEF CreateRow, Commit
<1>10. CASE DeleteRow(c)
  <2>1. request[c].doc \in Docs
    BY <1>0, <1>1, <1>10 DEF DeleteRow, RequestFits
  <2>2. CASE Commit(c, request[c].doc, Gone)
    BY <1>4, <2>1, <2>2 DEF Commit
  <2>3. CASE Finish(c, request[c].doc, version[request[c].doc]) /\ version' = version
    BY <1>0, <1>3, <2>1, <2>3
  <2> QED BY <1>10, <2>2, <2>3 DEF DeleteRow, server
<1> QED BY <1>5, <1>6, <1>7, <1>8, <1>9, <1>10 DEF RowStep, SettingStep

\* What a sent request says of its form, as far as the proofs follow it.
SameForm(p, q) ==
    p.doc = q.doc /\ p.base = q.base /\ p.typed = q.typed /\ p.val = q.val

LEMMA RequestMoves ==
    ASSUME Typed, Typed', [Next]_vars, NEW t \in Tabs
    PROVE  /\ request'[t].pc = "sent" /\ request'[t].op \in {"put", "rotate"} =>
                 \/ /\ request[t].pc = "sent" /\ request[t].op \in {"put", "rotate"}
                    /\ SameForm(request'[t], request[t])
                 \/ SameForm(request'[t], tab[t].form)
           /\ request'[t].pc = "ok" /\ request'[t].doc \in Docs =>
                 \/ /\ request[t].pc = "ok" /\ request[t].doc = request'[t].doc
                    /\ request[t].ver = request'[t].ver
                 \/ request'[t].ver <= version'[request'[t].doc]
<1> DEFINE Moved ==
           /\ request'[t].pc = "sent" /\ request'[t].op \in {"put", "rotate"} =>
                 \/ /\ request[t].pc = "sent" /\ request[t].op \in {"put", "rotate"}
                    /\ SameForm(request'[t], request[t])
                 \/ SameForm(request'[t], tab[t].form)
           /\ request'[t].pc = "ok" /\ request'[t].doc \in Docs =>
                 \/ /\ request[t].pc = "ok" /\ request[t].doc = request'[t].doc
                    /\ request[t].ver = request'[t].ver
                 \/ request'[t].ver <= version'[request'[t].doc]
<1>0. t \in Clients /\ request \in [Clients -> Request \cup {NoRequest}]
  BY DEF Clients, Typed, TypeOK
<1>1. ASSUME request'[t] = request[t] PROVE Moved
  BY <1>1 DEF SameForm
<1>2. ASSUME NEW c \in Clients \ {t}, NEW op, NEW form, NEW doc, NEW sent, NEW val,
             Post(c, op, form, doc, sent, val)
      PROVE  Moved
  BY <1>0, <1>1, <1>2, PostEffect
<1>3. ASSUME NEW op, op \notin {"put", "rotate"}, NEW form, NEW doc, NEW sent, NEW val,
             Post(t, op, form, doc, sent, val)
      PROVE  Moved
  BY <1>0, <1>3, PostEffect
<1>4. ASSUME NEW u \in Tabs, SaveForm(u) PROVE Moved
  <2>1. PICK op \in SaveOps(tab[u].form) :
            Post(u, op, tab[u].form, tab[u].form.doc, Body(tab[u].form), tab[u].form.val)
    BY <1>4 DEF SaveForm, Send
  <2>2. CASE u # t
    BY <1>2, <2>1, <2>2 DEF Clients
  <2>3. CASE u = t
    <3>1. SameForm(request'[t], tab[t].form) /\ request'[t].pc = "sent"
      BY <1>0, <2>1, <2>3 DEF Post, SameForm
    <3> QED BY <3>1
  <2> QED BY <2>2, <2>3
<1>5. ASSUME NEW u \in Tabs, NEW op, op \in {"reset", "delete", "toggle"},
             NEW form, NEW doc, NEW sent, NEW val, Post(u, op, form, doc, sent, val)
      PROVE  Moved
  <2>1. CASE u # t
    BY <1>2, <1>5, <2>1 DEF Clients
  <2>2. CASE u = t
    BY <1>3, <1>5, <2>2
  <2> QED BY <2>1, <2>2
<1>6. ASSUME NEW u \in Tabs,
             \/ \E f \in Fields : ResetSetting(u, f)
             \/ \E r \in Rows : Delete(u, r) \/ \E v \in Values : Toggle(u, r, v)
      PROVE  Moved
  BY <1>5, <1>6 DEF ResetSetting, Delete, Toggle, Send
<1>7. ASSUME NEW e \in Elsewhere, SendElsewhere(e) PROVE Moved
  <2>1. e \in Clients \ {t}
    BY <1>7, ClientAssumption DEF Clients
  <2> QED BY <1>2, <1>7, <2>1, ElsewherePosts
<1>8. ASSUME NEW u \in Tabs, Leave(u) PROVE Moved
  <2>1. request'[t] = request[t] \/ request'[t] = [request[t] EXCEPT !.attached = FALSE]
    BY <1>0, <1>8 DEF Leave, Detached
  <2>2. CASE request'[t] = [request[t] EXCEPT !.attached = FALSE] /\ request[t] # NoRequest
    <3>1. request[t] \in Request
      BY <1>0, <2>2
    <3>2. /\ request'[t].pc = request[t].pc /\ request'[t].op = request[t].op
          /\ request'[t].ver = request[t].ver /\ SameForm(request'[t], request[t])
      BY <2>2, <3>1 DEF Request, SameForm
    <3> QED BY <3>2 DEF SameForm
  <2>3. CASE request[t] = NoRequest
    <3>1. Detached(request[t]) = request[t]
      BY <2>3 DEF Detached, NoRequest
    <3>2. request'[t] = request[t]
      BY <1>0, <1>8, <3>1 DEF Leave
    <3> QED BY <1>1, <3>2
  <2> QED BY <1>1, <2>1, <2>2, <2>3
<1>9. ASSUME NEW u \in Tabs, AnswerOk(u) \/ AnswerError(u) PROVE Moved
  <2>1. request' = [request EXCEPT ![u] = NoRequest]
    BY <1>9 DEF AnswerOk, AnswerError
  <2>2. CASE u # t
    BY <1>0, <1>1, <2>1, <2>2
  <2>3. CASE u = t
    <3>1. request'[t].pc = "idle"
      BY <1>0, <2>1, <2>3 DEF NoRequest
    <3> QED BY <3>1
  <2> QED BY <2>2, <2>3
<1>10. ASSUME NEW u \in Tabs,
              \/ Enter(u) \/ FetchAnswer(u) \/ FetchApply(u) \/ OpenNew(u) \/ Close(u)
              \/ \E r \in Rows : Open(u, r)
              \/ \E f \in Fields : ClearField(u, f) \/ \E v \in Values : SetField(u, f, v)
       PROVE  Moved
  BY <1>1, <1>10 DEF Enter, FetchAnswer, FetchApply, OpenNew, Close, Open, ClearField,
     SetField, SetForm
<1>11. ASSUME NEW c \in Clients, RowStep(c) \/ SettingStep(c) PROVE Moved
  BY <1>0, <1>1, <1>11, HandlersMove
<1>12. CASE Restart
  <2>1. CASE AtWork(t)
    <3>1. request[t] \in Request /\ request'[t] = [request[t] EXCEPT !.pc = "lost"]
      BY <1>0, <1>12, <2>1, SettingsFit DEF Restart, AtWork
    <3>2. request'[t].pc = "lost"
      BY <3>1 DEF Request
    <3> QED BY <3>2
  <2>2. CASE ~AtWork(t)
    BY <1>0, <1>1, <1>12, <2>2 DEF Restart, AtWork
  <2> QED BY <2>1, <2>2
<1>13. CASE UNCHANGED vars
  BY <1>1, <1>13 DEF vars
<1> QED BY <1>4, <1>6, <1>7, <1>8, <1>9, <1>10, <1>11, <1>12, <1>13
        DEF Next, User, Browser, Server, RowStep, SettingStep
-----------------------------------------------------------------------------
(* Forms: FormsKeepOtherColumns.                                              *)

SnapReads(snap) == \A r \in Rows : Reads(r, snap[r].ver, snap[r].val, Fields)
FormReads(form) ==
    form.doc \in Rows => /\ kind # "settings"
                         /\ Reads(form.doc, form.base, form.val, Fields \ form.typed)
SentReads(q) ==
    q.pc = "sent" /\ q.op \in {"put", "rotate"} =>
        q.doc \in Rows /\ Reads(q.doc, q.base, q.val, Fields \ q.typed)

\* The cache, the answer under way, the form and the request of a tab read the rows.
TabReads(t) ==
    /\ tab[t].cache # NoCache => SnapReads(tab[t].cache)
    /\ tab[t].fetch.pc = "answered" => SnapReads(tab[t].fetch.snap)
    /\ FormReads(tab[t].form)
    /\ SentReads(request[t])

LEMMA SnapKept ==
    ASSUME Typed, Typed', DocMoves, NEW snap \in Snapshot, SnapReads(snap)
    PROVE  SnapReads(snap)'
<1>1. \A r \in Rows : snap[r].ver \in Nat
  BY DEF Snapshot, Docs
<1> QED BY <1>1, ReadsKept DEF SnapReads

LEMMA VisibleReads == ASSUME Typed PROVE SnapReads(Visible)
<1> SUFFICES ASSUME NEW r \in Rows PROVE Reads(r, Visible[r].ver, Visible[r].val, Fields)
  BY DEF SnapReads
<1>1. Visible[r].ver = version[r] /\ Visible[r].val = stored[r] /\ version[r] \in Nat
  BY RowAssumption DEF Visible, Docs, Typed, TypeOK
<1> QED BY <1>1 DEF Reads

LEMMA TabReadsStep ==
    ASSUME Typed, Typed', [Next]_vars, NEW t \in Tabs, TabReads(t)
    PROVE  TabReads(t)'
<1>0. /\ Moves(t) /\ kind' = kind /\ DocMoves
      /\ tab[t] \in Tab /\ tab[t].form \in Form /\ t \in Clients
  BY TabMoves, DocsMove DEF Typed, TypeOK, Clients, Tab
\* What a value read before this step reads after it.
<1>1. ASSUME NEW snap \in Snapshot, SnapReads(snap)
      PROVE  \A r \in Rows : Reads(r, snap[r].ver, snap[r].val, Fields)'
  BY <1>0, <1>1, SnapKept DEF SnapReads
<1>2. ASSUME NEW form \in Form, form.doc \in Rows,
             Reads(form.doc, form.base, form.val, Fields \ form.typed)
      PROVE  Reads(form.doc, form.base, form.val, Fields \ form.typed)'
  <2>1. form.base \in Nat
    BY DEF Form
  <2> QED BY <1>0, <1>2, <2>1, ReadsKept
<1>3. (tab[t].cache # NoCache => SnapReads(tab[t].cache))'
  <2>1. CASE tab'[t].cache = tab[t].cache /\ tab[t].cache # NoCache
    <3>1. tab[t].cache \in Snapshot /\ SnapReads(tab[t].cache)
      BY <1>0, <2>1 DEF Tab, TabReads
    <3> QED BY <1>1, <2>1, <3>1 DEF SnapReads
  <2>2. CASE tab[t].fetch.pc = "answered" /\ tab'[t].cache = tab[t].fetch.snap
    <3>1. tab[t].fetch.snap \in Snapshot /\ SnapReads(tab[t].fetch.snap)
      BY <1>0, <2>2 DEF Tab, Fetches, TabReads
    <3> QED BY <1>1, <2>2, <3>1 DEF SnapReads
  <2> QED BY <1>0, <2>1, <2>2 DEF Moves, CacheMove
<1>4. (tab[t].fetch.pc = "answered" => SnapReads(tab[t].fetch.snap))'
  <2>1. CASE tab'[t].fetch = tab[t].fetch /\ tab[t].fetch.pc = "answered"
    <3>1. tab[t].fetch.snap \in Snapshot /\ SnapReads(tab[t].fetch.snap)
      BY <1>0, <2>1 DEF Tab, Fetches, TabReads
    <3> QED BY <1>1, <2>1, <3>1 DEF SnapReads
  <2>2. CASE tab'[t].fetch = [pc |-> "answered", snap |-> Visible]
    <3>1. Visible \in Snapshot /\ SnapReads(Visible)
      BY VisibleReads DEF Visible, Snapshot, Typed, TypeOK, Docs
    <3>2. tab'[t].fetch.snap = Visible
      BY <2>2
    <3> QED BY <1>1, <3>1, <3>2 DEF SnapReads
  <2> QED BY <1>0, <2>1, <2>2 DEF Moves, FetchMove
<1>5. FormReads(tab[t].form)'
  <2> DEFINE old == tab[t].form
             new == tab'[t].form
             NewReads == Reads(tab[t].form.doc, tab[t].form.base, tab[t].form.val,
                               Fields \ tab[t].form.typed)'
  <2> SUFFICES ASSUME new.doc \in Rows
               PROVE  /\ kind' # "settings"
                      /\ NewReads
    BY DEF FormReads
  <2>0. old \in Form /\ new \in Form
    BY <1>0 DEF Typed, TypeOK, Tab
  <2>1. CASE new = old
    <3>1. kind # "settings" /\ Reads(old.doc, old.base, old.val, Fields \ old.typed)
      BY <2>1 DEF TabReads, FormReads
    <3> QED BY <1>0, <1>2, <2>0, <2>1, <3>1
  <2>2. ASSUME kind # "settings", tab[t].cache # NoCache, NEW r \in Rows,
               new = FilledFrom(t, r)
        PROVE  /\ kind' # "settings"
               /\ NewReads
    <3>1. tab[t].cache \in Snapshot /\ SnapReads(tab[t].cache)
      BY <1>0, <2>2 DEF Tab, TabReads
    <3>2. /\ new.doc = r /\ new.base = tab[t].cache[r].ver
          /\ new.val = tab[t].cache[r].val /\ Fields \ new.typed = Fields
      BY <2>2 DEF FilledFrom
    <3> QED BY <1>0, <1>1, <2>2, <3>1, <3>2
  <2>3. CASE kind = "settings" /\ new.doc = old.doc
    BY <2>3 DEF TabReads, FormReads
  <2>4. ASSUME new.doc = old.doc, new.base = old.base, NEW f \in Fields,
               new.typed = old.typed \cup {f},
               \A g \in Fields \ {f} : new.val[g] = old.val[g]
        PROVE  /\ kind' # "settings"
               /\ NewReads
    <3>1. kind # "settings" /\ Reads(old.doc, old.base, old.val, Fields \ old.typed)
      BY <2>4 DEF TabReads, FormReads
    <3>2. /\ old.base <= version'[old.doc]
          /\ old.base = version'[old.doc]
                => \A g \in Fields \ old.typed : old.val[g] = stored'[old.doc][g]
      BY <1>2, <2>0, <2>4, <3>1 DEF Reads
    <3> QED BY <1>0, <2>4, <3>1, <3>2 DEF Reads
  <2> QED BY <1>0, <2>1, <2>2, <2>3, <2>4 DEF Moves, FormMove
<1>6. SentReads(request[t])'
  <2> SUFFICES ASSUME request'[t].pc = "sent", request'[t].op \in {"put", "rotate"}
               PROVE  /\ request'[t].doc \in Rows
                      /\ Reads(request[t].doc, request[t].base, request[t].val,
                               Fields \ request[t].typed)'
    BY DEF SentReads
  <2>0. request'[t].doc \in Rows
    <3>1. request'[t] # NoRequest
      BY DEF NoRequest
    <3> QED BY <1>0, <3>1 DEF Typed, Fits, RequestFits
  <2>1. CASE /\ request[t].pc = "sent" /\ request[t].op \in {"put", "rotate"}
             /\ SameForm(request'[t], request[t])
    <3>1. /\ request[t].doc \in Rows
          /\ Reads(request[t].doc, request[t].base, request[t].val, Fields \ request[t].typed)
      BY <2>1 DEF TabReads, SentReads
    <3>2. request[t] \in Request /\ request[t].base \in Nat
      BY <1>0, <2>1, RequestType DEF Request
    <3> QED BY <1>0, <2>0, <2>1, <3>1, <3>2, ReadsKept DEF SameForm
  <2>2. CASE SameForm(request'[t], tab[t].form)
    <3>1. tab[t].form.doc \in Rows
      BY <2>0, <2>2 DEF SameForm
    <3>2. Reads(tab[t].form.doc, tab[t].form.base, tab[t].form.val, Fields \ tab[t].form.typed)
      BY <3>1 DEF TabReads, FormReads
    <3> QED BY <1>0, <1>2, <2>0, <2>2, <3>1, <3>2 DEF SameForm
  <2> QED BY <2>1, <2>2, RequestMoves
<1> QED BY <1>3, <1>4, <1>5, <1>6 DEF TabReads

LEMMA ReadsRows == Spec => [](\A t \in Tabs : TabReads(t))
<1>1. Init => \A t \in Tabs : TabReads(t)
  <2> SUFFICES ASSUME Init, NEW t \in Tabs PROVE TabReads(t)
    OBVIOUS
  <2>1. tab[t].cache = NoCache /\ tab[t].fetch.pc = "none" /\ tab[t].form = NoForm
    BY DEF Init
  <2>2. request[t].pc = "idle"
    BY DEF Init, NoRequest, Clients
  <2> QED BY <2>1, <2>2, RestingElsewhere DEF TabReads, FormReads, SentReads
<1>2. Typed /\ Typed' /\ (\A t \in Tabs : TabReads(t)) /\ [Next]_vars
      => (\A t \in Tabs : TabReads(t))'
  BY TabReadsStep
<1> QED BY <1>1, <1>2, SpecTyped, PTL DEF Spec

\* FormsKeepOtherColumns for any number of tabs, users, rows and columns.
THEOREM FormsKeepOtherColumnsCorrect == Spec => FormsKeepOtherColumns
<1> DEFINE Keeps == \A t \in Tabs :
         LET q == request[t]
         IN  q.pc = "sent" /\ q.op \in {"put", "rotate"} /\ request'[t].pc = "ok"
                /\ q.base = version[q.doc]
             => \A f \in Fields \ q.typed : stored'[q.doc][f] = stored[q.doc][f]
<1>1. Typed /\ Typed' /\ (\A t \in Tabs : TabReads(t)) /\ [Next]_vars => Keeps
  <2> SUFFICES ASSUME Typed, Typed', [Next]_vars, NEW t \in Tabs, TabReads(t),
                      request[t].pc = "sent", request[t].op \in {"put", "rotate"},
                      request'[t].pc = "ok", request[t].base = version[request[t].doc],
                      NEW f \in Fields \ request[t].typed
               PROVE  stored'[request[t].doc][f] = stored[request[t].doc][f]
    OBVIOUS
  <2> DEFINE q == request[t]
  <2>0. t \in Clients /\ q.doc \in Rows /\ q.val[f] = stored[q.doc][f]
    BY DEF TabReads, SentReads, Reads, Clients
  <2>1. CASE UpdateRow(t)
    <3>1. stored'[q.doc] = Merge(q.sent, q.val, stored[q.doc])
      BY <2>0, <2>1 DEF UpdateRow, Commit, Typed, TypeOK, Docs
    <3> QED BY <2>0, <3>1, MergedField
  <2>2. CASE UNCHANGED stored
    BY <2>2
  <2>3. ASSUME NEW c \in Clients \ {t}, RowStep(c) \/ SettingStep(c) PROVE FALSE
    BY <2>0, <2>3, HandlersMove
  <2>4. CASE RowStep(t) /\ ~UpdateRow(t)
    BY <2>2, <2>4 DEF RowStep, Reject, DeleteRow, CreateRow, server
  <2>5. CASE SettingStep(t)
    <3>1. RequestFits(q)
      BY <2>0, RequestType
    <3> QED BY <2>0, <2>5, SettingTouches
  <2> QED BY <2>0, <2>1, <2>2, <2>3, <2>4, <2>5, ClientQuiet
          DEF Next, ClientStep, Server, RowStep, SettingStep, Restart, vars, server
<1> QED BY <1>1, SpecTyped, ReadsRows, PTL DEF Spec, FormsKeepOtherColumns
-----------------------------------------------------------------------------
(* What a tab was told: ReadYourSaves.                                        *)

\* Nothing acknowledged or about to be is ahead of its document, and the answer under
\* way to a tab has what the tab was told.
Told(t) ==
    /\ \A d \in Docs : /\ tab[t].acked[d] <= version[d]
                       /\ tab[t].fetch.pc = "answered"
                             => tab[t].acked[d] <= tab[t].fetch.snap[d].ver
    /\ request[t].pc = "ok" /\ request[t].doc \in Docs
          => request[t].ver <= version[request[t].doc]

LEMMA ToldStep ==
    ASSUME Typed, Typed', [Next]_vars, NEW t \in Tabs, Told(t)
    PROVE  Told(t)'
<1>0. /\ Moves(t) /\ DocMoves /\ t \in Clients /\ tab[t] \in Tab
      /\ version \in [Docs -> Nat] /\ version' \in [Docs -> Nat]
  BY TabMoves, DocsMove DEF Typed, TypeOK, Clients
<1>1. ASSUME request'[t].pc = "ok", request'[t].doc \in Docs
      PROVE  request'[t].ver <= version'[request'[t].doc]
  <2>1. CASE /\ request[t].pc = "ok" /\ request[t].doc = request'[t].doc
             /\ request[t].ver = request'[t].ver
    <3>1. request[t].ver \in Nat
      BY <1>0, <2>1, RequestType DEF Request
    <3>2. request[t].ver <= version[request[t].doc]
          /\ version[request[t].doc] <= version'[request[t].doc]
          /\ version[request[t].doc] \in Nat /\ version'[request[t].doc] \in Nat
      BY <1>0, <1>1, <2>1 DEF Told, DocMoves
    <3> QED BY <2>1, <3>1, <3>2
  <2> QED BY <1>1, <2>1, RequestMoves
<1>2. ASSUME NEW d \in Docs
      PROVE  /\ tab'[t].acked[d] <= version'[d]
             /\ tab'[t].fetch.pc = "answered" => tab'[t].acked[d] <= tab'[t].fetch.snap[d].ver
  <2>0. /\ tab[t].acked[d] <= version[d] /\ version[d] <= version'[d]
        /\ tab[t].acked[d] \in Nat /\ version[d] \in Nat /\ version'[d] \in Nat
    BY <1>0, <1>2 DEF Told, DocMoves, Tab
  <2>1. CASE tab'[t].acked = tab[t].acked
    <3>1. tab'[t].acked[d] <= version'[d]
      BY <2>0, <2>1
    <3>2. CASE tab'[t].fetch = tab[t].fetch
      BY <1>2, <2>1, <3>1, <3>2 DEF Told
    <3>3. CASE tab'[t].fetch = [pc |-> "answered", snap |-> Visible]
      <4>1. tab'[t].fetch.snap[d].ver = version[d]
        BY <1>2, <3>3 DEF Visible
      <4> QED BY <2>0, <2>1, <3>1, <4>1
    <3> QED BY <1>0, <3>1, <3>2, <3>3 DEF Moves, FetchMove
  <2>2. CASE /\ request[t].pc = "ok" /\ tab'[t].fetch.pc = "sent"
             /\ \/ tab'[t].acked[d] = tab[t].acked[d]
                \/ d = request[t].doc /\ tab'[t].acked[d] = request[t].ver
    <3>1. request[t].ver \in Nat
      BY <1>0, <2>2, RequestType DEF Request
    <3> QED BY <1>2, <2>0, <2>2, <3>1 DEF Told
  <2> QED BY <1>0, <1>2, <2>1, <2>2 DEF Moves, AckMove
<1> QED BY <1>1, <1>2 DEF Told

LEMMA ToldTheTruth == Spec => [](\A t \in Tabs : Told(t))
<1>1. Init => \A t \in Tabs : Told(t)
  <2> SUFFICES ASSUME Init, NEW t \in Tabs PROVE Told(t)
    OBVIOUS
  <2>1. tab[t].fetch.pc = "none" /\ request[t].pc = "idle"
    BY DEF Init, NoRequest, Clients
  <2>2. \A d \in Docs : tab[t].acked[d] = 0 /\ version[d] = 0
    BY DEF Init
  <2> QED BY <2>1, <2>2 DEF Told
<1>2. Typed /\ Typed' /\ (\A t \in Tabs : Told(t)) /\ [Next]_vars
      => (\A t \in Tabs : Told(t))'
  BY ToldStep
<1> QED BY <1>1, <1>2, SpecTyped, PTL DEF Spec

\* ReadYourSaves for any number of tabs, users and documents.
THEOREM ReadYourSavesCorrect == Spec => ReadYourSaves
<1> DEFINE Shows == \A t \in Tabs, d \in Docs :
         tab'[t].cache # tab[t].cache => tab'[t].cache[d].ver >= tab'[t].acked[d]
<1>1. Typed /\ (\A t \in Tabs : Told(t)) /\ [Next]_vars => Shows
  <2> SUFFICES ASSUME Typed, [Next]_vars, NEW t \in Tabs, NEW d \in Docs, Told(t),
                      tab'[t].cache # tab[t].cache
               PROVE  tab'[t].cache[d].ver >= tab'[t].acked[d]
    OBVIOUS
  <2>1. /\ tab[t].fetch.pc = "answered" /\ tab'[t].cache = tab[t].fetch.snap
        /\ tab'[t].acked = tab[t].acked
    BY TabMoves DEF Moves, CacheMove, Apart
  <2>2. tab[t].acked[d] <= tab[t].fetch.snap[d].ver
    BY <2>1 DEF Told
  <2>3. tab[t].acked[d] \in Nat /\ tab[t].fetch.snap[d].ver \in Nat
    BY <2>1 DEF Typed, TypeOK, Tab, Fetches, Snapshot
  <2> QED BY <2>1, <2>2, <2>3
<1> QED BY <1>1, SpecTyped, ToldTheTruth, PTL DEF Spec, ReadYourSaves
=============================================================================
