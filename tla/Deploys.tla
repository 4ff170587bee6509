------------------------------ MODULE Deploys ------------------------------
(***************************************************************************)
(* The versions of one project on the Scrapyd nodes, and who changes them: *)
(* deploys from the deploy page, git and webhooks (pages/deploy.tsx,       *)
(* routers/deploy.py, routers/webhooks.py), and the deletions and the      *)
(* pruning of the projects page (pages/projects.tsx).                      *)
(*                                                                         *)
(* A deploy stores its egg on all of its nodes at once, then asks every    *)
(* node that took it for the spiders of that version and deletes the       *)
(* version again where there are none. Nothing orders two deploys, or a    *)
(* deploy and a deletion.                                                  *)
(***************************************************************************)
EXTENDS Naturals, FiniteSets, FiniteSetsExt

CONSTANTS
    Requests,     \* deploys, each made at most once
    Nodes,        \* node numbers
    Versions,     \* versions, in the order Scrapyd lists them
    Early,        \* the sets of versions of which one is there, on every node, from the start
    None,         \* no egg, no record, nothing opened
    Limits        \* the bounds: how often each thing of Counted may happen, one choice
                  \* of them for each behaviour

\* Deploys begun; calls of which the answer is lost; versions or projects deleted;
\* version lists opened; submits of the Run Spider form, edits of it and task lists
\* read for it.
Counted == {"deploys", "losses", "deletes", "lists", "submits", "edits", "reads"}
ASSUME VersionAssumption == Nodes \subseteq Nat /\ Versions \subseteq Nat \ {0}
                            /\ IsFiniteSet(Versions) /\ Early \subseteq SUBSET Versions
ASSUME LimitAssumption == Limits \subseteq [Counted -> Nat]

VARIABLES
    held,      \* the egg of each version on each node
    changes,   \* how often each of them was stored or deleted
    deploy,    \* the deploys
    prune,     \* the opened version list of the projects page, and its pruning
    limits,    \* the bounds of the behaviour
    counts     \* how often the bounded things happened

deployVars == <<held, changes, deploy, prune>>

\* by: the deploy that stored it, none if it was there before.
Egg == [by : Requests \cup {None}, good : BOOLEAN]
Eggs == [Nodes -> [Versions -> Egg \cup {None}]]
\* adding and stored: before and after addversion; bad: the spiders cannot be listed;
\* refused, ok, error, lost: the answer for the node, lost when a call went astray.
Steps == {"out", "adding", "stored", "bad", "refused", "ok", "error", "lost"}
Deploy == [pc : {"idle", "running", "ended"}, version : Versions \cup {None}, good : BOOLEAN,
           step : [Nodes -> Steps], stamp : [Nodes -> Nat],
           record : {None, "pending", "ok", "partial", "error"}]
NoDeploy == [pc |-> "idle", version |-> None, good |-> FALSE,
             step |-> [n \in Nodes |-> "out"], stamp |-> [n \in Nodes |-> 0],
             record |-> None]
Prune == [pc : {"closed", "listed", "deleting"}, node : Nodes \cup {None},
          seen : SUBSET Versions, todo : SUBSET Versions]
NoPrune == [pc |-> "closed", node |-> None, seen |-> {}, todo |-> {}]

Once(thing) ==
    /\ counts[thing] < limits[thing]
    /\ counts' = [counts EXCEPT ![thing] = @ + 1]

Present(n) == {v \in Versions : held[n][v] # None}
\* What Scrapyd runs when no version is named; zero when there is none.
Latest(n) == IF Present(n) = {} THEN 0 ELSE Max(Present(n))

InitDeploys ==
    /\ limits \in Limits /\ counts = [thing \in Counted |-> 0]
    /\ \E early \in Early :
           held = [n \in Nodes |-> [v \in Versions |->
                      IF v \in early THEN [by |-> None, good |-> TRUE] ELSE None]]
    /\ changes = [n \in Nodes |-> [v \in Versions |-> 0]]
    /\ deploy = [r \in Requests |-> NoDeploy]
    /\ prune = NoPrune
-----------------------------------------------------------------------------
(* A deploy.                                                                  *)

Version(r) == deploy[r].version
Targets(r) == {n \in Nodes : deploy[r].step[n] # "out"}
Put(n, v, egg) ==
    /\ held' = [held EXCEPT ![n][v] = egg]
    /\ changes' = [changes EXCEPT ![n][v] = @ + 1]
Moved(r, n, step) == deploy' = [deploy EXCEPT ![r].step[n] = step]
MovedAndStamped(r, n, step) ==
    deploy' = [deploy EXCEPT ![r].step[n] = step,
                             ![r].stamp[n] = changes[n][Version(r)] + 1]

\* The egg is built and the targets are resolved; record: what was written before that.
Begin(r, v, good, targets, record) ==
    /\ deploy[r].pc = "idle" /\ targets # {}
    /\ Once("deploys")
    /\ deploy' = [deploy EXCEPT ![r] =
           [NoDeploy EXCEPT !.pc = "running", !.version = v, !.good = good, !.record = record,
                !.step = [n \in Nodes |-> IF n \in targets THEN "adding" ELSE "out"]]]
    /\ UNCHANGED <<held, changes, prune, limits>>

\* A folder or a file, and a git repository, from the deploy page, on the nodes picked there.
DeployPicked(r, v, good, targets) == Begin(r, v, good, targets, None)
DeployGit(r, v, good, targets) == Begin(r, v, good, targets, None)
\* The Deploy button of a registered project, and a push to its repository, on its nodes.
DeployProject(r, v, good, targets) == Begin(r, v, good, targets, "pending")
Webhook(r, v, good, targets) == Begin(r, v, good, targets, "pending")

\* addversion of one node; Scrapyd stores any egg.
AddVersion(r, n) ==
    /\ deploy[r].step[n] = "adding"
    /\ \/ /\ Put(n, Version(r), [by |-> r, good |-> deploy[r].good])
          /\ MovedAndStamped(r, n, "stored")
          /\ UNCHANGED counts
       \/ Moved(r, n, "refused") /\ UNCHANGED <<held, changes, counts>>
       \/ \* the call times out after the egg was stored
          /\ Once("losses")
          /\ Put(n, Version(r), [by |-> r, good |-> deploy[r].good])
          /\ Moved(r, n, "lost")
    /\ UNCHANGED <<prune, limits>>

\* gather: every node has answered before the first is asked for its spiders.
Answered(r) == \A n \in Nodes : deploy[r].step[n] # "adding"

\* Mutant: the spiders of the latest version are listed.
ListsOfLatest(r, n) == Latest(n) # 0 /\ held[n][Latest(n)].good
ListsSpiders(r, n) == held[n][Version(r)] # None /\ held[n][Version(r)].good

\* _egg_lists_spiders: of the version as it is now, whoever stored it.
ListSpiders(r, n) ==
    /\ deploy[r].step[n] = "stored" /\ Answered(r)
    /\ \/ Moved(r, n, IF ListsSpiders(r, n) THEN "ok" ELSE "bad") /\ UNCHANGED counts
       \/ Once("losses") /\ Moved(r, n, "bad")      \* no answer counts as no spiders
    /\ UNCHANGED <<held, changes, prune, limits>>

\* delversion of a version without spiders.
Rollback(r, n) ==
    /\ deploy[r].step[n] = "bad"
    /\ \/ /\ Put(n, Version(r), None)
          /\ MovedAndStamped(r, n, "error")
          /\ UNCHANGED counts
       \/ Once("losses") /\ Moved(r, n, "lost") /\ UNCHANGED <<held, changes>>
    /\ UNCHANGED <<prune, limits>>

Overall(r) ==
    LET fine == {n \in Targets(r) : deploy[r].step[n] = "ok"}
    IN  IF fine = Targets(r) THEN "ok" ELSE IF fine # {} THEN "partial" ELSE "error"
\* record_deploy or finish_deploy_record.
End(r) ==
    /\ deploy[r].pc = "running"
    /\ \A n \in Nodes : deploy[r].step[n] \notin {"adding", "stored", "bad"}
    /\ deploy' = [deploy EXCEPT ![r].pc = "ended", ![r].record = Overall(r)]
    /\ UNCHANGED <<held, changes, prune, limits, counts>>
-----------------------------------------------------------------------------
(* The projects page.                                                         *)

Removed(n, gone) ==
    /\ held' = [held EXCEPT ![n] = [v \in Versions |-> IF v \in gone THEN None ELSE @[v]]]
    /\ changes' = [changes EXCEPT ![n] = [v \in Versions |->
           IF v \in gone \cap Present(n) THEN @[v] + 1 ELSE @[v]]]

\* A version, or the whole project, is deleted on one node, here or elsewhere.
Delete(n, gone) ==
    /\ gone # {} /\ gone \subseteq Present(n)
    /\ Once("deletes")
    /\ Removed(n, gone)
    /\ UNCHANGED <<deploy, prune, limits>>

\* The card of a project is opened: its versions are listed, and not polled.
ListVersions(n) ==
    /\ prune.pc # "deleting"
    /\ Once("lists")
    /\ prune' = [pc |-> "listed", node |-> n, seen |-> Present(n), todo |-> {}]
    /\ UNCHANGED <<held, changes, deploy, limits>>

\* Mutant: the order of the list is taken to be descending.
OldOnesReversed(seen) == seen \ {Min(seen)}
\* all.slice(0, -1) of the list on the screen.
OldOnes(seen) == seen \ {Max(seen)}

PruneOld ==
    /\ prune.pc = "listed" /\ Cardinality(prune.seen) > 1
    /\ prune' = [prune EXCEPT !.pc = "deleting", !.todo = OldOnes(prune.seen)]
    /\ UNCHANGED <<held, changes, deploy, limits, counts>>

\* The next delversion, whatever Scrapyd answers; a call that does not come back ends the
\* loop. The list is read again then.
PruneNext ==
    /\ prune.pc = "deleting"
    /\ IF prune.todo = {} THEN prune' = NoPrune /\ UNCHANGED <<held, changes, counts>>
       ELSE LET v == Min(prune.todo)
                on == [prune EXCEPT !.todo = @ \ {v}]
            IN  \/ Removed(prune.node, {v}) /\ prune' = on /\ UNCHANGED counts
                \/ Once("losses") /\ prune' \in {on, NoPrune} /\ UNCHANGED <<held, changes>>
    /\ UNCHANGED <<deploy, limits>>
-----------------------------------------------------------------------------
NextDeploys ==
    \/ \E r \in Requests :
           \/ \E v \in Versions, good \in BOOLEAN, targets \in SUBSET Nodes :
                  \/ DeployPicked(r, v, good, targets) \/ DeployGit(r, v, good, targets)
                  \/ DeployProject(r, v, good, targets) \/ Webhook(r, v, good, targets)
           \/ \E n \in Nodes : AddVersion(r, n) \/ ListSpiders(r, n) \/ Rollback(r, n)
           \/ End(r)
    \/ \E n \in Nodes : \/ \E v \in Versions : Delete(n, {v})
                        \/ Delete(n, Present(n))
                        \/ ListVersions(n)
    \/ PruneOld \/ PruneNext
-----------------------------------------------------------------------------
DeploysTypeOK ==
    /\ held \in Eggs /\ changes \in [Nodes -> [Versions -> Nat]]
    /\ deploy \in [Requests -> Deploy] /\ prune \in Prune
    /\ limits \in Limits /\ counts \in [Counted -> Nat]

Resting == \A r \in Requests : deploy[r].pc # "running"

\* However deploys, deletions and prunings of the same version interleave, no egg without
\* spiders stays on a node once every deploy has ended and no call was lost
\* (deploy_egg_to_nodes and _finalize_node of deploy.py).
NoBrokenLeft ==
    Resting /\ counts.losses = 0 =>
        \A n \in Nodes : \A v \in Present(n) : held[n][v].good

\* The answer for a node is true until somebody else stores or deletes the version: after
\* ok the node holds this deploy's runnable egg, after error it does not hold the version.
ResultsTell ==
    \A r \in Requests : \A n \in Nodes :
        deploy[r].stamp[n] # 0 /\ deploy[r].stamp[n] = changes[n][Version(r)] =>
            /\ deploy[r].step[n] = "ok" => held[n][Version(r)] = [by |-> r, good |-> TRUE]
            /\ deploy[r].step[n] = "error" => held[n][Version(r)] = None

\* Pruning leaves the latest version of the node alone, also a version deployed since the
\* list was read, as long as the latest of that list is still there (projects.tsx).
PruneKeepsLatest ==
    [][\A n \in Nodes : prune.pc = "deleting" /\ prune.node = n /\ prune'.todo # prune.todo
                         /\ Max(prune.seen) \in Present(n)
           => Latest(n)' = Latest(n)]_deployVars
=============================================================================
