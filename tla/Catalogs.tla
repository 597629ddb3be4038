------------------------------- MODULE Catalogs -------------------------------
(***************************************************************************)
(* The public catalogs next to the leaderboard: models.json,               *)
(* scenarios.json and engines.json, derived from one commit of the         *)
(* repository and put one after the other by whoever publishes: the        *)
(* publish-catalogs job of a commit, or a submission of the orchestrator,  *)
(* from the commit it was deployed with.  The site reads leaderboard and   *)
(* models, then the other two.  An object is the commit it is derived of.  *)
(***************************************************************************)
EXTENDS Naturals, FiniteSets, Sequences

CONSTANTS
    Keys,       \* (model, engine), the key the site merges by
    Entries,    \* the keys models.yaml lists, commit by commit
    Jobs,       \* publish-catalogs jobs that may run at once
    Server,     \* the submission of the orchestrator, one at a time
    MaxFaults   \* bound on puts that fail

ASSUME CatalogsAssumption ==
    /\ Entries \in Seq(SUBSET Keys) /\ Len(Entries) > 0
    /\ Server \notin Jobs /\ MaxFaults \in Nat

Publishers == Jobs \union {Server}
Commits == 1 .. Len(Entries)
Absent == 0   \* the object does not exist

VARIABLES
    head,       \* the last commit pushed
    object,     \* the commit each catalog is derived of
    at, of,     \* the put each publisher is at, and its commit
    created,    \* keys for which a run has been created
    listed,     \* those of them for which a submission has created one
    board,      \* keys leaderboard.json has a row for
    page,       \* a page load of the site
    overlapped, \* two publishers have been at work at once
    failed,     \* a publisher has failed with some of its puts done, and not all
    published,  \* commits whose catalogs a publisher has put, all three
    reverted,   \* a put has replaced a catalog by one of an older commit
    faults

historyVars == <<overlapped, failed, published, reverted>>
pubVars == <<at, of>>
runVars == <<created, listed, board>>
vars == <<head, object, pubVars, runVars, page, historyVars, faults>>

Catalog == {"models", "scenarios", "engines"}
Steps == Catalog \union {"idle", "create"}
Unread == [at |-> "start", rows |-> {}, models |-> Absent]
Busy(p) == at[p] \in Catalog

Init ==
    /\ head = 1
    /\ object = [c \in Catalog |-> Absent]
    /\ at = [p \in Publishers |-> "idle"] /\ of = [p \in Publishers |-> 1]
    /\ created = {} /\ listed = {} /\ board = {} /\ page = Unread
    /\ overlapped = FALSE /\ failed = FALSE /\ published = {} /\ reverted = FALSE
    /\ faults = 0

-----------------------------------------------------------------------------
\* _publish_catalogs.

\* Mutant: engines.json, the newest of the three, is forgotten.
BugFollowedBy(p) ==
    CASE at[p] = "models" -> "scenarios"
      [] at[p] = "scenarios" -> IF p = Server THEN "create" ELSE "idle"

\* Three puts; then a submission goes on to its runs, and a job ends.
FollowedBy(p) ==
    CASE at[p] = "models" -> "scenarios"
      [] at[p] = "scenarios" -> "engines"
      [] at[p] = "engines" -> IF p = Server THEN "create" ELSE "idle"

\* A job checks out its own commit, and may be run again; the server has the
\* commit it was deployed with.  Nothing keeps one from overlapping another.
Begin(p, v) ==
    /\ at[p] = "idle" /\ v <= head
    /\ at' = [at EXCEPT ![p] = "models"]
    /\ of' = [of EXCEPT ![p] = v]
    /\ overlapped' = (overlapped \/ \E q \in Publishers : Busy(q))
    /\ UNCHANGED <<head, object, runVars, page, failed, published, reverted, faults>>

\* The publisher goes on to a step; a job that is over has no commit.
Goto(p, step) ==
    /\ at' = [at EXCEPT ![p] = step]
    /\ of' = [of EXCEPT ![p] = IF step = "idle" THEN 1 ELSE @]

\* The put takes effect.
Land(p) ==
    /\ object' = [object EXCEPT ![at[p]] = of[p]]
    /\ reverted' = (reverted \/ of[p] < object[at[p]])
    /\ published' = published \union (IF FollowedBy(p) \in Catalog THEN {} ELSE {of[p]})

Put(p) ==
    /\ Busy(p)
    /\ Land(p)
    /\ Goto(p, FollowedBy(p))
    /\ UNCHANGED <<head, runVars, page, overlapped, failed, faults>>

\* Mutant: the job goes on with the next put.
BugPutFails(p) ==
    /\ Busy(p) /\ faults < MaxFaults
    /\ faults' = faults + 1
    /\ Goto(p, FollowedBy(p))
    /\ UNCHANGED <<head, object, runVars, page, historyVars>>

\* The call raises, and its put may have landed all the same.  The exception
\* ends the job, or the submission before its first run.
PutFails(p) ==
    /\ Busy(p) /\ faults < MaxFaults
    /\ faults' = faults + 1
    /\ Goto(p, "idle")
    /\ \/ /\ Land(p)
          /\ failed' = (failed \/ at[p] # "engines")
       \/ /\ failed' = (failed \/ at[p] # "models")
          /\ UNCHANGED <<object, published, reverted>>
    /\ UNCHANGED <<head, runVars, page, overlapped>>

-----------------------------------------------------------------------------
\* What the catalogs are about.

Push ==
    /\ head < Len(Entries)
    /\ head' = head + 1
    /\ UNCHANGED <<object, pubVars, runVars, page, historyVars, faults>>

\* Mutant: what has been created before is forgotten.
BugCreateRuns ==
    /\ at[Server] = "create"
    /\ \E some \in SUBSET Entries[of[Server]] : created' = some /\ listed' = listed \union some
    /\ Goto(Server, "idle")
    /\ UNCHANGED <<head, object, board, page, historyVars, faults>>

\* submit creates runs of its commit's entries, those its filter selects.
CreateRuns ==
    /\ at[Server] = "create"
    /\ \E some \in SUBSET Entries[of[Server]] :
          created' = created \union some /\ listed' = listed \union some
    /\ Goto(Server, "idle")
    /\ UNCHANGED <<head, object, board, page, historyVars, faults>>

\* POST /runs creates a run of any model and engine, listed or not.
PostRun(k) ==
    /\ k \notin created
    /\ created' = created \union {k}
    /\ UNCHANGED <<head, object, pubVars, listed, board, page, historyVars, faults>>

\* A run completes: a row of the leaderboard, which is never taken off it.
RunCompletes(k) ==
    /\ k \in created \ board
    /\ board' = board \union {k}
    /\ UNCHANGED <<head, object, pubVars, created, listed, page, historyVars, faults>>

-----------------------------------------------------------------------------
\* fetchCatalogs and buildView.

\* Leaderboard and models are fetched side by side.  `rows` are the rows, of keys
\* a submission has listed, that the page got before the models or is sure to get.
OpenPage ==
    /\ page.at = "start"
    /\ page' = [page EXCEPT !.at = "both", !.rows = board \intersect listed]
    /\ UNCHANGED <<head, object, pubVars, runVars, historyVars, faults>>

GetLeaderboard ==
    /\ \/ /\ page.at = "both"
          /\ page' = [page EXCEPT !.at = "models", !.rows = board \intersect listed]
       \/ /\ page.at = "leaderboard"
          /\ page' = [page EXCEPT !.at = "loaded"]
    /\ UNCHANGED <<head, object, pubVars, runVars, historyVars, faults>>

\* A 404 is a page-load error.
GetModels ==
    /\ page.at \in {"both", "models"} /\ object["models"] # Absent
    /\ page' = [page EXCEPT !.models = object["models"],
                            !.at = IF page.at = "both" THEN "leaderboard" ELSE "loaded"]
    /\ UNCHANGED <<head, object, pubVars, runVars, historyVars, faults>>

\* Reloaded, or it could not be loaded.
ClosePage ==
    /\ page.at # "start"
    /\ page' = Unread
    /\ UNCHANGED <<head, object, pubVars, runVars, historyVars, faults>>

Next ==
    \/ \E p \in Publishers : Put(p) \/ PutFails(p) \/ \E v \in Commits : Begin(p, v)
    \/ Push \/ CreateRuns \/ (\E k \in Keys : PostRun(k) \/ RunCompletes(k))
    \/ OpenPage \/ GetLeaderboard \/ GetModels \/ ClosePage

Spec == Init /\ [][Next]_vars

-----------------------------------------------------------------------------
\* Properties.

\* Every variable has its type.
TypeOK ==
    /\ head \in Commits
    /\ object \in [Catalog -> Commits \union {Absent}]
    /\ at \in [Publishers -> Steps] /\ of \in [Publishers -> Commits]
    /\ board \union listed \subseteq created /\ created \subseteq Keys
    /\ page.at \in {"start", "both", "leaderboard", "models", "loaded"}
    /\ {overlapped, failed, reverted} \subseteq BOOLEAN /\ published \subseteq Commits
    /\ faults \in 0 .. MaxFaults

\* With nobody at work the three catalogs are of the same commit, unless two
\* publishers have overlapped or one has failed with some of its puts done and
\* others not (a put whose call raised may be either).
CatalogsAgree ==
    (\A p \in Publishers : ~Busy(p)) /\ ~overlapped /\ ~failed =>
        \A c, d \in Catalog : object[c] = object[d]

\* The rows of entries a submission had queued, that were on the leaderboard when
\* the page began to load or when it got it before the models, are described by
\* the models the page got, or the entry was taken out of models.yaml by their
\* commit (submit publishes before it creates); unless an older commit was
\* published over a newer one.  A row of a run that only POST /runs created has
\* no description, and the page derives a name for it.
RowsDescribed ==
    page.at = "loaded" /\ ~reverted =>
        \A k \in page.rows : \E v \in 1 .. page.models : k \in Entries[v]

\* "so the change is live immediately" (publish-catalogs.yml:5): once the head
\* has been published, by any of the overlapping jobs and submissions, all three
\* catalogs are of the head, unless an older commit was put over a newer one.
HeadIsLive ==
    head \in published /\ ~reverted => \A c \in Catalog : object[c] = head
===============================================================================
