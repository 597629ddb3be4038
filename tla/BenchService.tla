----------------------------- MODULE BenchService -----------------------------
(***************************************************************************)
(* Submission and publication: POST /bench, POST /runs and the writes of   *)
(* POST /runs/{id}/complete to S3, for several requests at a time.  Of the *)
(* life of a run in between, this module takes what RunLifecycle promises  *)
(* (and Orchestrator is shown to implement); the database survives a       *)
(* crash, the requests in flight do not.  The empty database of the next   *)
(* bench cycle looks from here like a crash after which every run is over. *)
(***************************************************************************)
EXTENDS Naturals, ResultStore

CONSTANTS
    MaxAttempts,   \* settings.provision_max_attempts
    DirectRuns,    \* the runs created by POST /runs, the others by POST /bench
    Requests,      \* POST /runs/{id}/complete requests that may be in flight
    Submissions,   \* POST /bench requests that may be in flight
    MaxFaults      \* bound: S3 errors, malformed results and crashes

ASSUME DirectRunsAssumption == DirectRuns \subseteq Runs
ASSUME FaultsAssumption == MaxFaults \in Nat /\ MaxAttempts \in Nat \ {0}

VARIABLES
    phase, spent, result,   \* the run table, as RunLifecycle shows it
    reqAt,    \* where each /complete request stands
    reqRun,   \* the run it is about
    seen,     \* the leaderboard it has read
    subAt,    \* where each submission stands
    todo,     \* the entries it has still to look at
    cur,      \* the entry it is busy with, while it has one
    force,    \* its query parameter
    faults    \* faults so far

Life == INSTANCE RunLifecycle

lifeVars == <<phase, spent, result>>
reqVars == <<reqAt, reqRun, seen>>
subVars == <<subAt, todo, cur, force>>
vars == <<storeVars, lifeVars, reqVars, subVars, faults>>

ReqSteps == {"idle", "put", "copy", "commit", "meta", "read", "write"}
SubSteps == {"idle", "catalogs", "next", "active", "create"}

Init ==
    /\ ResultStoreInit
    /\ Life!Init
    /\ reqAt = [q \in Requests |-> "idle"]
    /\ reqRun = [q \in Requests |-> NoRun]
    /\ seen = [q \in Requests |-> EmptyBoard]
    /\ subAt = [s \in Submissions |-> "idle"]
    /\ todo = [s \in Submissions |-> {}]
    /\ cur = [s \in Submissions |-> {}]
    /\ force = [s \in Submissions |-> FALSE]
    /\ faults = 0

Fault == faults < MaxFaults /\ faults' = faults + 1

-----------------------------------------------------------------------------
(***************************************************************************)
(* RunService.complete.                                                    *)
(***************************************************************************)

\* Mutants: an order of the calls that looks just as good.
BugCommitFirst(step) ==
    CASE step = "put" -> "commit" [] step = "commit" -> "copy" [] step = "copy" -> "meta"
      [] step = "meta" -> "read" [] step = "read" -> "write" [] step = "write" -> "idle"
BugMetaFirst(step) ==
    CASE step = "put" -> "copy" [] step = "copy" -> "meta" [] step = "meta" -> "commit"
      [] step = "commit" -> "read" [] step = "read" -> "write" [] step = "write" -> "idle"
BugMetaLast(step) ==
    CASE step = "put" -> "copy" [] step = "copy" -> "commit" [] step = "commit" -> "read"
      [] step = "read" -> "write" [] step = "write" -> "meta" [] step = "meta" -> "idle"

\* The order of the calls: "if S3 fails, run stays `running`" up to the commit.
FollowedBy(step) ==
    CASE step = "put" -> "copy" [] step = "copy" -> "commit" [] step = "commit" -> "meta"
      [] step = "meta" -> "read" [] step = "read" -> "write" [] step = "write" -> "idle"

\* Mutant: a request that has ended is still taken to be about its run.
BugReqGoto(q, step) ==
    /\ reqAt' = [reqAt EXCEPT ![q] = step]
    /\ seen' = [seen EXCEPT ![q] = IF step = "idle" THEN EmptyBoard ELSE @]
    /\ UNCHANGED reqRun

ReqGoto(q, step) ==
    /\ reqAt' = [reqAt EXCEPT ![q] = step]
    /\ seen' = [seen EXCEPT ![q] = IF step = "idle" THEN EmptyBoard ELSE @]
    /\ reqRun' = [reqRun EXCEPT ![q] = IF step = "idle" THEN NoRun ELSE @]

\* Any other status is a 409.  RunLifecycle does not tell provisioning from
\* running: a /complete of the former, refused in the code, may pass here.
Accept(q, r) ==
    /\ reqAt[q] = "idle" /\ phase[r] = "active"
    /\ reqAt' = [reqAt EXCEPT ![q] = "put"]
    /\ reqRun' = [reqRun EXCEPT ![q] = r]
    /\ UNCHANGED <<storeVars, lifeVars, seen, subVars, faults>>

\* One awaited call to S3.  A call that fails raises out of the request,
\* whether or not its write has landed.
S3Call(q, step, landed) ==
    /\ reqAt[q] = step
    /\ \/ landed /\ ReqGoto(q, FollowedBy(step)) /\ UNCHANGED faults
       \/ Fault /\ ReqGoto(q, "idle")
    /\ UNCHANGED <<lifeVars, subVars>>

UploadRunResults(q) == \E landed \in BOOLEAN :
    /\ S3Call(q, "put", landed)
    /\ IF landed THEN PutResults(reqRun[q]) ELSE UNCHANGED storeVars

UploadLatest(q) == \E landed \in BOOLEAN :
    /\ S3Call(q, "copy", landed)
    /\ IF landed THEN CopyLatest(reqRun[q]) ELSE UNCHANGED storeVars

\* complete_run; before it aggregate raises on malformed results, and the
\* UNIQUE results row refuses the second of two requests.
Commit(q) ==
    /\ reqAt[q] = "commit"
    /\ \/ Life!Deliver(reqRun[q]) /\ ReqGoto(q, FollowedBy("commit")) /\ UNCHANGED faults
       \/ result[reqRun[q]] /\ ReqGoto(q, "idle") /\ UNCHANGED <<lifeVars, faults>>
       \/ Fault /\ ReqGoto(q, "idle") /\ UNCHANGED lifeVars
    /\ UNCHANGED <<storeVars, subVars>>

UploadMeta(q) == \E landed \in BOOLEAN :
    /\ S3Call(q, "meta", landed)
    /\ IF landed THEN PutMeta(reqRun[q]) ELSE UNCHANGED storeVars

\* update_leaderboard_for: a read, and after an await a write of what was read.
ReadLeaderboard(q) ==
    /\ reqAt[q] = "read"
    /\ \/ /\ reqAt' = [reqAt EXCEPT ![q] = FollowedBy(@)]
          /\ seen' = [seen EXCEPT ![q] = board]
          /\ UNCHANGED <<reqRun, faults>>
       \/ Fault /\ ReqGoto(q, "idle")
    /\ UNCHANGED <<storeVars, lifeVars, subVars>>

WriteLeaderboard(q) == \E landed \in BOOLEAN :
    /\ S3Call(q, "write", landed)
    /\ IF landed THEN PutBoard(Upsert(seen[q], reqRun[q])) ELSE UNCHANGED storeVars

Complete(q) ==
    \/ \E r \in Runs : Accept(q, r)
    \/ UploadRunResults(q) \/ UploadLatest(q) \/ Commit(q)
    \/ UploadMeta(q) \/ ReadLeaderboard(q) \/ WriteLeaderboard(q)

-----------------------------------------------------------------------------
(***************************************************************************)
(* bench_service.submit.                                                   *)
(***************************************************************************)

SubGoto(s, step, entries) ==
    /\ subAt' = [subAt EXCEPT ![s] = step]
    /\ cur' = [cur EXCEPT ![s] = entries]

\* On with the next entry, or the answer.
Handled(s, entries) ==
    /\ todo' = [todo EXCEPT ![s] = @ \ entries]
    /\ SubGoto(s, IF todo[s] \subseteq entries THEN "idle" ELSE "next", {})
    /\ force' = [force EXCEPT ![s] = @ /\ ~(todo[s] \subseteq entries)]

\* An exception out of the loop: later entries are not submitted.
Raise(s) == Handled(s, todo[s])

\* model_filter selects some of the entries; none is a 404.
PostBench(s, entries, f) ==
    /\ subAt[s] = "idle" /\ entries # {}
    /\ todo' = [todo EXCEPT ![s] = entries]
    /\ force' = [force EXCEPT ![s] = f]
    /\ SubGoto(s, "catalogs", {})
    /\ UNCHANGED <<storeVars, lifeVars, reqVars, faults>>

\* The catalogs depend on the repository only.
PublishCatalogs(s) ==
    /\ subAt[s] = "catalogs"
    /\ \/ SubGoto(s, "next", {}) /\ UNCHANGED <<todo, force, faults>>
       \/ Fault /\ Raise(s)
    /\ UNCHANGED <<storeVars, lifeVars, reqVars>>

\* head_latest_meta, unless forced.
CheckMeta(s, p) ==
    /\ subAt[s] = "next" /\ p \in todo[s]
    /\ \/ /\ force[s] \/ ~HasMeta(p)
          /\ SubGoto(s, "active", {p}) /\ UNCHANGED <<todo, force, faults>>
       \/ ~force[s] /\ HasMeta(p) /\ Handled(s, {p}) /\ UNCHANGED faults
       \/ ~force[s] /\ Fault /\ Raise(s)
    /\ UNCHANGED <<storeVars, lifeVars, reqVars>>

\* Mutant: a queued run does not count.
BugIsActive(r) == phase[r] = "active"

IsActive(r) == phase[r] \in {"waiting", "active"}

\* has_active_run.
CheckActive(s) ==
    /\ subAt[s] = "active"
    /\ IF \E r \in Runs : PairOf[r] \in cur[s] /\ IsActive(r)
         THEN Handled(s, cur[s])
         ELSE SubGoto(s, "create", cur[s]) /\ UNCHANGED <<todo, force>>
    /\ UNCHANGED <<storeVars, lifeVars, reqVars, faults>>

\* _check_hf_exists, an await of its own, may raise a 422.
CreateRun(s) ==
    /\ subAt[s] = "create"
    /\ \/ /\ \E r \in Runs \ DirectRuns : PairOf[r] \in cur[s] /\ Life!Enqueue(r)
          /\ Handled(s, cur[s])
       \/ Raise(s) /\ UNCHANGED lifeVars
    /\ UNCHANGED <<storeVars, reqVars, faults>>

Submit(s) ==
    \/ \E entries \in SUBSET Pairs, f \in BOOLEAN : PostBench(s, entries, f)
    \/ PublishCatalogs(s) \/ CheckActive(s) \/ CreateRun(s)
    \/ \E p \in Pairs : CheckMeta(s, p)

\* RunController.create looks at nothing.
PostRun(r) ==
    /\ r \in DirectRuns /\ Life!Enqueue(r)
    /\ UNCHANGED <<storeVars, reqVars, subVars, faults>>

-----------------------------------------------------------------------------
(***************************************************************************)
(* The rest of the system.                                                 *)
(***************************************************************************)

\* A run that a /complete has been accepted for has no provisioning task that
\* could put it back (Handover, in OrchestratorProofs).
Unattended(r) == \A q \in Requests : reqRun[q] # r

RunMoves(r) ==
    /\ \/ Life!Claim({r}) \/ Life!GiveUp({r})
       \/ Unattended(r) /\ (Life!Retry(r) \/ Life!Revive(r))
    /\ UNCHANGED <<storeVars, reqVars, subVars, faults>>

\* A write whose request is cut off lands or not: its step did, or did not.
Crash ==
    /\ Fault
    /\ reqAt' = [q \in Requests |-> "idle"]
    /\ reqRun' = [q \in Requests |-> NoRun]
    /\ seen' = [q \in Requests |-> EmptyBoard]
    /\ subAt' = [s \in Submissions |-> "idle"]
    /\ todo' = [s \in Submissions |-> {}]
    /\ cur' = [s \in Submissions |-> {}]
    /\ force' = [s \in Submissions |-> FALSE]
    /\ UNCHANGED <<storeVars, lifeVars>>

Next ==
    \/ \E q \in Requests : Complete(q)
    \/ \E s \in Submissions : Submit(s)
    \/ \E r \in Runs : PostRun(r) \/ RunMoves(r)
    \/ Crash

Spec == Init /\ [][Next]_vars

-----------------------------------------------------------------------------
(***************************************************************************)
(* Safety.                                                                 *)
(***************************************************************************)

\* Every variable has its type, and a request that has ended leaves nothing
\* behind (the locals of RunService.complete and bench_service.submit).
TypeOK ==
    /\ ResultStoreTypeOK
    /\ phase \in [Runs -> {"absent", "waiting", "active", "over"}]
    /\ spent \in [Runs -> Nat]
    /\ result \in [Runs -> BOOLEAN]
    /\ reqAt \in [Requests -> ReqSteps] /\ reqRun \in [Requests -> MaybeRun]
    /\ \A q \in Requests : (reqAt[q] = "idle") <=> (reqRun[q] = NoRun)
    /\ seen \in [Requests -> Boards]
    /\ subAt \in [Submissions -> SubSteps]
    /\ todo \in [Submissions -> SUBSET Pairs] /\ cur \in [Submissions -> SUBSET Pairs]
    /\ force \in [Submissions -> BOOLEAN]
    /\ faults \in 0 .. MaxFaults

\* "Upload before committing": whatever fails or crashes, a run whose result is
\* in the database has its own object, and its pair a latest one, in the bucket.
DoneHasObjects ==
    \A r \in Runs : result[r] => r \in runResults /\ latest[PairOf[r]] # NoRun

\* The dedup signal never comes too early: submit skips a pair for good only
\* when a run of that very pair has its result in the database.
DedupIsBacked ==
    \A p \in Pairs : HasMeta(p) => PairOf[meta[p]] = p /\ result[meta[p]]

\* What the site shows, stale snapshots written back included: each entry is of
\* a run of its pair with a result, and its pair will not be submitted again.
EntryIsBacked ==
    \A p \in Pairs : board[p] # NoRun =>
        PairOf[board[p]] = p /\ result[board[p]] /\ HasMeta(p)

\* With no fault and nothing in flight, the three objects that speak of a pair
\* speak of the same run.  It holds for one /complete at a time, the premise
\* update_leaderboard_for states, and not for two.
PublishedTogether ==
    faults = 0 /\ (\A q \in Requests : reqAt[q] = "idle") =>
        latest = meta /\ meta = board

\* The step in which submission s creates run r.
Creates(s, r) ==
    /\ subAt[s] = "create" /\ subAt'[s] # "create"
    /\ phase[r] = "absent" /\ phase'[r] = "waiting"

\* routers/bench.py: POST /bench "skips models that already have a completed
\* run unless force=true".  It looks at the meta object, which is written after
\* the run is done and may not be written at all.
SkipsCompleted ==
    [][\A s \in Submissions, r \in Runs : Creates(s, r) /\ ~force[s] =>
          \A o \in Runs : PairOf[o] = PairOf[r] => ~result[o]]_vars

\* test_bench.py, of submit with a run of the model already queued: "No
\* duplicate run created".  has_active_run and create are two transactions, so
\* this is for one submission at a time, and for a run that is queued for the
\* first time: one that comes back to the queue in between goes unnoticed.
QueuedOnce ==
    [][\A s \in Submissions, r \in Runs : Creates(s, r) =>
          \A o \in Runs \ DirectRuns :
              PairOf[o] = PairOf[r] => ~(phase[o] = "waiting" /\ spent[o] = 0)]_vars
===============================================================================
