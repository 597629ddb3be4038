----------------------------- MODULE ResultStore -----------------------------
(***************************************************************************)
(* storage.py: the objects of the results bucket.  Each operator is one S3 *)
(* call; its callers, which keep several of them apart by an `await`, are  *)
(* in module BenchService.  The content of an object is the run it is      *)
(* about.                                                                  *)
(***************************************************************************)
EXTENDS RunIds

CONSTANTS
    Pairs,    \* the (model, engine) entries of models.yaml
    PairOf,   \* the entry each run benchmarks
    NoRun     \* the object, or the entry, does not exist

ASSUME PairOfAssumption == PairOf \in [Runs -> Pairs]
ASSUME NoRunAssumption == NoRun \notin Runs

VARIABLES
    runResults,  \* runs whose own results.jsonl is stored
    latest,      \* latest.jsonl of each pair
    meta,        \* latest.meta.json of each pair
    board        \* leaderboard.json: the entry it lists for each pair

storeVars == <<runResults, latest, meta, board>>

MaybeRun == Runs \union {NoRun}
Boards == [Pairs -> MaybeRun]

ResultStoreTypeOK ==
    /\ runResults \subseteq Runs
    /\ latest \in Boards /\ meta \in Boards /\ board \in Boards

\* fetch_leaderboard returns None for a missing object: no entries.
EmptyBoard == [p \in Pairs |-> NoRun]

ResultStoreInit ==
    /\ runResults = {}
    /\ latest = EmptyBoard /\ meta = EmptyBoard /\ board = EmptyBoard

\* upload_results: the object of the run, then the copy of it.
PutResults(r) ==
    /\ runResults' = runResults \union {r}
    /\ UNCHANGED <<latest, meta, board>>

CopyLatest(r) ==
    /\ r \in runResults
    /\ latest' = [latest EXCEPT ![PairOf[r]] = r]
    /\ UNCHANGED <<runResults, meta, board>>

\* upload_meta, and head_latest_meta.
PutMeta(r) ==
    /\ meta' = [meta EXCEPT ![PairOf[r]] = r]
    /\ UNCHANGED <<runResults, latest, board>>

HasMeta(p) == meta[p] # NoRun

\* Mutant: the entries of the other pairs are filtered out too.
BugUpsert(b, r) == [p \in Pairs |-> IF p = PairOf[r] THEN r ELSE NoRun]

\* update_leaderboard_for works on the entries it has read: it drops those of
\* the pair and appends the fresh one, so a pair never has two.
Upsert(b, r) == [b EXCEPT ![PairOf[r]] = r]

PutBoard(b) ==
    /\ board' = b
    /\ UNCHANGED <<runResults, latest, meta>>
==============================================================================
