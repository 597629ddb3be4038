-------------------------- MODULE BenchServiceProofs --------------------------
(***************************************************************************)
(* Theorems about BenchService for every value of its constants.           *)
(***************************************************************************)
EXTENDS BenchService, TLAPS

-----------------------------------------------------------------------------
(***************************************************************************)
(* Type correctness.                                                       *)
(***************************************************************************)

\* The part of TypeOK about the requests.
ReqTypeOK ==
    /\ reqAt \in [Requests -> ReqSteps] /\ reqRun \in [Requests -> MaybeRun]
    /\ \A q \in Requests : (reqAt[q] = "idle") <=> (reqRun[q] = NoRun)
    /\ seen \in [Requests -> Boards]

\* The part about the submissions.
SubTypeOK ==
    /\ subAt \in [Submissions -> SubSteps]
    /\ todo \in [Submissions -> SUBSET Pairs] /\ cur \in [Submissions -> SUBSET Pairs]
    /\ force \in [Submissions -> BOOLEAN]

\* The part about the run table.
LifeTypeOK ==
    /\ phase \in [Runs -> {"absent", "waiting", "active", "over"}]
    /\ spent \in [Runs -> Nat]
    /\ result \in [Runs -> BOOLEAN]

LEMMA TypeParts ==
    /\ TypeOK <=> /\ ResultStoreTypeOK /\ LifeTypeOK /\ ReqTypeOK /\ SubTypeOK
                  /\ faults \in 0 .. MaxFaults
    /\ TypeOK' <=> /\ ResultStoreTypeOK' /\ LifeTypeOK' /\ ReqTypeOK' /\ SubTypeOK'
                   /\ faults' \in 0 .. MaxFaults
  BY DEF TypeOK, LifeTypeOK, ReqTypeOK, SubTypeOK

LEMMA FaultType ==
    ASSUME faults \in 0 .. MaxFaults, Fault \/ UNCHANGED faults
    PROVE  faults' \in 0 .. MaxFaults
  BY FaultsAssumption DEF Fault

LEMMA EmptyBoardType == EmptyBoard \in Boards
  BY DEF EmptyBoard, Boards, MaybeRun

LEMMA ReqGotoType ==
    ASSUME ReqTypeOK, NEW q \in Requests, NEW step \in ReqSteps,
           reqAt[q] # "idle", ReqGoto(q, step)
    PROVE  ReqTypeOK'
  BY EmptyBoardType, NoRunAssumption DEF ReqTypeOK, ReqGoto, MaybeRun

LEMMA FollowedByType ==
    ASSUME NEW step \in ReqSteps, step # "idle"
    PROVE  FollowedBy(step) \in ReqSteps
  BY DEF ReqSteps, FollowedBy

LEMMA BusyHasRun ==
    ASSUME ReqTypeOK, NEW q \in Requests, reqAt[q] # "idle"
    PROVE  reqRun[q] \in Runs /\ reqAt[q] \in ReqSteps
  BY DEF ReqTypeOK, MaybeRun

LEMMA PairOfType == ASSUME NEW r \in Runs PROVE PairOf[r] \in Pairs
  BY PairOfAssumption

LEMMA StoreWriteType ==
    ASSUME ResultStoreTypeOK, NEW r \in Runs, NEW b \in Boards,
           \/ PutResults(r) \/ CopyLatest(r) \/ PutMeta(r)
           \/ PutBoard(Upsert(b, r)) \/ UNCHANGED storeVars
    PROVE  ResultStoreTypeOK'
  BY PairOfType
     DEF ResultStoreTypeOK, PutResults, CopyLatest, PutMeta, PutBoard, Upsert,
         storeVars, Boards, MaybeRun

LEMMA S3CallType ==
    ASSUME TypeOK, NEW q \in Requests, NEW step \in ReqSteps \ {"idle"},
           NEW landed \in BOOLEAN, S3Call(q, step, landed)
    PROVE  LifeTypeOK' /\ ReqTypeOK' /\ SubTypeOK' /\ faults' \in 0 .. MaxFaults
<1>1. ReqTypeOK'
  <2>1. reqAt[q] # "idle" /\ "idle" \in ReqSteps /\ FollowedBy(step) \in ReqSteps
    BY FollowedByType DEF S3Call, ReqSteps
  <2> QED BY <2>1, ReqGotoType, TypeParts DEF S3Call
<1>2. faults' \in 0 .. MaxFaults
  BY FaultType, TypeParts DEF S3Call
<1> QED BY <1>1, <1>2, TypeParts DEF S3Call, lifeVars, subVars, LifeTypeOK, SubTypeOK

LEMMA CompleteType ==
    ASSUME TypeOK, NEW q \in Requests, Complete(q)
    PROVE  TypeOK'
<1> USE TypeParts
<1> DEFINE Quiet == /\ ResultStoreTypeOK' /\ SubTypeOK'
<1>0. UNCHANGED <<storeVars, subVars>> => Quiet
  BY DEF storeVars, subVars, ResultStoreTypeOK, SubTypeOK
<1>1. ASSUME NEW r \in Runs, Accept(q, r) PROVE TypeOK'
  <2>1. ReqTypeOK'
    BY <1>1, NoRunAssumption DEF Accept, ReqTypeOK, ReqSteps, MaybeRun
  <2> QED BY <1>0, <1>1, <2>1 DEF Accept, lifeVars, LifeTypeOK
<1>2. CASE UploadRunResults(q)
  <2>1. PICK landed \in BOOLEAN :
          /\ S3Call(q, "put", landed)
          /\ IF landed THEN PutResults(reqRun[q]) ELSE UNCHANGED storeVars
    BY <1>2 DEF UploadRunResults
  <2>2. reqRun[q] \in Runs
    BY <2>1, BusyHasRun DEF S3Call
  <2> QED BY <2>1, <2>2, S3CallType, StoreWriteType, EmptyBoardType DEF ReqSteps
<1>3. CASE UploadLatest(q)
  <2>1. PICK landed \in BOOLEAN :
          /\ S3Call(q, "copy", landed)
          /\ IF landed THEN CopyLatest(reqRun[q]) ELSE UNCHANGED storeVars
    BY <1>3 DEF UploadLatest
  <2>2. reqRun[q] \in Runs
    BY <2>1, BusyHasRun DEF S3Call
  <2> QED BY <2>1, <2>2, S3CallType, StoreWriteType, EmptyBoardType DEF ReqSteps
<1>4. CASE Commit(q)
  <2>1. reqRun[q] \in Runs /\ reqAt[q] # "idle"
    BY <1>4, BusyHasRun DEF Commit
  <2>2. ReqTypeOK'
    BY <1>4, <2>1, ReqGotoType, FollowedByType DEF Commit, ReqSteps
  <2>3. LifeTypeOK'
    BY <1>4, <2>1 DEF Commit, Life!Deliver, Life!Move, lifeVars, LifeTypeOK
  <2> QED BY <1>0, <1>4, <2>2, <2>3, FaultType DEF Commit
<1>5. CASE UploadMeta(q)
  <2>1. PICK landed \in BOOLEAN :
          /\ S3Call(q, "meta", landed)
          /\ IF landed THEN PutMeta(reqRun[q]) ELSE UNCHANGED storeVars
    BY <1>5 DEF UploadMeta
  <2>2. reqRun[q] \in Runs
    BY <2>1, BusyHasRun DEF S3Call
  <2> QED BY <2>1, <2>2, S3CallType, StoreWriteType, EmptyBoardType DEF ReqSteps
<1>6. CASE ReadLeaderboard(q)
  <2>1. reqRun[q] \in Runs /\ reqAt[q] # "idle"
    BY <1>6, BusyHasRun DEF ReadLeaderboard
  <2>2. ReqTypeOK'
    <3>1. CASE ReqGoto(q, "idle")
      BY <2>1, <3>1, ReqGotoType DEF ReqSteps
    <3>2. CASE /\ reqAt' = [reqAt EXCEPT ![q] = FollowedBy(@)]
               /\ seen' = [seen EXCEPT ![q] = board]
               /\ UNCHANGED reqRun
      <4>1. FollowedBy(reqAt[q]) \in ReqSteps \ {"idle"}
        BY <1>6 DEF ReadLeaderboard, FollowedBy, ReqSteps
      <4> QED BY <2>1, <3>2, <4>1, NoRunAssumption DEF ReqTypeOK, ResultStoreTypeOK
    <3> QED BY <1>6, <3>1, <3>2 DEF ReadLeaderboard
  <2> QED BY <1>0, <1>6, <2>2, FaultType DEF ReadLeaderboard, lifeVars, LifeTypeOK
<1>7. CASE WriteLeaderboard(q)
  <2>1. PICK landed \in BOOLEAN :
          /\ S3Call(q, "write", landed)
          /\ IF landed THEN PutBoard(Upsert(seen[q], reqRun[q])) ELSE UNCHANGED storeVars
    BY <1>7 DEF WriteLeaderboard
  <2>2. reqRun[q] \in Runs /\ seen[q] \in Boards
    BY <2>1, BusyHasRun DEF S3Call, ReqTypeOK
  <2> QED BY <2>1, <2>2, S3CallType, StoreWriteType DEF ReqSteps
<1> QED BY <1>1, <1>2, <1>3, <1>4, <1>5, <1>6, <1>7 DEF Complete

LEMMA HandledType ==
    ASSUME SubTypeOK, NEW s \in Submissions, NEW entries, Handled(s, entries)
    PROVE  SubTypeOK'
<1>1. force' \in [Submissions -> BOOLEAN]
  BY DEF SubTypeOK, Handled
<1>2. todo' \in [Submissions -> SUBSET Pairs]
  BY DEF SubTypeOK, Handled
<1> QED BY <1>1, <1>2 DEF SubTypeOK, Handled, SubGoto, SubSteps

LEMMA SubGotoType ==
    ASSUME SubTypeOK, NEW s \in Submissions, NEW step \in SubSteps,
           NEW entries \in SUBSET Pairs, SubGoto(s, step, entries)
    PROVE  /\ subAt' \in [Submissions -> SubSteps]
           /\ cur' \in [Submissions -> SUBSET Pairs]
  BY DEF SubTypeOK, SubGoto

LEMMA EnqueueType ==
    ASSUME LifeTypeOK, NEW r \in Runs, Life!Enqueue(r)
    PROVE  LifeTypeOK'
  BY DEF LifeTypeOK, Life!Enqueue, Life!Move

LEMMA SubmitType ==
    ASSUME TypeOK, NEW s \in Submissions, Submit(s)
    PROVE  TypeOK'
<1> USE TypeParts
<1>0. /\ UNCHANGED storeVars => ResultStoreTypeOK'
      /\ UNCHANGED reqVars => ReqTypeOK'
      /\ UNCHANGED lifeVars => LifeTypeOK'
  BY DEF storeVars, reqVars, lifeVars, ResultStoreTypeOK, ReqTypeOK, LifeTypeOK
<1>1. ASSUME NEW entries \in SUBSET Pairs, NEW f \in BOOLEAN, PostBench(s, entries, f)
      PROVE  TypeOK'
  <2>1. SubTypeOK'
    BY <1>1, SubGotoType DEF PostBench, SubTypeOK, SubSteps
  <2> QED BY <1>0, <1>1, <2>1 DEF PostBench
<1>2. CASE PublishCatalogs(s)
  <2>1. SubTypeOK'
    BY <1>2, SubGotoType, HandledType DEF PublishCatalogs, Raise, SubTypeOK, SubSteps
  <2> QED BY <1>0, <1>2, <2>1, FaultType DEF PublishCatalogs
<1>3. ASSUME NEW p \in Pairs, CheckMeta(s, p) PROVE TypeOK'
  <2>1. SubTypeOK'
    BY <1>3, SubGotoType, HandledType DEF CheckMeta, Raise, SubTypeOK, SubSteps
  <2> QED BY <1>0, <1>3, <2>1, FaultType DEF CheckMeta
<1>4. CASE CheckActive(s)
  <2>1. SubTypeOK'
    BY <1>4, SubGotoType, HandledType DEF CheckActive, SubTypeOK, SubSteps
  <2> QED BY <1>0, <1>4, <2>1 DEF CheckActive
<1>5. CASE CreateRun(s)
  <2>1. SubTypeOK' /\ LifeTypeOK'
    BY <1>0, <1>5, HandledType, EnqueueType DEF CreateRun, Raise
  <2> QED BY <1>0, <1>5, <2>1 DEF CreateRun
<1> QED BY <1>1, <1>2, <1>3, <1>4, <1>5 DEF Submit

LEMMA RestType ==
    ASSUME TypeOK,
           (\E r \in Runs : PostRun(r) \/ RunMoves(r)) \/ Crash \/ UNCHANGED vars
    PROVE  TypeOK'
<1> USE TypeParts
<1>0. /\ UNCHANGED storeVars => ResultStoreTypeOK'
      /\ UNCHANGED reqVars => ReqTypeOK'
      /\ UNCHANGED subVars => SubTypeOK'
      /\ UNCHANGED lifeVars => LifeTypeOK'
  BY DEF storeVars, reqVars, subVars, lifeVars,
         ResultStoreTypeOK, ReqTypeOK, SubTypeOK, LifeTypeOK
<1>1. ASSUME NEW r \in Runs, PostRun(r) PROVE TypeOK'
  BY <1>0, <1>1, EnqueueType DEF PostRun
<1>2. ASSUME NEW r \in Runs, RunMoves(r) PROVE TypeOK'
  <2>1. LifeTypeOK'
    BY <1>2 DEF RunMoves, LifeTypeOK, Life!Claim, Life!GiveUp, Life!Retry,
                Life!Revive, Life!Move
  <2> QED BY <1>0, <1>2, <2>1 DEF RunMoves
<1>3. CASE Crash
  <2>1. ReqTypeOK'
    BY <1>3, EmptyBoardType DEF Crash, ReqTypeOK, ReqSteps, MaybeRun
  <2>2. SubTypeOK'
    BY <1>3 DEF Crash, SubTypeOK, SubSteps
  <2> QED BY <1>0, <1>3, <2>1, <2>2, FaultType DEF Crash
<1>4. CASE UNCHANGED vars
  BY <1>0, <1>4 DEF vars
<1> QED BY <1>1, <1>2, <1>3, <1>4

LEMMA InitType == Init => TypeOK
<1> SUFFICES ASSUME Init PROVE TypeOK
  OBVIOUS
<1>1. ResultStoreTypeOK
  BY EmptyBoardType DEF Init, ResultStoreInit, ResultStoreTypeOK
<1>2. LifeTypeOK
  BY DEF Init, Life!Init, LifeTypeOK
<1>3. ReqTypeOK
  BY EmptyBoardType DEF Init, ReqTypeOK, ReqSteps, MaybeRun
<1>4. SubTypeOK
  BY DEF Init, SubTypeOK, SubSteps
<1>5. faults \in 0 .. MaxFaults
  BY FaultsAssumption DEF Init
<1> QED BY <1>1, <1>2, <1>3, <1>4, <1>5, TypeParts

LEMMA StepType == TypeOK /\ [Next]_vars => TypeOK'
  BY CompleteType, SubmitType, RestType DEF Next

\* TypeOK, for any runs, entries, requests and submissions.
THEOREM BenchTypeCorrect == Spec => []TypeOK
  BY InitType, StepType, PTL DEF Spec

-----------------------------------------------------------------------------
(***************************************************************************)
(* What backs the published objects.                                       *)
(***************************************************************************)

\* A board, current or read earlier, lists published runs only.
Listable(b) ==
    \A p \in Pairs : b[p] # NoRun => PairOf[b[p]] = p /\ result[b[p]] /\ HasMeta(p)

\* What a request has done so far, by where it stands.
Progress(q) ==
    LET r == reqRun[q] IN
    /\ reqAt[q] \in {"copy", "commit"} => r \in runResults
    /\ reqAt[q] = "commit" => latest[PairOf[r]] # NoRun
    /\ reqAt[q] \in {"meta", "read", "write"} => result[r]
    /\ reqAt[q] \in {"read", "write"} => HasMeta(PairOf[r])
    /\ Listable(seen[q])

\* The three invariants are inductive together with the progress of requests.
Backed ==
    /\ TypeOK
    /\ DoneHasObjects /\ DedupIsBacked /\ EntryIsBacked
    /\ \A q \in Requests : Progress(q)

\* Nothing is ever taken back: what was stored or committed once stays so.
Kept ==
    /\ runResults \subseteq runResults'
    /\ \A r \in Runs : result[r] => result'[r]
    /\ \A p \in Pairs : latest[p] # NoRun => latest'[p] # NoRun
    /\ \A p \in Pairs : HasMeta(p) => HasMeta(p)'

LEMMA ListableKept ==
    ASSUME NEW b \in Boards, Kept, Listable(b)
    PROVE  Listable(b)'
<1> SUFFICES ASSUME NEW p \in Pairs, b[p] # NoRun
             PROVE  PairOf[b[p]] = p /\ result'[b[p]] /\ HasMeta(p)'
  BY DEF Listable
<1>1. b[p] \in Runs /\ PairOf[b[p]] = p /\ result[b[p]] /\ HasMeta(p)
  BY DEF Boards, MaybeRun, Listable
<1> QED BY <1>1 DEF Kept

LEMMA EmptyListable == Listable(EmptyBoard) /\ Listable(EmptyBoard)'
  BY DEF Listable, EmptyBoard

\* A request keeps its progress when it stands where it stood.
LEMMA ProgressKept ==
    ASSUME TypeOK, NEW q \in Requests, Progress(q), Kept,
           reqAt'[q] = reqAt[q], reqRun'[q] = reqRun[q], seen'[q] = seen[q]
    PROVE  Progress(q)'
<1>1. seen[q] \in Boards
  BY DEF TypeOK
<1>2. Listable(seen[q])'
  <2>1. Listable(seen[q])
    BY DEF Progress
  <2> DEFINE b == seen[q]
  <2>2. b \in Boards /\ Listable(b)
    BY <1>1, <2>1
  <2> QED BY <1>1, <2>1, ListableKept DEF Listable, HasMeta, Kept, Boards, MaybeRun
<1>3. CASE reqAt[q] = "idle"
  BY <1>2, <1>3 DEF Progress
<1>4. CASE reqAt[q] # "idle"
  <2>1. reqRun[q] \in Runs /\ PairOf[reqRun[q]] \in Pairs
    BY <1>4, BusyHasRun, TypeParts, PairOfType
  <2> QED BY <1>2, <2>1 DEF Progress, Kept
<1> QED BY <1>3, <1>4

\* A request that ends has nothing to show.
LEMMA ProgressEnds ==
    ASSUME NEW q \in Requests, reqAt'[q] = "idle", seen'[q] = EmptyBoard
    PROVE  Progress(q)'
  BY DEF Progress, Listable, EmptyBoard

LEMMA OthersProgress ==
    ASSUME Backed, Kept, NEW q \in Requests, Progress(q)',
           \A o \in Requests \ {q} :
              reqAt'[o] = reqAt[o] /\ reqRun'[o] = reqRun[o] /\ seen'[o] = seen[o]
    PROVE  \A o \in Requests : Progress(o)'
<1> SUFFICES ASSUME NEW o \in Requests PROVE Progress(o)'
  OBVIOUS
<1>1. CASE o = q BY <1>1
<1>2. CASE o # q BY <1>2, ProgressKept DEF Backed
<1> QED BY <1>1, <1>2

LEMMA GotoFacts ==
    ASSUME ReqTypeOK, NEW q \in Requests, NEW step, ReqGoto(q, step)
    PROVE  /\ reqAt'[q] = step
           /\ step = "idle" => seen'[q] = EmptyBoard
           /\ step # "idle" => seen'[q] = seen[q] /\ reqRun'[q] = reqRun[q]
           /\ \A o \in Requests \ {q} :
                 reqAt'[o] = reqAt[o] /\ reqRun'[o] = reqRun[o] /\ seen'[o] = seen[o]
  BY DEF ReqTypeOK, ReqGoto

\* One S3 call of a request: its step went on, or the request has ended.
LEMMA S3CallFacts ==
    ASSUME Backed, NEW q \in Requests, NEW step \in ReqSteps \ {"idle"},
           NEW landed \in BOOLEAN, S3Call(q, step, landed)
    PROVE  /\ reqAt[q] = step /\ reqRun[q] \in Runs /\ PairOf[reqRun[q]] \in Pairs
           /\ UNCHANGED result
           /\ \/ reqAt'[q] = "idle" /\ seen'[q] = EmptyBoard
              \/ /\ landed /\ reqAt'[q] = FollowedBy(step)
                 /\ FollowedBy(step) # "idle" =>
                       reqRun'[q] = reqRun[q] /\ seen'[q] = seen[q]
                 /\ FollowedBy(step) = "idle" => seen'[q] = EmptyBoard
           /\ \A o \in Requests \ {q} :
                 reqAt'[o] = reqAt[o] /\ reqRun'[o] = reqRun[o] /\ seen'[o] = seen[o]
<1>1. ReqTypeOK /\ reqAt[q] = step /\ UNCHANGED result
  BY TypeParts DEF Backed, S3Call, lifeVars
<1>2. reqRun[q] \in Runs /\ PairOf[reqRun[q]] \in Pairs
  BY <1>1, BusyHasRun, PairOfType
<1>3. CASE landed /\ ReqGoto(q, FollowedBy(step))
  BY <1>1, <1>2, <1>3, GotoFacts
<1>4. CASE ReqGoto(q, "idle")
  BY <1>1, <1>2, <1>4, GotoFacts
<1> QED BY <1>3, <1>4 DEF S3Call

\* The three invariants, when no run is delivered and only the store may move.
Published == DoneHasObjects /\ DedupIsBacked /\ EntryIsBacked

LEMMA UploadRunResultsBacked ==
    ASSUME Backed, NEW q \in Requests, UploadRunResults(q)
    PROVE  Published' /\ \A o \in Requests : Progress(o)'
<1>1. PICK landed \in BOOLEAN :
        /\ S3Call(q, "put", landed)
        /\ IF landed THEN PutResults(reqRun[q]) ELSE UNCHANGED storeVars
  BY DEF UploadRunResults
<1> DEFINE r == reqRun[q]
<1>2. "put" \in ReqSteps \ {"idle"} /\ FollowedBy("put") = "copy"
  BY DEF ReqSteps, FollowedBy
<1>3. Kept /\ Published'
  BY <1>1, <1>2, S3CallFacts
     DEF Backed, Kept, Published, PutResults, storeVars, DoneHasObjects, DedupIsBacked,
         EntryIsBacked, HasMeta
<1>4. landed => r \in runResults'
  BY <1>1 DEF PutResults
<1>5. Progress(q)'
  <2>1. CASE reqAt'[q] = "idle" /\ seen'[q] = EmptyBoard
    BY <2>1, ProgressEnds
  <2>2. CASE /\ landed /\ reqAt'[q] = "copy"
             /\ reqRun'[q] = r /\ seen'[q] = seen[q]
    <3>1. Listable(seen[q]) /\ UNCHANGED <<result, meta>>
      BY <1>1, <1>2, <2>2, S3CallFacts DEF Backed, Progress, PutResults
    <3> QED BY <1>4, <2>2, <3>1 DEF Progress, Listable, HasMeta
  <2> QED BY <1>1, <1>2, <2>1, <2>2, S3CallFacts
<1> QED BY <1>1, <1>2, <1>3, <1>5, S3CallFacts, OthersProgress

LEMMA UploadLatestBacked ==
    ASSUME Backed, NEW q \in Requests, UploadLatest(q)
    PROVE  Published' /\ \A o \in Requests : Progress(o)'
<1>1. PICK landed \in BOOLEAN :
        /\ S3Call(q, "copy", landed)
        /\ IF landed THEN CopyLatest(reqRun[q]) ELSE UNCHANGED storeVars
  BY DEF UploadLatest
<1> DEFINE r == reqRun[q]
<1>2. "copy" \in ReqSteps \ {"idle"} /\ FollowedBy("copy") = "commit"
  BY DEF ReqSteps, FollowedBy
<1>3. latest \in Boards /\ r \in Runs /\ r # NoRun /\ PairOf[r] \in Pairs
  BY <1>1, <1>2, S3CallFacts, NoRunAssumption, TypeParts DEF Backed, ResultStoreTypeOK
<1>4. UNCHANGED <<runResults, meta, board, result>>
  BY <1>1, <1>2, S3CallFacts DEF CopyLatest, storeVars
<1>5. \A p \in Pairs : latest[p] # NoRun => latest'[p] # NoRun
  BY <1>1, <1>3 DEF CopyLatest, storeVars, Boards
<1>6. Kept /\ Published'
  BY <1>4, <1>5, PairOfType
     DEF Backed, Kept, Published, DoneHasObjects, DedupIsBacked, EntryIsBacked, HasMeta
<1>7. landed => latest'[PairOf[r]] # NoRun
  BY <1>1, <1>3 DEF CopyLatest, Boards
<1>8. Progress(q)'
  <2>1. CASE reqAt'[q] = "idle" /\ seen'[q] = EmptyBoard
    BY <2>1, ProgressEnds
  <2>2. CASE /\ landed /\ reqAt'[q] = "commit"
             /\ reqRun'[q] = r /\ seen'[q] = seen[q]
    <3>1. Listable(seen[q]) /\ r \in runResults
      BY <1>1, <1>2, S3CallFacts DEF Backed, Progress
    <3> QED BY <1>4, <1>7, <2>2, <3>1 DEF Progress, Listable, HasMeta
  <2> QED BY <1>1, <1>2, <2>1, <2>2, S3CallFacts
<1> QED BY <1>1, <1>2, <1>6, <1>8, S3CallFacts, OthersProgress

LEMMA CommitBacked ==
    ASSUME Backed, NEW q \in Requests, Commit(q)
    PROVE  Published' /\ \A o \in Requests : Progress(o)'
<1> DEFINE r == reqRun[q]
<1>1. reqAt[q] = "commit" /\ r \in Runs /\ ReqTypeOK /\ LifeTypeOK
  BY TypeParts, BusyHasRun DEF Backed, Commit
<1>2. r \in runResults /\ latest[PairOf[r]] # NoRun /\ Listable(seen[q])
  BY <1>1 DEF Backed, Progress
<1>3. UNCHANGED <<runResults, latest, meta, board>>
  BY DEF Commit, storeVars
<1>4. CASE Life!Deliver(r) /\ ReqGoto(q, FollowedBy("commit"))
  <2>1. FollowedBy("commit") = "meta"
    BY DEF FollowedBy
  <2>2. result' = [result EXCEPT ![r] = TRUE]
    BY <1>4 DEF Life!Deliver
  <2>3. Kept /\ Published' /\ result'[r]
    BY <1>1, <1>2, <1>3, <2>2
       DEF Backed, Kept, Published, DoneHasObjects, DedupIsBacked, EntryIsBacked,
           HasMeta, LifeTypeOK
  <2>4. Progress(q)'
    <3>1. reqAt'[q] = "meta" /\ reqRun'[q] = r /\ seen'[q] = seen[q]
      BY <1>1, <1>4, <2>1, GotoFacts
    <3>2. Listable(seen[q])'
      BY <1>1, <1>2, <2>3, <3>1, ListableKept DEF ReqTypeOK, Listable, HasMeta, Kept,
         Boards, MaybeRun
    <3> QED BY <2>3, <3>1, <3>2 DEF Progress
  <2> QED BY <1>1, <1>4, <2>1, <2>3, <2>4, GotoFacts, OthersProgress
<1>5. CASE ReqGoto(q, "idle") /\ UNCHANGED lifeVars
  <2>1. Kept /\ Published'
    BY <1>3, <1>5 DEF Backed, Kept, Published, DoneHasObjects, DedupIsBacked,
       EntryIsBacked, HasMeta, lifeVars
  <2>2. Progress(q)'
    BY <1>1, <1>5, GotoFacts, ProgressEnds
  <2> QED BY <1>1, <1>5, <2>1, <2>2, GotoFacts, OthersProgress
<1> QED BY <1>4, <1>5 DEF Commit

LEMMA UploadMetaBacked ==
    ASSUME Backed, NEW q \in Requests, UploadMeta(q)
    PROVE  Published' /\ \A o \in Requests : Progress(o)'
<1>1. PICK landed \in BOOLEAN :
        /\ S3Call(q, "meta", landed)
        /\ IF landed THEN PutMeta(reqRun[q]) ELSE UNCHANGED storeVars
  BY DEF UploadMeta
<1> DEFINE r == reqRun[q]
<1>2. "meta" \in ReqSteps \ {"idle"} /\ FollowedBy("meta") = "read"
  BY DEF ReqSteps, FollowedBy
<1>3. meta \in Boards /\ r \in Runs /\ r # NoRun /\ PairOf[r] \in Pairs
  BY <1>1, <1>2, S3CallFacts, NoRunAssumption, TypeParts DEF Backed, ResultStoreTypeOK
<1>4. UNCHANGED <<runResults, latest, board, result>> /\ result[r]
  BY <1>1, <1>2, S3CallFacts DEF PutMeta, storeVars, Backed, Progress
<1>5. \A p \in Pairs : HasMeta(p) => HasMeta(p)'
  BY <1>1, <1>3 DEF PutMeta, storeVars, Boards, HasMeta
<1>6. DedupIsBacked'
  BY <1>1, <1>3, <1>4 DEF PutMeta, storeVars, Boards, HasMeta, Backed, DedupIsBacked
<1>7. Kept /\ Published'
  BY <1>4, <1>5, <1>6, PairOfType
     DEF Backed, Kept, Published, DoneHasObjects, EntryIsBacked
<1>8. landed => meta'[PairOf[r]] # NoRun
  BY <1>1, <1>3 DEF PutMeta, Boards
<1>9. Progress(q)'
  <2>1. CASE reqAt'[q] = "idle" /\ seen'[q] = EmptyBoard
    BY <2>1, ProgressEnds
  <2>2. CASE /\ landed /\ reqAt'[q] = "read"
             /\ reqRun'[q] = r /\ seen'[q] = seen[q]
    <3>1. Listable(seen[q])
      BY DEF Backed, Progress
    <3>2. Listable(seen[q])'
      BY <1>4, <1>5, <2>2, <3>1 DEF Listable
    <3>3. HasMeta(PairOf[reqRun[q]])'
      BY <1>8, <2>2 DEF HasMeta
    <3> QED BY <1>4, <2>2, <3>2, <3>3 DEF Progress
  <2> QED BY <1>1, <1>2, <2>1, <2>2, S3CallFacts
<1> QED BY <1>1, <1>2, <1>7, <1>9, S3CallFacts, OthersProgress

LEMMA ReadLeaderboardBacked ==
    ASSUME Backed, NEW q \in Requests, ReadLeaderboard(q)
    PROVE  Published' /\ \A o \in Requests : Progress(o)'
<1>1. reqAt[q] = "read" /\ ReqTypeOK /\ FollowedBy("read") = "write"
  BY TypeParts DEF Backed, ReadLeaderboard, FollowedBy
<1>2. UNCHANGED <<storeVars, lifeVars>>
  BY DEF ReadLeaderboard
<1>3. Kept /\ Published'
  BY <1>2 DEF Backed, Kept, Published, DoneHasObjects, DedupIsBacked, EntryIsBacked,
     HasMeta, storeVars, lifeVars
<1>4. CASE ReqGoto(q, "idle")
  BY <1>1, <1>3, <1>4, GotoFacts, ProgressEnds, OthersProgress
<1>5. CASE /\ reqAt' = [reqAt EXCEPT ![q] = FollowedBy(@)]
           /\ seen' = [seen EXCEPT ![q] = board]
           /\ UNCHANGED reqRun
  <2>1. reqAt'[q] = "write" /\ seen'[q] = board /\ reqRun'[q] = reqRun[q]
    BY <1>1, <1>5 DEF ReqTypeOK
  <2>2. Listable(seen[q])'
    BY <1>2, <2>1 DEF Backed, EntryIsBacked, Listable, HasMeta, storeVars, lifeVars
  <2>3. result[reqRun[q]] /\ HasMeta(PairOf[reqRun[q]])
    BY <1>1 DEF Backed, Progress
  <2>4. Progress(q)'
    BY <1>2, <2>1, <2>2, <2>3 DEF Progress, HasMeta, storeVars, lifeVars
  <2> QED BY <1>3, <1>5, <2>4, OthersProgress DEF ReqTypeOK
<1> QED BY <1>4, <1>5 DEF ReadLeaderboard

LEMMA WriteLeaderboardBacked ==
    ASSUME Backed, NEW q \in Requests, WriteLeaderboard(q)
    PROVE  Published' /\ \A o \in Requests : Progress(o)'
<1>1. PICK landed \in BOOLEAN :
        /\ S3Call(q, "write", landed)
        /\ IF landed THEN PutBoard(Upsert(seen[q], reqRun[q])) ELSE UNCHANGED storeVars
  BY DEF WriteLeaderboard
<1> DEFINE r == reqRun[q]
<1>2. "write" \in ReqSteps \ {"idle"} /\ FollowedBy("write") = "idle"
  BY DEF ReqSteps, FollowedBy
<1>3. seen[q] \in Boards /\ r \in Runs /\ PairOf[r] \in Pairs
  BY <1>1, <1>2, S3CallFacts DEF Backed, TypeOK
<1>4. UNCHANGED <<runResults, latest, meta, result>>
  BY <1>1, <1>2, S3CallFacts DEF PutBoard, storeVars
<1>5. result[r] /\ HasMeta(PairOf[r]) /\ Listable(seen[q])
  BY <1>1, <1>2, S3CallFacts DEF Backed, Progress
<1>6. EntryIsBacked'
  <2>1. CASE board' = board
    BY <1>4, <2>1 DEF Backed, EntryIsBacked, HasMeta
  <2>2. CASE board' = [seen[q] EXCEPT ![PairOf[r]] = r]
    <3> SUFFICES ASSUME NEW p \in Pairs, board'[p] # NoRun
                 PROVE  PairOf[board'[p]] = p /\ result[board'[p]] /\ HasMeta(p)
      BY <1>4 DEF EntryIsBacked, HasMeta
    <3>1. board'[p] = IF p = PairOf[r] THEN r ELSE seen[q][p]
      BY <1>3, <2>2 DEF Boards
    <3> QED BY <1>5, <3>1 DEF Listable
  <2> QED BY <1>1, <2>1, <2>2 DEF PutBoard, Upsert, storeVars
<1>7. Kept /\ Published'
  BY <1>4, <1>6 DEF Backed, Kept, Published, DoneHasObjects, DedupIsBacked, HasMeta
<1>8. Progress(q)'
  BY <1>1, <1>2, S3CallFacts, ProgressEnds
<1> QED BY <1>1, <1>2, <1>7, <1>8, S3CallFacts, OthersProgress

\* Steps that touch neither the bucket, nor a result, nor a request.
LEMMA QuietBacked ==
    ASSUME Backed, UNCHANGED <<storeVars, result, reqVars>>
    PROVE  Published' /\ \A o \in Requests : Progress(o)'
<1>1. Kept /\ Published'
  BY DEF Backed, Kept, Published, DoneHasObjects, DedupIsBacked, EntryIsBacked, HasMeta,
     storeVars
<1> QED BY <1>1, ProgressKept DEF Backed, reqVars

LEMMA BackedStep ==
    ASSUME Backed, [Next]_vars
    PROVE  Backed'
<1>1. TypeOK'
  BY StepType DEF Backed
<1>2. ASSUME NEW q \in Requests, Complete(q)
      PROVE  Published' /\ \A o \in Requests : Progress(o)'
  <2>1. ASSUME NEW r \in Runs, Accept(q, r)
        PROVE  Published' /\ \A o \in Requests : Progress(o)'
    <3>1. Kept /\ Published'
      BY <2>1 DEF Accept, Backed, Kept, Published, DoneHasObjects, DedupIsBacked,
         EntryIsBacked, HasMeta, storeVars, lifeVars
    <3>2. reqAt'[q] = "put" /\ seen'[q] = seen[q]
      BY <2>1 DEF Accept, Backed, TypeOK
    <3>3. Progress(q)'
      BY <2>1, <3>2 DEF Accept, Backed, Progress, Listable, HasMeta, storeVars, lifeVars
    <3> QED BY <2>1, <3>1, <3>3, OthersProgress DEF Accept, Backed, TypeOK
  <2> QED BY <1>2, <2>1, UploadRunResultsBacked, UploadLatestBacked, CommitBacked,
          UploadMetaBacked, ReadLeaderboardBacked, WriteLeaderboardBacked DEF Complete
<1>3. ASSUME NEW s \in Submissions, Submit(s)
      PROVE  UNCHANGED <<storeVars, result, reqVars>>
  BY <1>3 DEF Submit, PostBench, PublishCatalogs, CheckMeta, CheckActive, CreateRun,
     Life!Enqueue, lifeVars
<1>4. ASSUME NEW r \in Runs, PostRun(r) \/ RunMoves(r)
      PROVE  UNCHANGED <<storeVars, result, reqVars>>
  BY <1>4 DEF PostRun, RunMoves, Life!Enqueue, Life!Claim, Life!GiveUp, Life!Retry,
     Life!Revive
<1>5. ASSUME Crash PROVE Published' /\ \A o \in Requests : Progress(o)'
  <2>1. Kept /\ Published'
    BY <1>5 DEF Crash, Backed, Kept, Published, DoneHasObjects, DedupIsBacked,
       EntryIsBacked, HasMeta, storeVars, lifeVars
  <2> QED BY <1>5, <2>1, ProgressEnds DEF Crash
<1>6. ASSUME UNCHANGED vars PROVE UNCHANGED <<storeVars, result, reqVars>>
  BY <1>6 DEF vars, lifeVars
<1>7. Published' /\ \A o \in Requests : Progress(o)'
  BY <1>2, <1>3, <1>4, <1>5, <1>6, QuietBacked DEF Next
<1> QED BY <1>1, <1>7 DEF Backed, Published

LEMMA BackedInit == Init => Backed
<1> SUFFICES ASSUME Init PROVE Backed
  OBVIOUS
<1>1. \A q \in Requests : Progress(q)
  BY EmptyListable DEF Init, Progress
<1>2. DoneHasObjects
  BY DEF Init, Life!Init, DoneHasObjects
<1>3. DedupIsBacked /\ EntryIsBacked
  BY DEF Init, ResultStoreInit, EmptyBoard, DedupIsBacked, EntryIsBacked, HasMeta
<1> QED BY <1>1, <1>2, <1>3, InitType DEF Backed

LEMMA BackedHolds == Spec => []Backed
  BY BackedInit, BackedStep, PTL DEF Spec

\* DoneHasObjects: the objects of a completed run were stored before its commit,
\* however many requests overlap and whichever of their calls to S3 fail.
THEOREM DoneHasObjectsHolds == Spec => []DoneHasObjects
<1>1. Backed => DoneHasObjects
  BY DEF Backed
<1> QED BY <1>1, BackedHolds, PTL

\* DedupIsBacked: the meta object that makes POST /bench skip an entry is never
\* there without a completed run of that entry.
THEOREM DedupIsBackedHolds == Spec => []DedupIsBacked
<1>1. Backed => DedupIsBacked
  BY DEF Backed
<1> QED BY <1>1, BackedHolds, PTL

\* EntryIsBacked: every leaderboard entry is of a completed run whose meta object
\* exists, whichever stale board a request writes back.
THEOREM EntryIsBackedHolds == Spec => []EntryIsBacked
<1>1. Backed => EntryIsBacked
  BY DEF Backed
<1> QED BY <1>1, BackedHolds, PTL

-----------------------------------------------------------------------------
(***************************************************************************)
(* One /complete at a time, and no fault: the objects of a pair agree.     *)
(***************************************************************************)

OneAtATime == \A q, o \in Requests : q = o

Busy(q, steps, p) == reqAt[q] \in steps /\ PairOf[reqRun[q]] = p

\* The pair whose objects differ is the one a request is at work on, and the
\* objects written so far are of its run.
InStep ==
    /\ \A q \in Requests :
          LET r == reqRun[q] IN
          /\ reqAt[q] \in {"put", "copy", "commit"} => ~result[r]
          /\ reqAt[q] \in {"commit", "meta", "read", "write"} => latest[PairOf[r]] = r
          /\ reqAt[q] \in {"read", "write"} => meta[PairOf[r]] = r
          /\ reqAt[q] = "write" => seen[q] = board
    /\ \A p \in Pairs :
          /\ latest[p] = meta[p] \/ \E q \in Requests : Busy(q, {"commit", "meta"}, p)
          /\ meta[p] = board[p] \/ \E q \in Requests : Busy(q, {"read", "write"}, p)

\* A run that may still be completed has no result.
Undelivered == \A r \in Runs : phase[r] \in {"absent", "waiting", "active"} => ~result[r]

Together == TypeOK /\ Undelivered /\ (faults = 0 => InStep)

LEMMA UndeliveredStep ==
    ASSUME TypeOK, Undelivered, [Next]_vars
    PROVE  Undelivered'
<1>0. LifeTypeOK
  BY TypeParts
<1>1. UNCHANGED lifeVars => Undelivered'
  BY DEF lifeVars, Undelivered
<1>2. ASSUME NEW r \in Runs,
             \/ Life!Enqueue(r) \/ Life!Claim({r}) \/ Life!GiveUp({r})
             \/ Life!Retry(r) \/ Life!Revive(r) \/ Life!Deliver(r)
      PROVE  Undelivered'
  BY <1>0, <1>2 DEF LifeTypeOK, Undelivered, Life!Enqueue, Life!Claim, Life!GiveUp,
     Life!Retry, Life!Revive, Life!Deliver, Life!Move
<1>3. ASSUME NEW q \in Requests, Complete(q) PROVE Undelivered'
  <2>1. CASE Commit(q)
    <3>1. reqRun[q] \in Runs
      BY <2>1, BusyHasRun, TypeParts DEF Commit
    <3> QED BY <1>1, <1>2, <2>1, <3>1 DEF Commit
  <2> QED BY <1>1, <1>3, <2>1 DEF Complete, Accept, UploadRunResults, UploadLatest,
      UploadMeta, ReadLeaderboard, WriteLeaderboard, S3Call
<1>4. ASSUME NEW s \in Submissions, Submit(s) PROVE Undelivered'
  <2>1. CASE CreateRun(s)
    BY <1>1, <1>2, <2>1 DEF CreateRun
  <2> QED BY <1>1, <1>4, <2>1 DEF Submit, PostBench, PublishCatalogs, CheckMeta, CheckActive
<1> QED BY <1>1, <1>2, <1>3, <1>4 DEF Next, PostRun, RunMoves, Crash, vars

LEMMA NoFault ==
    ASSUME TypeOK, TypeOK', faults' = 0
    PROVE  ~Fault
  BY DEF TypeOK, Fault

\* What a successful call leaves of the one request, and of the others' absence.
LEMMA S3CallSucceeds ==
    ASSUME TypeOK, ~Fault, NEW q \in Requests, NEW step \in ReqSteps \ {"idle"},
           NEW landed \in BOOLEAN, S3Call(q, step, landed)
    PROVE  /\ landed /\ reqAt[q] = step /\ reqAt'[q] = FollowedBy(step)
           /\ FollowedBy(step) # "idle" => reqRun'[q] = reqRun[q] /\ seen'[q] = seen[q]
           /\ reqRun[q] \in Runs /\ PairOf[reqRun[q]] \in Pairs
           /\ UNCHANGED <<result, faults>>
  BY BusyHasRun, PairOfType, GotoFacts, TypeParts DEF S3Call, lifeVars

LEMMA CompleteInStep ==
    ASSUME TypeOK, Undelivered, InStep, OneAtATime, ~Fault,
           NEW q \in Requests, Complete(q)
    PROVE  InStep'
<1> DEFINE r == reqRun[q]
           p == PairOf[r]
<1>0. latest \in Boards /\ meta \in Boards /\ board \in Boards /\ ReqTypeOK
  BY TypeParts DEF ResultStoreTypeOK
<1>1. ASSUME NEW x \in Runs, Accept(q, x) PROVE InStep'
  <2>1. reqAt[q] = "idle" /\ reqAt'[q] = "put" /\ reqRun'[q] = x /\ ~result[x]
    BY <1>0, <1>1 DEF Accept, ReqTypeOK, Undelivered
  <2> QED BY <1>1, <2>1 DEF Accept, InStep, Busy, OneAtATime, storeVars, lifeVars
<1>2. CASE UploadRunResults(q)
  <2>1. /\ reqAt[q] = "put" /\ reqAt'[q] = "copy" /\ reqRun'[q] = r
        /\ UNCHANGED <<result, latest, meta, board>>
    BY <1>2, S3CallSucceeds DEF UploadRunResults, ReqSteps, FollowedBy, PutResults
  <2> QED BY <2>1 DEF InStep, Busy, OneAtATime
<1>3. CASE UploadLatest(q)
  <2>1. /\ reqAt[q] = "copy" /\ reqAt'[q] = "commit" /\ reqRun'[q] = r
        /\ p \in Pairs /\ latest' = [latest EXCEPT ![p] = r]
        /\ UNCHANGED <<result, meta, board>>
    BY <1>3, S3CallSucceeds DEF UploadLatest, ReqSteps, FollowedBy, CopyLatest
  <2>2. \A x \in Pairs : latest'[x] = IF x = p THEN r ELSE latest[x]
    BY <1>0, <2>1 DEF Boards
  <2> HIDE DEF p
  <2> QED BY <2>1, <2>2 DEF p, InStep, Busy, OneAtATime
<1>4. CASE Commit(q)
  <2>1. reqAt[q] = "commit" /\ r \in Runs /\ ~result[r]
    BY <1>0, <1>4, BusyHasRun DEF Commit, InStep
  <2>2. /\ reqAt'[q] = "meta" /\ reqRun'[q] = r
        /\ UNCHANGED <<latest, meta, board>>
    BY <1>0, <1>4, <2>1, GotoFacts DEF Commit, FollowedBy, storeVars
  <2> QED BY <2>1, <2>2 DEF InStep, Busy, OneAtATime
<1>5. CASE UploadMeta(q)
  <2>1. /\ reqAt[q] = "meta" /\ reqAt'[q] = "read" /\ reqRun'[q] = r
        /\ p \in Pairs /\ meta' = [meta EXCEPT ![p] = r]
        /\ UNCHANGED <<result, latest, board>>
    BY <1>5, S3CallSucceeds DEF UploadMeta, ReqSteps, FollowedBy, PutMeta
  <2>2. \A x \in Pairs : meta'[x] = IF x = p THEN r ELSE meta[x]
    BY <1>0, <2>1 DEF Boards
  <2> HIDE DEF p
  <2> QED BY <2>1, <2>2 DEF p, InStep, Busy, OneAtATime
<1>6. CASE ReadLeaderboard(q)
  <2>1. /\ reqAt[q] = "read" /\ reqAt'[q] = "write" /\ reqRun'[q] = r
        /\ seen'[q] = board /\ UNCHANGED <<result, latest, meta, board>>
    BY <1>0, <1>6 DEF ReadLeaderboard, FollowedBy, ReqTypeOK, storeVars, lifeVars
  <2> QED BY <2>1 DEF InStep, Busy, OneAtATime
<1>7. CASE WriteLeaderboard(q)
  <2>1. /\ reqAt[q] = "write" /\ reqAt'[q] = "idle" /\ p \in Pairs
        /\ board' = [seen[q] EXCEPT ![p] = r]
        /\ UNCHANGED <<result, latest, meta>>
    BY <1>7, S3CallSucceeds DEF WriteLeaderboard, ReqSteps, FollowedBy, PutBoard, Upsert
  <2>2. seen[q] = board /\ latest[p] = r /\ meta[p] = r
    BY <2>1 DEF InStep
  <2>3. \A x \in Pairs : board'[x] = IF x = p THEN r ELSE board[x]
    BY <1>0, <2>1, <2>2 DEF Boards
  <2> HIDE DEF p
  <2> QED BY <2>1, <2>2, <2>3 DEF p, InStep, Busy, OneAtATime
<1> QED BY <1>1, <1>2, <1>3, <1>4, <1>5, <1>6, <1>7 DEF Complete

LEMMA TogetherStep ==
    ASSUME OneAtATime, Together, [Next]_vars
    PROVE  Together'
<1>1. TypeOK' /\ Undelivered'
  BY StepType, UndeliveredStep DEF Together
<1>2. ASSUME faults' = 0 PROVE InStep'
  <2>1. ~Fault
    BY <1>1, <1>2, NoFault DEF Together
  <2>2. UNCHANGED faults
    BY <2>1 DEF Next, Complete, Submit, PostRun, RunMoves, Crash, vars, Accept,
       UploadRunResults, UploadLatest, Commit, UploadMeta, ReadLeaderboard,
       WriteLeaderboard, S3Call, PostBench, PublishCatalogs, CheckMeta, CheckActive,
       CreateRun
  <2>3. InStep
    BY <1>2, <2>2 DEF Together
  <2>4. UNCHANGED <<storeVars, result, reqVars>> => InStep'
    BY <2>3 DEF InStep, Busy, storeVars, reqVars
  <2>5. ASSUME NEW q \in Requests, Complete(q) PROVE InStep'
    BY <2>1, <2>3, <2>5, CompleteInStep DEF Together
  <2>6. ASSUME NEW s \in Submissions, Submit(s)
        PROVE  UNCHANGED <<storeVars, result, reqVars>>
    BY <2>6 DEF Submit, PostBench, PublishCatalogs, CheckMeta, CheckActive, CreateRun,
       Life!Enqueue, lifeVars
  <2>7. ASSUME NEW r \in Runs, PostRun(r) \/ RunMoves(r)
        PROVE  UNCHANGED <<storeVars, result, reqVars>>
    BY <2>7 DEF PostRun, RunMoves, Life!Enqueue, Life!Claim, Life!GiveUp, Life!Retry,
       Life!Revive
  <2>8. ~Crash
    BY <2>1 DEF Crash
  <2>9. UNCHANGED vars => UNCHANGED <<storeVars, result, reqVars>>
    BY DEF vars, lifeVars
  <2> QED BY <2>4, <2>5, <2>6, <2>7, <2>8, <2>9 DEF Next
<1> QED BY <1>1, <1>2 DEF Together

LEMMA TogetherInit == Init => Together
  BY InitType DEF Init, Life!Init, ResultStoreInit, Together, Undelivered, InStep

\* PublishedTogether, for any number of runs and entries, as long as no two
\* /complete requests overlap.
THEOREM SerialPublication ==
    ASSUME OneAtATime
    PROVE  Spec => []PublishedTogether
<1>1. Together /\ [Next]_vars => Together'
  BY OneAtATime, TogetherStep
<1>2. Together => PublishedTogether
  <2> SUFFICES ASSUME Together, faults = 0, \A q \in Requests : reqAt[q] = "idle"
               PROVE  latest = meta /\ meta = board
    BY DEF PublishedTogether
  <2>1. latest \in Boards /\ meta \in Boards /\ board \in Boards
    BY TypeParts DEF Together, ResultStoreTypeOK
  <2>2. \A p \in Pairs : latest[p] = meta[p] /\ meta[p] = board[p]
    BY DEF Together, InStep, Busy
  <2> QED BY <2>1, <2>2 DEF Boards
<1> QED BY <1>1, <1>2, TogetherInit, PTL DEF Spec

-----------------------------------------------------------------------------
(***************************************************************************)
(* One submission at a time does not queue an entry twice.                 *)
(***************************************************************************)

OneSubmission == \A s, t \in Submissions : s = t

\* Queued by a submission, and not yet claimed by anybody.
Fresh(o) == o \notin DirectRuns /\ phase[o] = "waiting" /\ spent[o] = 0

NoneFresh(s) == \A o \in Runs : PairOf[o] \in cur[s] => ~Fresh(o)

\* What has_active_run has seen still stands when the run is created.
CheckStands == \A s \in Submissions : subAt[s] = "create" => NoneFresh(s)

LEMMA EnqueueFresh ==
    ASSUME LifeTypeOK, NEW r \in Runs, Life!Enqueue(r), NEW o \in Runs, Fresh(o)'
    PROVE  Fresh(o) \/ (o = r /\ r \notin DirectRuns)
  BY DEF LifeTypeOK, Life!Enqueue, Life!Move, Fresh

\* Only a submission that creates a run makes one fresh.
LEMMA RestFresh ==
    ASSUME TypeOK, NEW o \in Runs, Fresh(o)',
           \/ \E q \in Requests : Complete(q)
           \/ \E r \in Runs : PostRun(r) \/ RunMoves(r)
           \/ Crash
           \/ UNCHANGED vars
    PROVE  Fresh(o)
<1>1. LifeTypeOK
  BY TypeParts
<1>2. CASE UNCHANGED lifeVars
  BY <1>2 DEF lifeVars, Fresh
<1>3. ASSUME NEW q \in Requests, Complete(q) PROVE Fresh(o)
  <2>1. UNCHANGED lifeVars \/ Life!Deliver(reqRun[q])
    BY <1>3 DEF Complete, Accept, UploadRunResults, UploadLatest, UploadMeta,
                ReadLeaderboard, WriteLeaderboard, S3Call, Commit
  <2>2. CASE Life!Deliver(reqRun[q])
    BY <1>1, <2>2 DEF Life!Deliver, Life!Move, LifeTypeOK, Fresh
  <2> QED BY <1>2, <2>1, <2>2
<1>4. ASSUME NEW r \in Runs, PostRun(r) PROVE Fresh(o)
  BY <1>1, <1>4, EnqueueFresh DEF PostRun
<1>5. ASSUME NEW r \in Runs, RunMoves(r) PROVE Fresh(o)
  BY <1>1, <1>5 DEF RunMoves, Life!Claim, Life!GiveUp, Life!Retry, Life!Revive,
                    Life!Move, LifeTypeOK, Fresh
<1>6. Crash \/ UNCHANGED vars => UNCHANGED lifeVars
  BY DEF Crash, vars
<1> QED BY <1>2, <1>3, <1>4, <1>5, <1>6

LEMMA CheckStandsStep ==
    ASSUME OneSubmission, TypeOK, CheckStands, [Next]_vars
    PROVE  CheckStands'
<1> SUFFICES ASSUME NEW s \in Submissions, subAt'[s] = "create",
                    NEW o \in Runs, PairOf[o] \in cur'[s], Fresh(o)'
             PROVE  FALSE
  BY DEF CheckStands, NoneFresh
<1>1. LifeTypeOK /\ SubTypeOK
  BY TypeParts
<1>2. ASSUME UNCHANGED subVars, Fresh(o) PROVE FALSE
  BY <1>2 DEF subVars, CheckStands, NoneFresh
<1>3. ASSUME NEW t \in Submissions, Submit(t) PROVE FALSE
  <2>1. t = s
    BY OneSubmission DEF OneSubmission
  <2>2. CheckActive(s)
    BY <1>1, <1>3, <2>1 DEF Submit, PostBench, PublishCatalogs, CheckMeta, CreateRun,
                            Raise, Handled, SubGoto, SubTypeOK
  <2>3. cur'[s] = cur[s] /\ ~\E r \in Runs : PairOf[r] \in cur[s] /\ IsActive(r)
    BY <1>1, <2>2 DEF CheckActive, Handled, SubGoto, SubTypeOK
  <2> QED BY <2>2, <2>3 DEF CheckActive, IsActive, Fresh, lifeVars
<1>4. CASE \E q \in Requests : Complete(q)
  <2>1. UNCHANGED subVars
    BY <1>4 DEF Complete, Accept, UploadRunResults, UploadLatest, UploadMeta,
                ReadLeaderboard, WriteLeaderboard, S3Call, Commit
  <2> QED BY <1>2, <1>4, <2>1, RestFresh
<1>5. CASE \E r \in Runs : PostRun(r) \/ RunMoves(r)
  <2>1. UNCHANGED subVars
    BY <1>5 DEF PostRun, RunMoves
  <2> QED BY <1>2, <1>5, <2>1, RestFresh
<1>6. ~Crash
  BY DEF Crash
<1>7. CASE UNCHANGED vars
  BY <1>2, <1>7, RestFresh DEF vars
<1> QED BY <1>3, <1>4, <1>5, <1>6, <1>7 DEF Next

\* QueuedOnce, for any runs and entries, as long as no two submissions overlap:
\* has_active_run and create are two transactions, and nothing but a submission
\* can put a run of the entry at the start of the queue between them.
THEOREM QueuedOnceHolds ==
    ASSUME OneSubmission
    PROVE  Spec => QueuedOnce
<1>1. Init => CheckStands
  BY DEF Init, CheckStands
<1>2. TypeOK /\ CheckStands /\ [Next]_vars => CheckStands'
  BY OneSubmission, CheckStandsStep
<1>3. ASSUME TypeOK, CheckStands, [Next]_vars,
             NEW s \in Submissions, NEW r \in Runs, Creates(s, r),
             NEW o \in Runs \ DirectRuns, PairOf[o] = PairOf[r]
      PROVE  ~(phase[o] = "waiting" /\ spent[o] = 0)
  <2>1. SubTypeOK /\ LifeTypeOK
    BY <1>3, TypeParts
  <2>2. ~UNCHANGED lifeVars /\ ~UNCHANGED subVars
    BY <1>3 DEF Creates, lifeVars, subVars
  <2>3. \E t \in Submissions : Submit(t)
    BY <1>3, <2>2 DEF Next, Complete, Accept, UploadRunResults, UploadLatest, UploadMeta,
                      ReadLeaderboard, WriteLeaderboard, S3Call, Commit, PostRun, RunMoves,
                      Crash, vars
  <2>4. CreateRun(s)
    BY <2>2, <2>3, OneSubmission DEF OneSubmission, Submit, PostBench,
       PublishCatalogs, CheckMeta, CheckActive
  <2>5. PICK n \in Runs \ DirectRuns : PairOf[n] \in cur[s] /\ Life!Enqueue(n)
    BY <2>2, <2>4 DEF CreateRun
  <2>6. n = r
    BY <1>3, <2>1, <2>5 DEF Creates, Life!Enqueue, Life!Move, LifeTypeOK
  <2> QED BY <1>3, <2>5, <2>6 DEF Creates, CheckStands, NoneFresh, Fresh
<1>4. TypeOK /\ CheckStands /\ [Next]_vars =>
        [\A s \in Submissions, r \in Runs : Creates(s, r) =>
            \A o \in Runs \ DirectRuns :
                PairOf[o] = PairOf[r] => ~(phase[o] = "waiting" /\ spent[o] = 0)]_vars
  BY <1>3
<1> QED BY <1>1, <1>2, <1>4, BenchTypeCorrect, PTL DEF Spec, QueuedOnce
===============================================================================
