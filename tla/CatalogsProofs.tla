---------------------------- MODULE CatalogsProofs ----------------------------
(***************************************************************************)
(* Theorems about Catalogs for every value of its constants.               *)
(***************************************************************************)
EXTENDS Catalogs, TLAPS

-----------------------------------------------------------------------------
(***************************************************************************)
(* Type correctness.                                                       *)
(***************************************************************************)

Page == [at : {"start", "both", "leaderboard", "models", "loaded"},
         rows : SUBSET Keys, models : Commits \union {Absent}]

\* TypeOK, with the whole type of the page.
Typed ==
    /\ head \in Commits
    /\ object \in [Catalog -> Commits \union {Absent}]
    /\ at \in [Publishers -> Steps] /\ of \in [Publishers -> Commits]
    /\ board \union listed \subseteq created /\ created \subseteq Keys
    /\ page \in Page
    /\ overlapped \in BOOLEAN /\ failed \in BOOLEAN /\ reverted \in BOOLEAN
    /\ published \subseteq Commits
    /\ faults \in 0 .. MaxFaults
    /\ \A p \in Publishers : at[p] = "create" => p = Server

LEMMA CommitFacts ==
    /\ Len(Entries) \in Nat \ {0} /\ 1 \in Commits
    /\ \A v \in Commits : v \in Nat \ {0} /\ Entries[v] \in SUBSET Keys
  BY CatalogsAssumption DEF Commits

LEMMA InitTyped == Init => Typed
<1> SUFFICES ASSUME Init PROVE Typed
  OBVIOUS
<1>1. page \in Page
  BY DEF Init, Page, Unread
<1>2. /\ at \in [Publishers -> Steps] /\ of \in [Publishers -> Commits]
      /\ \A p \in Publishers : at[p] # "create"
  BY CommitFacts DEF Init, Steps
<1>3. object \in [Catalog -> Commits \union {Absent}]
  BY DEF Init
<1>4. faults \in 0 .. MaxFaults /\ head \in Commits
  BY CommitFacts, CatalogsAssumption DEF Init
<1>5. overlapped \in BOOLEAN /\ failed \in BOOLEAN /\ reverted \in BOOLEAN
  BY DEF Init
<1> QED BY <1>1, <1>2, <1>3, <1>4, <1>5 DEF Init, Typed

LEMMA FollowedByFacts ==
    ASSUME Typed, NEW p \in Publishers, Busy(p)
    PROVE  /\ FollowedBy(p) \in Steps
           /\ FollowedBy(p) = "create" => p = Server /\ at[p] = "engines"
           /\ FollowedBy(p) \in Catalog <=> at[p] # "engines"
           /\ at[p] = "models" => FollowedBy(p) = "scenarios"
           /\ at[p] = "scenarios" => FollowedBy(p) = "engines"
           /\ at[p] = "engines" => FollowedBy(p) \in {"create", "idle"}
  BY DEF FollowedBy, Busy, Catalog, Steps

LEMMA GotoTyped ==
    ASSUME Typed, NEW p \in Publishers, NEW step \in Steps, step = "create" => p = Server,
           Goto(p, step)
    PROVE  /\ at' \in [Publishers -> Steps] /\ of' \in [Publishers -> Commits]
           /\ \A q \in Publishers : at'[q] = "create" => q = Server
           /\ at'[p] = step /\ (step # "idle" => of'[p] = of[p]) /\ of'[p] \in {of[p], 1}
           /\ \A q \in Publishers \ {p} : at'[q] = at[q] /\ of'[q] = of[q]
  BY CommitFacts DEF Typed, Goto

LEMMA NextTyped == Typed /\ [Next]_vars => Typed'
<1> SUFFICES ASSUME Typed, [Next]_vars PROVE Typed'
  OBVIOUS
<1> USE DEF historyVars, pubVars, runVars
<1>0. ASSUME NEW p \in Publishers, Busy(p), Land(p)
      PROVE  /\ object' \in [Catalog -> Commits \union {Absent}]
             /\ reverted' \in BOOLEAN /\ published' \subseteq Commits
  <2>1. at[p] \in Catalog /\ of[p] \in Commits
    BY <1>0 DEF Busy, Typed
  <2> QED BY <1>0, <2>1 DEF Land, Typed
<1>1. ASSUME NEW p \in Publishers, Put(p) PROVE Typed'
  <2>1. /\ at[p] \in Catalog /\ of[p] \in Commits /\ FollowedBy(p) \in Steps
        /\ FollowedBy(p) = "create" => p = Server
    BY <1>1, FollowedByFacts DEF Put, Busy, Typed
  <2>2. /\ at' \in [Publishers -> Steps] /\ of' \in [Publishers -> Commits]
        /\ \A q \in Publishers : at'[q] = "create" => q = Server
    BY <1>1, <2>1, GotoTyped DEF Put
  <2>3. /\ object' \in [Catalog -> Commits \union {Absent}]
        /\ reverted' \in BOOLEAN /\ published' \subseteq Commits
    BY <1>0, <1>1 DEF Put
  <2> QED BY <1>1, <2>2, <2>3 DEF Put, Typed
<1>2. ASSUME NEW p \in Publishers, PutFails(p) PROVE Typed'
  <2>1. /\ at' \in [Publishers -> Steps] /\ of' \in [Publishers -> Commits]
        /\ \A q \in Publishers : at'[q] = "create" => q = Server
    BY <1>2, GotoTyped DEF PutFails, Steps
  <2>2. faults' \in 0 .. MaxFaults
    BY <1>2, CatalogsAssumption DEF PutFails, Typed
  <2>4. failed' \in BOOLEAN
    <3>1. CASE failed' = (failed \/ at[p] # "engines")
      BY <3>1
    <3>2. CASE failed' = (failed \/ at[p] # "models")
      BY <3>2
    <3> QED BY <1>2, <3>1, <3>2 DEF PutFails
  <2>3. /\ object' \in [Catalog -> Commits \union {Absent}]
        /\ reverted' \in BOOLEAN /\ published' \subseteq Commits
    BY <1>0, <1>2 DEF PutFails, Typed
  <2> QED BY <1>2, <2>1, <2>2, <2>3, <2>4 DEF PutFails, Typed
<1>3. ASSUME NEW p \in Publishers, NEW v \in Commits, Begin(p, v) PROVE Typed'
  BY <1>3 DEF Begin, Typed, Steps, Catalog
<1>4. CASE Push
  BY <1>4, CommitFacts DEF Push, Typed, Commits
<1>5. CASE CreateRuns
  <2>1. Server \in Publishers /\ of[Server] \in Commits
    BY DEF Publishers, Typed
  <2>2. PICK some \in SUBSET Entries[of[Server]] :
           created' = created \union some /\ listed' = listed \union some
    BY <1>5 DEF CreateRuns
  <2>3. some \subseteq Keys
    BY <2>1, <2>2, CommitFacts
  <2>4. /\ at' \in [Publishers -> Steps] /\ of' \in [Publishers -> Commits]
        /\ \A q \in Publishers : at'[q] = "create" => q = Server
    BY <1>5, <2>1, GotoTyped DEF CreateRuns, Steps
  <2> QED BY <1>5, <2>2, <2>3, <2>4 DEF CreateRuns, Typed
<1>6. ASSUME NEW k \in Keys, RunCompletes(k) \/ PostRun(k) PROVE Typed'
  BY <1>6 DEF RunCompletes, PostRun, Typed
<1>7. CASE OpenPage
  <2>1. page' \in Page
    BY <1>7 DEF OpenPage, Typed, Page
  <2> QED BY <1>7, <2>1 DEF OpenPage, Typed
<1>8. CASE GetLeaderboard
  <2>1. page' \in Page
    BY <1>8 DEF GetLeaderboard, Typed, Page
  <2> QED BY <1>8, <2>1 DEF GetLeaderboard, Typed
<1>9. CASE GetModels
  <2>1. page' \in Page
    BY <1>9 DEF GetModels, Typed, Page, Catalog
  <2> QED BY <1>9, <2>1 DEF GetModels, Typed
<1>10. CASE ClosePage
  <2>1. page' \in Page
    BY <1>10 DEF ClosePage, Page, Unread, Absent
  <2> QED BY <1>10, <2>1 DEF ClosePage, Typed
<1>11. CASE UNCHANGED vars
  BY <1>11 DEF vars, Typed
<1> QED BY <1>1, <1>2, <1>3, <1>4, <1>5, <1>6, <1>7, <1>8, <1>9, <1>10, <1>11 DEF Next

LEMMA TypedHolds == Spec => []Typed
  BY InitTyped, NextTyped, PTL DEF Spec

\* TypeOK, for any catalog history and any number of publishers.
THEOREM CatalogsTypeCorrect == Spec => []TypeOK
<1>1. Typed => TypeOK
  BY DEF Typed, TypeOK, Page
<1> QED BY <1>1, TypedHolds, PTL

-----------------------------------------------------------------------------
(***************************************************************************)
(* The catalogs move forward, as long as no older commit is put over a     *)
(* newer one.                                                              *)
(***************************************************************************)

\* The catalogs a publisher has put so far.
Done(p) ==
    {c \in Catalog : \/ c = "models" /\ at[p] \in {"scenarios", "engines", "create"}
                     \/ c = "scenarios" /\ at[p] \in {"engines", "create"}
                     \/ c = "engines" /\ at[p] = "create"}

\* Some commit up to v lists the key.
Described(k, v) == \E u \in 1 .. v : k \in Entries[u]

\* Nothing is ahead of the head.
BehindHead ==
    /\ \A c \in Catalog : object[c] <= head
    /\ \A p \in Publishers : of[p] <= head
    /\ \A v \in published : v <= head

\* What has been put is there, or something newer is; so a key that a
\* submission listed is described, and so is every such row the page has when it
\* has read the models.
PutsLast ==
    /\ \A v \in published, c \in Catalog : v <= object[c]
    /\ \A p \in Publishers : \A c \in Done(p) : of[p] <= object[c]
    /\ \A k \in listed : Described(k, object["models"])
    /\ page.at \in {"leaderboard", "loaded"} => \A k \in page.rows : Described(k, page.models)

Forward ==
    /\ Typed
    /\ BehindHead
    /\ page.rows \subseteq listed
    /\ ~reverted => PutsLast

\* What a put that lands does to the objects, and its publisher's next step.
LEMMA LandFacts ==
    ASSUME Typed, NEW p \in Publishers, Busy(p), Land(p),
           NEW step \in Steps, step = "create" => p = Server, Goto(p, step)
    PROVE  /\ at[p] \in Catalog /\ of[p] \in Commits
           /\ \A c \in Catalog : object[c] \in Nat
           /\ \A c \in Catalog : object'[c] = IF c = at[p] THEN of[p] ELSE object[c]
           /\ reverted' <=> reverted \/ of[p] < object[at[p]]
           /\ at'[p] = step /\ (step # "idle" => of'[p] = of[p])
           /\ of'[p] \in {of[p], 1}
           /\ \A q \in Publishers \ {p} : at'[q] = at[q] /\ of'[q] = of[q]
<1>1. at[p] \in Catalog /\ of[p] \in Commits /\ \A c \in Catalog : object[c] \in Nat
  BY CommitFacts DEF Busy, Typed, Absent
<1>2. \A c \in Catalog : object'[c] = IF c = at[p] THEN of[p] ELSE object[c]
  BY <1>1 DEF Land, Typed
<1> QED BY <1>1, <1>2, GotoTyped DEF Land, Typed

LEMMA PutFacts ==
    ASSUME Typed, NEW p \in Publishers, Put(p)
    PROVE  /\ at[p] \in Catalog /\ of[p] \in Commits
           /\ \A c \in Catalog : object'[c] = IF c = at[p] THEN of[p] ELSE object[c]
           /\ at'[p] = FollowedBy(p) /\ (FollowedBy(p) # "idle" => of'[p] = of[p])
           /\ \A q \in Publishers \ {p} : at'[q] = at[q] /\ of'[q] = of[q]
  BY FollowedByFacts, LandFacts DEF Put

\* A put that lands, whether its publisher goes on or its call raises.
LEMMA LandForward ==
    ASSUME Forward, Typed', NEW p \in Publishers, Busy(p), Land(p),
           NEW step \in {FollowedBy(p), "idle"}, Goto(p, step), UNCHANGED <<head, runVars, page>>
    PROVE  Forward'
<1> USE DEF runVars
<1>0. Typed /\ BehindHead /\ head \in Nat
  BY CommitFacts DEF Forward, Typed
<1>p. /\ at[p] \in Catalog /\ of[p] \in Commits
      /\ \A c \in Catalog : object[c] \in Nat
      /\ \A c \in Catalog : object'[c] = IF c = at[p] THEN of[p] ELSE object[c]
      /\ reverted' <=> reverted \/ of[p] < object[at[p]]
      /\ at'[p] = step /\ (step # "idle" => of'[p] = of[p])
      /\ of'[p] \in {of[p], 1}
      /\ \A q \in Publishers \ {p} : at'[q] = at[q] /\ of'[q] = of[q]
  <2>1. step \in Steps /\ (step = "create" => p = Server)
    BY <1>0, FollowedByFacts DEF Steps
  <2> QED BY <1>0, <2>1, LandFacts
<1>1. BehindHead'
  <2>1. head' = head /\ published' \subseteq published \union {of[p]}
    BY DEF Land
  <2>2. of[p] <= head /\ 1 <= head
    BY <1>0, CommitFacts DEF BehindHead, Typed
  <2>3. \A c \in Catalog : object'[c] <= head
    BY <1>0, <2>2, <1>p DEF BehindHead
  <2>4. \A q \in Publishers : of'[q] <= head
    BY <1>0, <2>2, <1>p DEF BehindHead
  <2> QED BY <1>0, <2>1, <2>2, <2>3, <2>4 DEF BehindHead
<1>2. ASSUME ~reverted' PROVE PutsLast'
  <2>1. ~reverted /\ of[p] >= object[at[p]] /\ PutsLast
    BY <1>0, <1>2, <1>p, CommitFacts DEF Forward
  <2>2. \A c \in Catalog : object[c] <= object'[c]
    BY <1>0, <2>1, <1>p, CommitFacts
  <2>3. /\ \A c \in Catalog : object[c] \in Nat /\ object'[c] \in Nat
        /\ \A q \in Publishers : of[q] \in Nat /\ of'[q] \in Nat
        /\ published \subseteq Nat
    BY <1>0, <1>p, CommitFacts DEF Typed, Absent
  <2>4. \A q \in Publishers : \A c \in Done(q)' : of'[q] <= object'[c]
    <3> SUFFICES ASSUME NEW q \in Publishers, NEW c \in Done(q)' PROVE of'[q] <= object'[c]
      OBVIOUS
    <3>1. c \in Catalog
      BY DEF Done
    <3>2. CASE q # p
      <4>1. c \in Done(q) /\ of'[q] = of[q]
        BY <1>0, <3>2, <1>p DEF Done
      <4> QED BY <2>1, <2>2, <2>3, <3>1, <4>1 DEF PutsLast
    <3>3. CASE q = p
      <4>1. c \in Done(p) \/ c = at[p]
        BY <1>0, <3>3, <1>p, FollowedByFacts DEF Done, Catalog
      <4>2. of'[p] = of[p]
        BY <1>0, <3>3, <1>p DEF Done
      <4> QED BY <1>0, <2>1, <2>2, <2>3, <3>1, <3>3, <4>1, <4>2, <1>p DEF PutsLast
    <3> QED BY <3>2, <3>3
  <2>5. \A v \in published', c \in Catalog : v <= object'[c]
    <3> SUFFICES ASSUME NEW v \in published', NEW c \in Catalog PROVE v <= object'[c]
      OBVIOUS
    <3>1. CASE v \in published
      <4>1. v <= object[c]
        BY <2>1, <3>1 DEF PutsLast
      <4> QED BY <2>2, <2>3, <3>1, <4>1
    <3>2. CASE v \notin published
      <4>1. v = of[p] /\ at[p] = "engines"
        BY <1>0, <3>2, FollowedByFacts DEF Land
      <4>2. c \in Done(p) \/ c = at[p]
        BY <4>1 DEF Done, Catalog
      <4> QED BY <1>0, <2>1, <2>2, <2>3, <4>1, <4>2, <1>p DEF PutsLast
    <3> QED BY <3>1, <3>2
  <2>6. ASSUME NEW k \in listed PROVE Described(k, object'["models"])
    <3>1. PICK u \in 1 .. object["models"] : k \in Entries[u]
      BY <2>1 DEF PutsLast, Described
    <3>2. u \in 1 .. object'["models"]
      BY <2>2, <2>3, <3>1 DEF Catalog
    <3> QED BY <3>1, <3>2 DEF Described
  <2> QED BY <2>1, <2>4, <2>5, <2>6 DEF PutsLast, Described
<1> QED BY <1>0, <1>1, <1>2 DEF Forward

\* A step that puts nothing and gets no further with its publishing.
LEMMA QuietForward ==
    ASSUME Forward, Typed', UNCHANGED <<object, published, reverted>>,
           head' >= head, of' \in [Publishers -> Commits],
           \A p \in Publishers : of'[p] <= head',
           \A p \in Publishers : Done(p)' = {} \/ (Done(p)' \subseteq Done(p) /\ of'[p] = of[p]),
           page'.rows \subseteq listed',
           ~reverted => \A k \in listed' : Described(k, object["models"]),
           ~reverted /\ page'.at \in {"leaderboard", "loaded"} =>
              \A k \in page'.rows : Described(k, page'.models)
    PROVE  Forward'
<1>1. BehindHead'
  <2>1. /\ head \in Nat /\ head' \in Nat /\ published \subseteq Nat
        /\ \A c \in Catalog : object[c] \in Nat
    BY CommitFacts DEF Forward, Typed, Absent
  <2> QED BY <2>1 DEF Forward, BehindHead
<1>2. ~reverted' => PutsLast'
  BY DEF Forward, PutsLast, Described
<1> QED BY <1>1, <1>2 DEF Forward

LEMMA ForwardStep == Forward /\ [Next]_vars => Forward'
<1> SUFFICES ASSUME Forward, [Next]_vars PROVE Forward'
  OBVIOUS
<1> USE DEF historyVars, pubVars, runVars
<1>0. /\ Typed /\ Typed' /\ BehindHead /\ head \in Nat \ {0}
      /\ of \in [Publishers -> Commits] /\ of' \in [Publishers -> Commits]
      /\ \A p \in Publishers : of[p] <= head
      /\ page.rows \subseteq listed /\ (~reverted => PutsLast)
  BY NextTyped, CommitFacts DEF Forward, BehindHead, Typed
<1>11. ASSUME NEW p \in Publishers, Put(p) PROVE Forward'
  BY <1>0, <1>11, LandForward DEF Put
<1>1. ASSUME NEW p \in Publishers, PutFails(p) PROVE Forward'
  <2>1. /\ at'[p] = "idle" /\ of'[p] \in {of[p], 1}
        /\ \A q \in Publishers \ {p} : at'[q] = at[q] /\ of'[q] = of[q]
    BY <1>0, <1>1, GotoTyped DEF PutFails, Steps
  <2>2. \A q \in Publishers : Done(q)' = {} \/ (Done(q)' = Done(q) /\ of'[q] = of[q])
    BY <2>1 DEF Done
  <2>3. CASE Land(p)
    BY <1>0, <1>1, <2>3, LandForward DEF PutFails
  <2>4. CASE UNCHANGED <<object, published, reverted>>
    BY <1>0, <1>1, <2>1, <2>2, <2>4, QuietForward DEF PutFails, PutsLast
  <2> QED BY <1>1, <2>3, <2>4 DEF PutFails
<1>2. ASSUME NEW p \in Publishers, NEW v \in Commits, Begin(p, v) PROVE Forward'
  <2>1. /\ at'[p] = "models" /\ of'[p] = v
        /\ \A q \in Publishers \ {p} : at'[q] = at[q] /\ of'[q] = of[q]
    BY <1>0, <1>2 DEF Begin, Typed
  <2>2. \A q \in Publishers : Done(q)' = {} \/ (Done(q)' = Done(q) /\ of'[q] = of[q])
    BY <2>1 DEF Done
  <2> QED BY <1>0, <1>2, <2>1, <2>2, QuietForward DEF Begin, PutsLast
<1>3. CASE Push
  <2>1. \A p \in Publishers : of'[p] <= head'
    BY <1>0, <1>3, CommitFacts DEF Push
  <2> QED BY <1>0, <1>3, <2>1, QuietForward DEF Push, Done, PutsLast
<1>4. CASE CreateRuns
  <2>1. Server \in Publishers /\ at[Server] = "create"
    BY <1>4 DEF CreateRuns, Publishers
  <2>2. PICK some \in SUBSET Entries[of[Server]] :
           created' = created \union some /\ listed' = listed \union some
    BY <1>4 DEF CreateRuns
  <2>3. /\ at'[Server] = "idle" /\ of'[Server] \in {of[Server], 1}
        /\ \A q \in Publishers \ {Server} : at'[q] = at[q] /\ of'[q] = of[q]
    BY <1>0, <1>4, <2>1, GotoTyped DEF CreateRuns, Steps
  <2>4. \A q \in Publishers : Done(q)' = {} \/ (Done(q)' = Done(q) /\ of'[q] = of[q])
    BY <2>3 DEF Done
  <2>5. ASSUME ~reverted, NEW k \in some PROVE Described(k, object["models"])
    <3>1. of[Server] <= object["models"]
      BY <1>0, <2>1, <2>5 DEF PutsLast, Done, Catalog
    <3>2. of[Server] \in Nat \ {0}
      BY <1>0, <2>1, CommitFacts
    <3>3. object["models"] \in Nat
      <4>1. object["models"] \in Commits \union {Absent}
        BY <1>0 DEF Typed, Catalog
      <4> QED BY <4>1, CommitFacts DEF Absent
    <3> QED BY <2>2, <2>5, <3>1, <3>2, <3>3 DEF Described
  <2> QED BY <1>0, <1>4, <2>2, <2>3, <2>4, <2>5, QuietForward DEF CreateRuns, PutsLast
<1>5. ASSUME NEW k \in Keys, RunCompletes(k) \/ PostRun(k) PROVE Forward'
  BY <1>0, <1>5, QuietForward DEF RunCompletes, PostRun, Done, PutsLast
<1>6. CASE OpenPage
  <2>1. page'.rows \subseteq listed /\ page'.at = "both"
    BY <1>0, <1>6 DEF OpenPage, Typed, Page
  <2> QED BY <1>0, <1>6, <2>1, QuietForward DEF OpenPage, Typed, Done, PutsLast
<1>7. CASE GetLeaderboard
  <2>1. /\ page'.rows \subseteq listed
        /\ page'.at \in {"leaderboard", "loaded"} =>
              /\ page.at = "leaderboard" /\ page'.rows = page.rows
              /\ page'.models = page.models
    <3>0. page \in Page
      BY <1>0 DEF Typed
    <3>1. CASE page' = [page EXCEPT !.at = "models", !.rows = board \intersect listed]
      <4>1. page'.at = "models" /\ page'.rows = board \intersect listed
        BY <3>0, <3>1 DEF Page
      <4> QED BY <4>1
    <3>2. CASE page.at = "leaderboard" /\ page' = [page EXCEPT !.at = "loaded"]
      BY <1>0, <3>0, <3>2 DEF Page
    <3> QED BY <1>7, <3>1, <3>2 DEF GetLeaderboard
  <2> QED BY <1>0, <1>7, <2>1, QuietForward DEF GetLeaderboard, Done, PutsLast
<1>8. CASE GetModels
  <2>1. page'.rows = page.rows /\ page'.models = object["models"]
    BY <1>0, <1>8 DEF GetModels, Typed, Page
  <2> QED BY <1>0, <1>8, <2>1, QuietForward DEF GetModels, Done, PutsLast
<1>9. CASE ClosePage
  <2>1. page'.rows = {} /\ page'.at = "start"
    BY <1>9 DEF ClosePage, Unread
  <2> QED BY <1>0, <1>9, <2>1, QuietForward DEF ClosePage, Done, PutsLast
<1>10. CASE UNCHANGED vars
  BY <1>0, <1>10, QuietForward DEF vars, Done, PutsLast
<1> QED BY <1>1, <1>2, <1>3, <1>4, <1>5, <1>6, <1>7, <1>8, <1>9, <1>10, <1>11 DEF Next

LEMMA ForwardInit == Init => Forward
<1> SUFFICES ASSUME Init PROVE Forward
  OBVIOUS
<1>1. BehindHead
  BY DEF Init, BehindHead, Absent
<1>2. PutsLast
  BY DEF Init, PutsLast, Done, Unread
<1> QED BY <1>1, <1>2, InitTyped DEF Init, Forward, Unread

LEMMA ForwardHolds == Spec => []Forward
  BY ForwardInit, ForwardStep, PTL DEF Spec

\* HeadIsLive: once any publisher of the head commit has put its catalogs, all
\* three are the head's, whatever jobs and submissions overlap and fail, unless
\* an older commit was put over a newer one.
THEOREM HeadIsLiveHolds == Spec => []HeadIsLive
<1>1. ASSUME Forward PROVE HeadIsLive
  <2> SUFFICES ASSUME head \in published, ~reverted, NEW c \in Catalog
               PROVE  object[c] = head
    BY DEF HeadIsLive
  <2>1. object[c] <= head /\ head <= object[c]
    BY <1>1 DEF Forward, BehindHead, PutsLast
  <2>2. object[c] \in Nat /\ head \in Nat
    BY <1>1, CommitFacts DEF Forward, Typed, Absent
  <2> QED BY <2>1, <2>2
<1> QED BY <1>1, ForwardHolds, PTL

\* RowsDescribed: submit publishes the catalogs before it creates runs, and the
\* page reads the models no earlier than it begins to load: the row of an entry a
\* submission had queued never lacks its description, for any history of
\* models.yaml and whatever runs POST /runs creates beside.
THEOREM RowsDescribedHolds == Spec => []RowsDescribed
<1>1. Forward => RowsDescribed
  BY DEF Forward, PutsLast, RowsDescribed, Described
<1> QED BY <1>1, ForwardHolds, PTL

-----------------------------------------------------------------------------
(***************************************************************************)
(* The catalogs agree, as long as publishers neither overlap nor fail.     *)
(***************************************************************************)

\* How the catalogs differ while a publisher is at work.
Halfway(p) ==
    /\ at[p] = "models" => \A c, d \in Catalog : object[c] = object[d]
    /\ at[p] = "scenarios" =>
          object["models"] = of[p] /\ object["scenarios"] = object["engines"]
    /\ at[p] = "engines" => object["models"] = of[p] /\ object["scenarios"] = of[p]

OneAtWork ==
    /\ \A p, q \in Publishers : Busy(p) /\ Busy(q) => p = q
    /\ \A p \in Publishers : Halfway(p)
    /\ (\A p \in Publishers : ~Busy(p)) => \A c, d \in Catalog : object[c] = object[d]

Together == Typed /\ (~overlapped /\ ~failed => OneAtWork)

LEMMA NobodyElseBusy ==
    ASSUME OneAtWork, NEW p \in Publishers, Busy(p)
    PROVE  \A q \in Publishers \ {p} : ~Busy(q)
  BY DEF OneAtWork

\* A step that leaves every publisher at its put, or takes it from outside the
\* three puts to another place outside them, and puts nothing.
LEMMA OneAtWorkKept ==
    ASSUME OneAtWork, UNCHANGED object,
           \A p \in Publishers : \/ at'[p] = at[p] /\ of'[p] = of[p]
                                 \/ ~Busy(p) /\ ~Busy(p)'
    PROVE  OneAtWork'
  BY DEF OneAtWork, Halfway, Busy, Catalog

LEMMA TogetherStep == Together /\ [Next]_vars => Together'
<1> SUFFICES ASSUME Together, [Next]_vars, ~overlapped', ~failed' PROVE OneAtWork'
  BY NextTyped DEF Together
<1> USE DEF historyVars, pubVars, runVars
<1>0. Typed /\ OneAtWork
  <2>1. Typed /\ ~overlapped /\ ~failed
    BY DEF Together, Next, vars, Typed, Put, PutFails, Begin, Push, CreateRuns, RunCompletes, PostRun,
           OpenPage, GetLeaderboard, GetModels, ClosePage
  <2> QED BY <2>1 DEF Together
<1>1. ASSUME NEW p \in Publishers, Put(p) PROVE OneAtWork'
  <2>1. Busy(p) /\ \A q \in Publishers \ {p} : ~Busy(q)
    BY <1>0, <1>1, NobodyElseBusy DEF Put
  <2>2. \A q \in Publishers \ {p} : ~Busy(q)'
    BY <1>0, <1>1, <2>1, PutFacts DEF Busy
  <2>3. Halfway(p)
    BY <1>0 DEF OneAtWork
  <2>4. Halfway(p)'
    BY <1>0, <1>1, <2>1, <2>3, PutFacts, FollowedByFacts DEF Halfway, Catalog
  <2>5. ASSUME ~Busy(p)' PROVE \A c, d \in Catalog : object'[c] = object'[d]
    <3>1. at[p] = "engines"
      BY <1>0, <1>1, <2>1, <2>5, PutFacts, FollowedByFacts DEF Busy
    <3> QED BY <1>0, <1>1, <2>3, <3>1, PutFacts DEF Halfway, Catalog
  <2>6. ASSUME NEW q \in Publishers PROVE Halfway(q)'
    <3>1. CASE q = p BY <2>4, <3>1
    <3>2. CASE q # p BY <2>2, <3>2 DEF Halfway, Busy, Catalog
    <3> QED BY <3>1, <3>2
  <2> QED BY <2>2, <2>5, <2>6 DEF OneAtWork
<1>2. ASSUME NEW p \in Publishers, PutFails(p) PROVE OneAtWork'
  <2>1. Busy(p) /\ \A q \in Publishers \ {p} : ~Busy(q)
    BY <1>0, <1>2, NobodyElseBusy DEF PutFails
  <2>2. \A c, d \in Catalog : object'[c] = object'[d]
    <3>1. Halfway(p)
      BY <1>0 DEF OneAtWork
    <3>2. CASE Land(p) /\ at[p] = "engines"
      <4>1. \A c \in Catalog : object'[c] = IF c = at[p] THEN of[p] ELSE object[c]
        BY <1>0, <1>2, <2>1, <3>2, LandFacts DEF PutFails, Steps
      <4> QED BY <3>1, <3>2, <4>1 DEF Halfway, Catalog
    <3>3. CASE UNCHANGED object /\ at[p] = "models"
      BY <3>1, <3>3 DEF Halfway
    <3> QED BY <1>2, <3>2, <3>3 DEF PutFails
  <2>3. at'[p] = "idle" /\ \A q \in Publishers \ {p} : at'[q] = at[q]
    BY <1>0, <1>2, GotoTyped DEF PutFails, Steps
  <2>4. \A q \in Publishers : ~Busy(q)'
    BY <2>1, <2>3 DEF Busy, Catalog
  <2> QED BY <2>2, <2>4 DEF OneAtWork, Halfway, Busy, Catalog
<1>3. ASSUME NEW p \in Publishers, NEW v \in Commits, Begin(p, v) PROVE OneAtWork'
  <2>1. \A q \in Publishers : ~Busy(q)
    BY <1>3 DEF Begin
  <2>2. /\ at'[p] = "models"
        /\ \A q \in Publishers \ {p} : at'[q] = at[q]
    BY <1>0, <1>3 DEF Begin, Typed
  <2>3. \A q \in Publishers \ {p} : ~Busy(q)'
    BY <2>1, <2>2 DEF Busy
  <2>4. \A c, d \in Catalog : object'[c] = object'[d]
    BY <1>0, <1>3, <2>1 DEF OneAtWork, Begin
  <2> QED BY <2>2, <2>3, <2>4 DEF OneAtWork, Halfway, Busy, Catalog
<1>4. CASE CreateRuns
  <2>1. Server \in Publishers /\ at[Server] = "create"
    BY <1>4 DEF CreateRuns, Publishers
  <2>2. /\ at'[Server] = "idle"
        /\ \A q \in Publishers \ {Server} : at'[q] = at[q] /\ of'[q] = of[q]
    BY <1>0, <1>4, <2>1, GotoTyped DEF CreateRuns, Steps
  <2> QED BY <1>0, <1>4, <2>1, <2>2, OneAtWorkKept DEF CreateRuns, Busy, Catalog
<1>5. UNCHANGED <<object, at, of>> => OneAtWork'
  BY <1>0, OneAtWorkKept
<1> QED BY <1>1, <1>2, <1>3, <1>4, <1>5
        DEF Next, vars, Push, RunCompletes, PostRun, OpenPage, GetLeaderboard, GetModels, ClosePage

LEMMA TogetherInit == Init => Together
  BY InitTyped DEF Init, Together, OneAtWork, Halfway, Busy, Catalog

\* CatalogsAgree: three puts one after the other leave three catalogs of one
\* commit, unless publishers overlap or one of them fails between its puts; a call
\* that raises after its put has landed included.
THEOREM CatalogsAgreeHolds == Spec => []CatalogsAgree
<1>1. Together => CatalogsAgree
  BY DEF Together, OneAtWork, CatalogsAgree
<1> QED BY <1>1, TogetherInit, TogetherStep, PTL DEF Spec
===============================================================================
