----------------------------- MODULE RunnerProofs -----------------------------
(***************************************************************************)
(* Theorems about Runner for every value of its constants.                 *)
(***************************************************************************)
EXTENDS Runner, SequenceTheorems, TLAPS

-----------------------------------------------------------------------------
(***************************************************************************)
(* The two cuts of a log.                                                  *)
(***************************************************************************)

\* A sequence of bytes in which every byte of the log comes after those before
\* it, whatever markers are between them.
Ordered(body) ==
    \A i, j \in 1 .. Len(body) : i < j /\ body[j] # MarkerByte => body[i] < body[j]

\* Its first and last bytes, half of each, are those of the log.
Ends(size, body, half) ==
    /\ Len(body) >= 2 * half
    /\ \A i \in 1 .. half : body[i] = i /\ body[Len(body) - half + i] = size - half + i

LEMMA LogCutFacts ==
    /\ RunnerMax \in Nat /\ RunnerHalf \in Nat /\ ServerMax \in Nat /\ ServerHalf \in Nat
    /\ MarkerLength \in Nat
    /\ 2 * RunnerHalf <= RunnerMax /\ 2 * ServerHalf + MarkerLength <= ServerMax
    /\ ServerHalf <= RunnerHalf
  BY LogCutAssumption

\* The length of a body that has been cut, and what is where in it.
LEMMA CutShape ==
    ASSUME NEW body \in Seq(Nat), NEW max \in Nat, NEW half \in Nat,
           2 * half <= max, Len(body) > max
    PROVE  LET cut == Cut(body, max, half) IN
           /\ cut \in Seq(Nat)
           /\ Len(cut) = 2 * half + MarkerLength
           /\ \A i \in 1 .. half : cut[i] = body[i]
           /\ \A i \in half + 1 .. half + MarkerLength : cut[i] = MarkerByte
           /\ \A i \in half + MarkerLength + 1 .. 2 * half + MarkerLength :
                 cut[i] = body[Len(body) - 2 * half - MarkerLength + i]
<1> DEFINE n == Len(body)
           head == SubSeq(body, 1, half)
           tail == SubSeq(body, n - half + 1, n)
           cut == (head \o Marker) \o tail
<1>1. MarkerLength \in Nat /\ n \in Nat /\ n > 2 * half
  <2>1. MarkerLength \in Nat
    BY LogCutFacts
  <2>2. n \in Nat
    BY LenProperties
  <2> QED BY <2>1, <2>2
<1>2. Cut(body, max, half) = cut
  <2>1. ~(Len(body) <= max)
    BY <1>1
  <2> QED BY <2>1, Zenon DEF Cut
<1>3. /\ head \in Seq(Nat) /\ Len(head) = half
      /\ \A i \in 1 .. half : head[i] = body[i]
  <2>1. \A i \in 1 .. half : body[i] \in Nat
    BY <1>1, ElementOfSeq
  <2>2. /\ head \in Seq(Nat) /\ Len(head) = IF 1 <= half THEN half - 1 + 1 ELSE 0
        /\ \A i \in 1 .. half - 1 + 1 : head[i] = body[1 + i - 1]
    BY <2>1, SubSeqProperties
  <2> HIDE DEF head
  <2> QED BY <2>2
<1>4. /\ tail \in Seq(Nat) /\ Len(tail) = half
      /\ \A i \in 1 .. half : tail[i] = body[n - half + i]
  <2>1. n - half + 1 \in Int /\ n \in Int
    BY <1>1
  <2>2. \A i \in n - half + 1 .. n : body[i] \in Nat
    BY <1>1, ElementOfSeq
  <2>3. /\ tail \in Seq(Nat)
        /\ Len(tail) = IF n - half + 1 <= n THEN n - (n - half + 1) + 1 ELSE 0
        /\ \A i \in 1 .. n - (n - half + 1) + 1 : tail[i] = body[(n - half + 1) + i - 1]
    BY <2>1, <2>2, SubSeqProperties
  <2> HIDE DEF tail, n
  <2> QED BY <1>1, <2>3
<1>5. /\ Marker \in Seq(Nat) /\ Len(Marker) = MarkerLength
      /\ \A i \in 1 .. MarkerLength : Marker[i] = MarkerByte
  BY <1>1 DEF Marker, MarkerByte
<1> HIDE DEF head, tail
<1> DEFINE front == head \o Marker
<1>6. /\ front \in Seq(Nat) /\ Len(front) = half + MarkerLength
      /\ \A i \in 1 .. half + MarkerLength :
            front[i] = IF i <= half THEN head[i] ELSE Marker[i - half]
  <2>1. /\ front \in Seq(Nat) /\ Len(front) = Len(head) + Len(Marker)
        /\ \A i \in 1 .. Len(head) + Len(Marker) :
              front[i] = IF i <= Len(head) THEN head[i] ELSE Marker[i - Len(head)]
    BY <1>3, <1>5, ConcatProperties, Zenon
  <2> HIDE DEF front
  <2> QED BY <1>3, <1>5, <2>1
<1>7. /\ cut \in Seq(Nat) /\ Len(cut) = half + MarkerLength + half
      /\ \A i \in 1 .. half + MarkerLength + half :
            cut[i] = IF i <= half + MarkerLength THEN front[i]
                     ELSE tail[i - (half + MarkerLength)]
  <2> HIDE DEF front
  <2>1. cut = front \o tail
    BY DEF front
  <2> HIDE DEF cut
  <2>2. /\ cut \in Seq(Nat) /\ Len(cut) = Len(front) + Len(tail)
        /\ \A i \in 1 .. Len(front) + Len(tail) :
              cut[i] = IF i <= Len(front) THEN front[i] ELSE tail[i - Len(front)]
    BY <1>4, <1>6, <2>1, ConcatProperties, ZenonT(60)
  <2> QED BY <1>4, <1>6, <2>2
<1> HIDE DEF cut, front
<1>8. ASSUME NEW i \in 1 .. half PROVE cut[i] = body[i]
  <2>1. /\ i \in 1 .. half + MarkerLength /\ i \in 1 .. half + MarkerLength + half
        /\ i <= half + MarkerLength /\ i <= half
    BY <1>1
  <2>2. cut[i] = front[i] /\ front[i] = head[i]
    BY <1>6, <1>7, <2>1, Zenon
  <2> QED BY <1>3, <2>2
<1>9. ASSUME NEW i \in half + 1 .. half + MarkerLength PROVE cut[i] = MarkerByte
  <2>1. /\ i \in 1 .. half + MarkerLength /\ i \in 1 .. half + MarkerLength + half
        /\ i <= half + MarkerLength /\ ~(i <= half) /\ i - half \in 1 .. MarkerLength
    BY <1>1
  <2>2. cut[i] = front[i] /\ front[i] = Marker[i - half]
    BY <1>6, <1>7, <2>1, Zenon
  <2> QED BY <1>5, <2>1, <2>2
<1>10. ASSUME NEW i \in half + MarkerLength + 1 .. 2 * half + MarkerLength
       PROVE  cut[i] = body[n - 2 * half - MarkerLength + i]
  <2> DEFINE j == i - (half + MarkerLength)
  <2>1. /\ i \in 1 .. half + MarkerLength + half /\ ~(i <= half + MarkerLength)
        /\ j \in 1 .. half /\ n - half + j = n - 2 * half - MarkerLength + i
    BY <1>1
  <2>2. cut[i] = tail[j]
    BY <1>7, <2>1, Zenon
  <2>3. tail[j] = body[n - half + j]
    BY <1>4, <2>1, Zenon
  <2> QED BY <2>1, <2>2, <2>3, Zenon
<1> QED BY <1>1, <1>2, <1>7, <1>8, <1>9, <1>10

\* A cut body is as ordered as the body.
LEMMA CutOrdered ==
    ASSUME NEW body \in Seq(Nat), NEW max \in Nat, NEW half \in Nat,
           2 * half <= max, Len(body) > max, Ordered(body)
    PROVE  Ordered(Cut(body, max, half))
<1> DEFINE n == Len(body)
           cut == Cut(body, max, half)
           Place(i) == IF i <= half THEN i ELSE n - 2 * half - MarkerLength + i
<1>1. /\ MarkerLength \in Nat /\ n \in Nat /\ n > 2 * half
      /\ Len(cut) = 2 * half + MarkerLength /\ cut \in Seq(Nat)
  <2>1. MarkerLength \in Nat /\ n \in Nat
    BY LogCutFacts, LenProperties
  <2> QED BY <2>1, CutShape
<1>2. /\ \A i \in 1 .. half : cut[i] = body[i]
      /\ \A i \in half + 1 .. half + MarkerLength : cut[i] = MarkerByte
      /\ \A i \in half + MarkerLength + 1 .. 2 * half + MarkerLength :
            cut[i] = body[n - 2 * half - MarkerLength + i]
  BY CutShape
<1>3. \A i \in 1 .. Len(cut) : cut[i] \in Nat
  BY <1>1, ElementOfSeq
<1>4. \A i \in 1 .. n : body[i] \in Nat
  BY ElementOfSeq
<1> HIDE DEF cut, n
<1>5. ASSUME NEW i \in 1 .. Len(cut), cut[i] # MarkerByte
      PROVE  /\ i <= half \/ i >= half + MarkerLength + 1
             /\ Place(i) \in 1 .. n /\ cut[i] = body[Place(i)]
  <2>1. CASE i <= half
    <3>1. i \in 1 .. half /\ i \in 1 .. n
      BY <1>1, <2>1
    <3>2. cut[i] = body[i]
      BY <1>2, <3>1, Zenon
    <3> QED BY <2>1, <3>1, <3>2, Zenon
  <2>2. CASE i \in half + 1 .. half + MarkerLength
    BY <1>2, <1>5, <2>2
  <2>3. CASE i >= half + MarkerLength + 1
    <3>1. /\ i \in half + MarkerLength + 1 .. 2 * half + MarkerLength
          /\ Place(i) = n - 2 * half - MarkerLength + i /\ Place(i) \in 1 .. n
      BY <1>1, <2>3
    <3> QED BY <1>2, <2>3, <3>1, Zenon
  <2> QED BY <1>1, <2>1, <2>2, <2>3
<1>6. ASSUME NEW i \in 1 .. Len(cut), NEW j \in 1 .. Len(cut), i < j, cut[j] # MarkerByte
      PROVE  cut[i] < cut[j]
  <2>1. Place(j) \in 1 .. n /\ cut[j] = body[Place(j)] /\ (j <= half \/ j >= half + MarkerLength + 1)
    BY <1>5, <1>6, Zenon
  <2>2. CASE cut[i] = MarkerByte
    BY <1>3, <1>6, <2>2 DEF MarkerByte
  <2>3. CASE cut[i] # MarkerByte
    <3>1. Place(i) \in 1 .. n /\ cut[i] = body[Place(i)] /\ (i <= half \/ i >= half + MarkerLength + 1)
      BY <1>5, <2>3, Zenon
    <3>2. Place(i) < Place(j)
      BY <1>1, <1>6, <2>1, <3>1
    <3> HIDE DEF Place
    <3>3. body[Place(j)] # MarkerByte
      BY <1>6, <2>1
    <3>4. body[Place(i)] < body[Place(j)]
      BY <2>1, <3>1, <3>2, <3>3, Zenon DEF Ordered, n
    <3> QED BY <2>1, <3>1, <3>4
  <2> QED BY <2>2, <2>3
<1> QED BY <1>6, Zenon DEF Ordered, cut

\* A cut body ends as the body does.
LEMMA CutEnds ==
    ASSUME NEW body \in Seq(Nat), NEW max \in Nat, NEW half \in Nat, NEW size \in Nat,
           NEW h \in Nat, h <= half,
           2 * half <= max, Len(body) > max, Ends(size, body, h)
    PROVE  Ends(size, Cut(body, max, half), h)
<1> DEFINE n == Len(body)
           cut == Cut(body, max, half)
<1>1. /\ MarkerLength \in Nat /\ n \in Nat
      /\ Len(cut) = 2 * half + MarkerLength
  BY CutShape, LogCutFacts, LenProperties
<1>2. /\ \A i \in 1 .. half : cut[i] = body[i]
      /\ \A i \in half + MarkerLength + 1 .. 2 * half + MarkerLength :
            cut[i] = body[n - 2 * half - MarkerLength + i]
  BY CutShape
<1>3. \A i \in 1 .. h : body[i] = i /\ body[n - h + i] = size - h + i
  BY DEF Ends
<1> HIDE DEF cut, n
<1>4. ASSUME NEW i \in 1 .. h
      PROVE  cut[i] = i /\ cut[Len(cut) - h + i] = size - h + i
  <2> DEFINE j == Len(cut) - h + i
  <2>1. /\ i \in 1 .. half /\ j \in half + MarkerLength + 1 .. 2 * half + MarkerLength
        /\ n - 2 * half - MarkerLength + j = n - h + i
    BY <1>1
  <2>2. cut[j] = body[n - 2 * half - MarkerLength + j]
    BY <1>2, <2>1, Zenon
  <2>3. cut[j] = body[n - h + i]
    BY <2>1, <2>2, Zenon
  <2> QED BY <1>2, <1>3, <2>1, <2>3, Zenon
<1>5. Len(cut) >= 2 * h
  BY <1>1
<1> QED BY <1>4, <1>5 DEF Ends, cut

LEMMA LogOfFacts ==
    ASSUME NEW size \in Nat
    PROVE  /\ LogOf(size) \in Seq(Nat) /\ Len(LogOf(size)) = size /\ Ordered(LogOf(size))
           /\ \A h \in Nat : 2 * h <= size => Ends(size, LogOf(size), h)
  BY DEF LogOf, Ordered, Ends

\* What _post_logs posts of a log, and attach_logs stores of that, is the log or
\* its beginning and its end, for every size and for every pair of limits: the
\* second cut falls within the halves the first one left.
THEOREM TwoCutsAreFaithful ==
    ASSUME NEW size \in Nat
    PROVE  FaithfulCut(size, Stored(Posted(size)))
<1> DEFINE whole == LogOf(size)
           posted == Posted(size)
           stored == Stored(posted)
<1>1. /\ whole \in Seq(Nat) /\ Len(whole) = size /\ Ordered(whole)
      /\ \A h \in Nat : 2 * h <= size => Ends(size, whole, h)
  BY LogOfFacts
<1>2. /\ posted \in Seq(Nat) /\ Ordered(posted)
      /\ posted = whole \/ Ends(size, posted, ServerHalf)
      /\ Len(posted) > ServerMax => Ends(size, posted, ServerHalf)
  <2>1. CASE size <= RunnerMax
    <3>1. posted = whole
      BY <1>1, <2>1 DEF Posted, Cut
    <3>2. size > ServerMax => 2 * ServerHalf <= size
      BY LogCutFacts
    <3> QED BY <1>1, <3>1, <3>2, LogCutFacts
  <2>2. CASE size > RunnerMax
    <3>1. 2 * ServerHalf <= size
      BY <2>2, LogCutFacts
    <3>2. Ends(size, whole, ServerHalf)
      BY <1>1, <3>1, LogCutFacts
    <3> QED BY <1>1, <2>2, <3>2, CutShape, CutOrdered, CutEnds, LogCutFacts DEF Posted
  <2> QED BY <2>1, <2>2, LogCutFacts
<1>3. /\ Len(stored) <= ServerMax /\ Ordered(stored)
      /\ stored = whole \/ Ends(size, stored, ServerHalf)
  <2>1. CASE Len(posted) <= ServerMax
    BY <1>2, <2>1 DEF Stored, Cut
  <2>2. CASE Len(posted) > ServerMax
    <3>1. 2 * ServerHalf <= ServerMax
      BY LogCutFacts
    <3>2. Len(stored) = 2 * ServerHalf + MarkerLength
      BY <1>2, <2>2, <3>1, CutShape, LogCutFacts DEF Stored
    <3> QED BY <1>2, <2>2, <3>1, <3>2, CutOrdered, CutEnds, LogCutFacts DEF Stored
  <2>3. Len(posted) \in Nat
    BY <1>2, LenProperties
  <2> QED BY <2>1, <2>2, <2>3, LogCutFacts
<1> QED BY <1>3 DEF FaithfulCut, Ordered, Ends

-----------------------------------------------------------------------------
(***************************************************************************)
(* The parts of the inductive invariants.                                  *)
(***************************************************************************)

\* What is posted, and what a phase report is on its way to the row.
Kinds == {"phase", "logs", "complete", "fail"}
PhaseKinds == {"phase", "write"}

\* TypeOK, and what keeps the bounds of its parts.
Typed ==
    /\ status \in {"provisioning", "running"} \union Ended
    /\ phase \in {"none"} \union Working
    /\ log.step \in 0 .. Last /\ log.life \in 0 .. MaxFaults
    /\ log.step = 0 \/ log.body = Stored(Posted(LogSize[log.step]))
    /\ inflight \subseteq Requests
    /\ \A q \in inflight : q.kind \in PhaseKinds => q.step \in 1 .. Len(Work)
    /\ at \in VmSteps
    /\ call \in {"unsent", "waits", "ok", "error"}
    /\ periodic \in {"off", "asleep", "waits"}
    /\ started \in BOOLEAN /\ reaper \in BOOLEAN /\ uploaded \in BOOLEAN /\ jq \in BOOLEAN
    /\ enabled \in BOOLEAN /\ reported \in BOOLEAN /\ raced \in BOOLEAN
    /\ orphaned \in BOOLEAN /\ adrift \in BOOLEAN /\ reaped \in BOOLEAN
    /\ excuse \in BOOLEAN
    /\ reboots \in Nat /\ faults \in 0 .. MaxFaults /\ reboots <= faults
    /\ left \in 0 .. Last /\ (at \in {"faillogs", "fail"} => left \in 1 .. Last)

\* The request is one of the step the VM is at.
OfStep(q) == q.kind = Kind(at) \/ (q.kind = "write" /\ Kind(at) = "phase")

\* The foreground has a request in flight when it waits for the answer, and no
\* other; it is the request of the step the VM is at.
Foreground ==
    /\ call = "waits" <=> \E q \in inflight : q.from = "main"
    /\ \A q, o \in inflight : q.from = "main" /\ o.from = "main" => q = o
    /\ \A q \in inflight : q.from = "main" => OfStep(q)
    /\ call # "unsent" => at \in Posting

\* The other senders.
Background == \A q \in inflight :
    /\ q.from = "periodic" => q.kind = "logs"
    /\ q.from = "nobody" /\ q.kind \in {"complete", "fail"} => orphaned

\* A failure report in flight finds its run as it passed the check, or was
\* overtaken by another one that its sender had left behind.
NoOvertaking ==
    ~orphaned => \A q \in inflight : q.kind = "fail" => status # "done"

\* Where the VM has nothing more to say, its last report has taken effect, is on
\* its way or has an excuse.
Silent ==
    at \in {"cleanup", "off", "gone"} \/ (at = "complete" /\ call = "ok")
        \/ (at \in OnHost /\ call \in {"ok", "error"})
Heard == status \in Ended \/ excuse \/ \E q \in inflight : q.kind = "fail"
LastReport == Silent => Heard

\* The step a log has to have reached when the runner is where it is.
Target == IF at \in {"logs", "complete", "cleanup"} THEN Last ELSE left
Reached == log.life = reboots /\ log.step >= Target
FinalPosted == at \in {"logs", "faillogs"} /\ call # "unsent"

\* upload_logs has run before the report, and not before the work.
UploadOrder ==
    /\ reported => uploaded
    /\ at \in Working \union {"apt", "pull"} => ~uploaded
    /\ at \in {"complete", "cleanup", "fail"} => uploaded

\* From the final upload on, whatever is stored or still to be stored is new
\* enough.
FinalLog ==
    /\ ~raced /\ uploaded => Reached
    /\ ~raced /\ FinalPosted => call # "error" /\ (call = "ok" => Reached)
    /\ ~raced /\ (uploaded \/ FinalPosted) =>
          \A q \in inflight : q.kind = "logs" => q.life = reboots /\ q.step >= Target

-----------------------------------------------------------------------------
(***************************************************************************)
(* Steps and requests.                                                     *)
(***************************************************************************)

LEMMA StepFacts ==
    /\ Len(Work) \in Nat /\ Last \in Nat /\ Last = Len(Work) + 1 /\ Len(Work) >= 1
    /\ Work[1] \in Working
    /\ \A s \in Working : /\ StepNo(s) \in 1 .. Len(Work)
                          /\ NextStep(s) \in Working \union {"logs"}
    /\ \A s : s \notin Working => StepNo(s) = Last
<1>1. Len(Work) \in Nat /\ Len(Work) >= 1
  BY RunnerAssumption, LenProperties
<1>2. Work[1] \in Working
  BY <1>1 DEF Working
<1>3. ASSUME NEW s \in Working PROVE StepNo(s) \in 1 .. Len(Work)
  <2>1. \E i \in 1 .. Len(Work) : Work[i] = s
    BY DEF Working
  <2> QED BY <2>1, Zenon DEF StepNo
<1>4. ASSUME NEW s \in Working PROVE NextStep(s) \in Working \union {"logs"}
  <2>1. CASE StepNo(s) = Len(Work)
    BY <2>1 DEF NextStep
  <2>2. CASE StepNo(s) # Len(Work)
    <3>1. StepNo(s) + 1 \in 1 .. Len(Work)
      BY <1>1, <1>3, <2>2
    <3> QED BY <2>2, <3>1 DEF NextStep, Working
  <2> QED BY <2>1, <2>2
<1> QED BY <1>1, <1>2, <1>3, <1>4 DEF Last, StepNo

LEMMA WorkingFacts ==
    \A s \in Working : s \notin {"logs", "complete", "cleanup", "faillogs", "fail", "pullfailed",
                                 "unit", "apt", "pull", "off", "gone", "none"}
  BY PhasesAssumption

LEMMA KindFacts ==
    /\ \A s \in Working : Kind(s) = "phase"
    /\ Kind("logs") = "logs" /\ Kind("faillogs") = "logs" /\ Kind("complete") = "complete"
    /\ Kind("fail") = "fail" /\ Kind("unit") = "fail" /\ Kind("pullfailed") = "fail"
    /\ \A s \in Posting : Kind(s) \in Kinds /\ (Kind(s) = "phase" => s \in Working)
<1>1. \A s \in Working : Kind(s) = "phase"
  BY WorkingFacts, Zenon DEF Kind, OnHost
<1>2. "logs" \notin Working /\ "faillogs" \notin Working /\ "complete" \notin Working
      /\ "fail" \notin Working /\ "unit" \notin Working /\ "pullfailed" \notin Working
  BY WorkingFacts
<1>3. Kind("logs") = "logs" /\ Kind("faillogs") = "logs"
  BY <1>2 DEF Kind, OnHost
<1>4. Kind("complete") = "complete"
  BY <1>2 DEF Kind, OnHost
<1>5. Kind("fail") = "fail" /\ Kind("unit") = "fail" /\ Kind("pullfailed") = "fail"
  BY <1>2 DEF Kind, OnHost
<1> QED BY <1>1, <1>3, <1>4, <1>5 DEF Posting, InRunner, OnHost, Kinds

\* A request its sender has left behind.
LeftBehind(q) == [q EXCEPT !.from = "nobody"]

LEMMA LeftBehindFacts ==
    ASSUME NEW q \in Requests
    PROVE  /\ LeftBehind(q) \in Requests /\ LeftBehind(q).from = "nobody"
           /\ LeftBehind(q).kind = q.kind /\ LeftBehind(q).step = q.step
           /\ LeftBehind(q).life = q.life
  BY DEF LeftBehind, Requests

LEMMA OrphanFacts ==
    ASSUME inflight \subseteq Requests, NEW S
    PROVE  /\ Orphan(S) \subseteq Requests
           /\ \A q \in Orphan(S) :
                 \/ q \in inflight /\ q \notin S
                 \/ \E o \in inflight : /\ o \in S /\ q.from = "nobody"
                                        /\ q.kind = o.kind /\ q.step = o.step /\ q.life = o.life
           /\ \A o \in inflight : \E q \in Orphan(S) : q.kind = o.kind /\ (o \notin S => q = o)
<1>1. Orphan(S) = {IF q \in S THEN LeftBehind(q) ELSE q : q \in inflight}
  BY DEF Orphan, LeftBehind
<1>2. \A q \in inflight : q \in Requests
  OBVIOUS
<1> QED BY <1>1, <1>2, LeftBehindFacts

LEMMA RequestFacts ==
    ASSUME Typed, NEW kind \in Kinds, NEW from \in {"main", "periodic", "nobody"}
    PROVE  /\ Reading \in 1 .. Last
           /\ Request(kind, from) \in Requests
           /\ Request(kind, from).kind = kind /\ Request(kind, from).from = from
           /\ Request(kind, from).step = Reading /\ Request(kind, from).life = reboots
<1>1. Reading \in 1 .. Last
  BY StepFacts DEF Typed, Reading
<1>2. reboots \in 0 .. MaxFaults
  BY RunnerAssumption DEF Typed
<1> QED BY <1>1, <1>2 DEF Request, Requests, Kinds

-----------------------------------------------------------------------------
(***************************************************************************)
(* Type correctness.                                                       *)
(***************************************************************************)

LEMMA FaultTyped ==
    ASSUME Typed, Fault
    PROVE  faults' \in 0 .. MaxFaults /\ faults' = faults + 1 /\ reboots + 1 <= faults'
  BY RunnerAssumption DEF Typed, Fault

\* The requests in flight have their type after a step that takes one off, or
\* leaves some behind.
LEMMA FlightTyped ==
    ASSUME Typed, NEW S, inflight' = Orphan(S) \/ inflight' \subseteq inflight
    PROVE  /\ inflight' \subseteq Requests
           /\ \A q \in inflight' : q.kind \in PhaseKinds => q.step \in 1 .. Len(Work)
  BY OrphanFacts DEF Typed

\* The steps that move the VM on without a request.
LEMMA VmTyped ==
    ASSUME Typed,
           \/ Apt \/ PullOk \/ PullFails \/ WorkDone \/ LogsDone
           \/ CompleteDone \/ CleanupDone \/ HostReported
    PROVE  Typed'
<1> USE StepFacts, WorkingFacts
        DEF Typed, rowVars, boundVars, historyVars, VmSteps, InRunner, OnHost, Goto, Answered
<1>1. CASE Apt BY <1>1 DEF Apt
<1>2. CASE PullOk BY <1>2 DEF PullOk
<1>3. CASE PullFails BY <1>3 DEF PullFails
<1>4. CASE WorkDone
  <2>1. at' \in Working \union {"logs"}
    BY <1>4 DEF WorkDone
  <2> QED BY <1>4, <2>1 DEF WorkDone
<1>5. CASE LogsDone BY <1>5 DEF LogsDone
<1>6. CASE CompleteDone BY <1>6 DEF CompleteDone
<1>7. CASE CleanupDone BY <1>7, FlightTyped DEF CleanupDone
<1>8. CASE HostReported BY <1>8 DEF HostReported
<1> QED BY <1>1, <1>2, <1>3, <1>4, <1>5, <1>6, <1>7, <1>8

LEMMA ToFailTyped ==
    ASSUME Typed, WorkFails \/ CompleteFails \/ CleanupFails
    PROVE  Typed'
<1>1. ToFail /\ UNCHANGED <<rowVars, inflight, boundVars, reported, raced, orphaned>>
      /\ UNCHANGED <<adrift, reaped, excuse>>
  BY DEF WorkFails, CompleteFails, CleanupFails
<1>2. left' \in 1 .. Last /\ at' \in {"faillogs", "fail"} /\ call' = "unsent"
  BY <1>1, StepFacts DEF ToFail, Goto
<1> QED BY <1>1, <1>2 DEF ToFail, Typed, rowVars, boundVars, VmSteps, InRunner

LEMMA LeaveTyped ==
    ASSUME Typed, FailReported \/ Killed \/ Reboot \/ VmGone
    PROVE  Typed'
<1>1. ASSUME NEW next \in VmSteps \ {"faillogs", "fail"}, NEW background \in {"off", "asleep"},
             LeaveRunner(next, background)
      PROVE  /\ inflight' \subseteq Requests
             /\ \A q \in inflight' : q.kind \in PhaseKinds => q.step \in 1 .. Len(Work)
             /\ at' = next /\ call' = "unsent"
             /\ periodic' = background /\ orphaned' \in BOOLEAN
             /\ adrift' \in BOOLEAN /\ reaped' \in BOOLEAN
  BY <1>1, FlightTyped DEF LeaveRunner, Goto, Typed
<1> USE DEF Typed, rowVars, boundVars
<1>2. CASE FailReported \/ Killed
  BY <1>1, <1>2 DEF FailReported, Killed, VmSteps, OnHost
<1>3. CASE Reboot
  <2>1. Work[1] \in VmSteps \ {"faillogs", "fail"}
    BY StepFacts, WorkingFacts DEF VmSteps, InRunner
  <2>2. /\ inflight' \subseteq Requests
        /\ \A q \in inflight' : q.kind \in PhaseKinds => q.step \in 1 .. Len(Work)
        /\ at' = Work[1] /\ call' = "unsent" /\ periodic' = "asleep" /\ orphaned' \in BOOLEAN
        /\ adrift' \in BOOLEAN /\ reaped' \in BOOLEAN
    BY <1>1, <1>3, <2>1 DEF Reboot
  <2>3. left' \in 0 .. Last /\ ~(at' \in {"faillogs", "fail"}) /\ at' \in VmSteps
    BY <1>3, <2>1, <2>2, StepFacts DEF Reboot
  <2>4. faults' \in 0 .. MaxFaults /\ reboots' \in Nat /\ reboots' <= faults'
    BY <1>3, FaultTyped DEF Reboot
  <2>5. /\ uploaded' \in BOOLEAN /\ raced' \in BOOLEAN
        /\ reported' \in BOOLEAN /\ excuse' \in BOOLEAN
    BY <1>3 DEF Reboot
  <2> HIDE DEF VmSteps
  <2> QED BY <1>3, <2>2, <2>3, <2>4, <2>5 DEF Reboot
<1>4. CASE VmGone
  BY <1>1, <1>4 DEF VmGone, VmSteps
<1> QED BY <1>2, <1>3, <1>4

LEMMA RequestTyped ==
    ASSUME Typed, Post \/ PostLost \/ AnswerLost \/ PeriodicPost \/ PeriodicAnswerLost
    PROVE  Typed'
<1> USE DEF Typed, rowVars, boundVars, historyVars
<1>1. CASE Post
  <2>1. /\ Request(Kind(at), "main") \in Requests
        /\ Request(Kind(at), "main").kind = Kind(at) /\ Request(Kind(at), "main").step = Reading
    BY <1>1, KindFacts, RequestFacts DEF Post
  <2>2. inflight' \subseteq Requests /\ call' \in {"waits", "error"}
    BY <1>1, <2>1 DEF Post
  <2>3. Kind(at) = "phase" => Reading \in 1 .. Len(Work)
    BY <1>1, KindFacts, StepFacts, WorkingFacts DEF Post, Reading
  <2>4. \A q \in inflight' : q.kind \in PhaseKinds => q.step \in 1 .. Len(Work)
    <3>1. Kind(at) \in PhaseKinds => Kind(at) = "phase"
      BY <1>1, KindFacts DEF Post, Kinds, PhaseKinds
    <3> QED BY <1>1, <2>1, <2>3, <3>1 DEF Post
  <2> QED BY <1>1, <2>2, <2>4 DEF Post
<1>2. CASE PostLost BY <1>2, FaultTyped DEF PostLost
<1>3. CASE AnswerLost BY <1>3, FaultTyped, FlightTyped DEF AnswerLost
<1>4. CASE PeriodicPost
  <2>1. Request("logs", "periodic") \in Requests /\ Request("logs", "periodic").kind = "logs"
    BY RequestFacts DEF Kinds
  <2> QED BY <1>4, <2>1 DEF PeriodicPost, PhaseKinds
<1>5. CASE PeriodicAnswerLost BY <1>5, FaultTyped, FlightTyped DEF PeriodicAnswerLost
<1> QED BY <1>1, <1>2, <1>3, <1>4, <1>5

\* A phase report after its second check: the same one, and its sender still
\* waits.
Written(q) == [q EXCEPT !.kind = "write"]

LEMMA WrittenFacts ==
    ASSUME NEW q \in Requests
    PROVE  /\ Written(q) \in Requests /\ Written(q).kind = "write"
           /\ Written(q).from = q.from /\ Written(q).step = q.step
           /\ Written(q).life = q.life
  BY DEF Written, Requests

\* The one step of a handler that does not answer its request.
PassesOn(q) == CheckPhase(q) /\ status = "running"

LEMMA PassFacts ==
    ASSUME NEW q, PassesOn(q)
    PROVE  /\ inflight' = (inflight \ {q}) \union {Written(q)} /\ q.kind = "phase"
           /\ UNCHANGED <<rowVars, vmVars, boundVars, historyVars>>
  BY DEF PassesOn, CheckPhase, PassOn, Written, handlerUnchanged, rowVars, vmVars

LEMMA HandleTyped ==
    ASSUME Typed, NEW q \in inflight, Handle(q)
    PROVE  Typed'
<1> USE DEF Typed, handlerUnchanged, boundVars, historyVars, Answer
<1>0. q \in Requests /\ q.step \in 1 .. Last /\ q.life \in 0 .. MaxFaults
  BY DEF Requests
<1>1. CASE WritePhase(q)
  <2>1. Work[q.step] \in Working
    BY <1>1 DEF WritePhase, Working, PhaseKinds
  <2> QED BY <1>1, <2>1 DEF WritePhase
<1>2. CASE TakeLogs(q)
  BY <1>0, <1>2 DEF TakeLogs
<1>3. CASE TakeComplete(q) BY <1>3 DEF TakeComplete, Ended
<1>4. CASE RaiseComplete(q) BY <1>4 DEF RaiseComplete
<1>5. CASE TakeFail(q) BY <1>5 DEF TakeFail, Ended
<1>6. CASE CheckPhase(q) /\ ~PassesOn(q) BY <1>6 DEF CheckPhase, PassesOn
<1>7. CASE PassesOn(q)
  <2>1. /\ inflight' = (inflight \ {q}) \union {Written(q)} /\ q.kind = "phase"
        /\ UNCHANGED <<rowVars, vmVars, boundVars, historyVars>>
    BY <1>7, PassFacts
  <2>2. inflight' \subseteq Requests
    BY <2>1, WrittenFacts
  <2>3. \A o \in inflight' : o.kind \in PhaseKinds => o.step \in 1 .. Len(Work)
    BY <2>1, WrittenFacts DEF PhaseKinds
  <2> QED BY <2>1, <2>2, <2>3 DEF rowVars, vmVars
<1> QED BY <1>1, <1>2, <1>3, <1>4, <1>5, <1>6, <1>7 DEF Handle

LEMMA OutsideTyped ==
    ASSUME Typed, TaskSetRunning \/ Reap \/ ReapEnd \/ UNCHANGED vars
    PROVE  Typed'
<1> USE DEF Typed, vmVars, boundVars, historyVars
<1>1. CASE TaskSetRunning BY <1>1 DEF TaskSetRunning
<1>2. CASE Reap BY <1>2, FaultTyped DEF Reap, Ended
<1>3. CASE ReapEnd
  <2>1. status' = "failed" /\ reaper' = FALSE
    BY <1>3 DEF ReapEnd
  <2>2. UNCHANGED <<started, phase, log, inflight, at, call, periodic, uploaded, jq, enabled>>
    BY <1>3 DEF ReapEnd
  <2>3. UNCHANGED <<reboots, faults, left, reported, raced, orphaned, adrift, reaped, excuse>>
    BY <1>3 DEF ReapEnd
  <2>4. /\ reboots' \in Nat /\ faults' \in 0 .. MaxFaults /\ reboots' <= faults'
        /\ left' \in 0 .. Last /\ (at' \in {"faillogs", "fail"} => left' \in 1 .. Last)
    BY <2>2, <2>3
  <2>5. /\ log'.step \in 0 .. Last /\ log'.life \in 0 .. MaxFaults
        /\ log'.step = 0 \/ log'.body = Stored(Posted(LogSize[log'.step]))
        /\ inflight' \subseteq Requests
        /\ \A q \in inflight' : q.kind \in PhaseKinds => q.step \in 1 .. Len(Work)
    BY <2>2
  <2>6. /\ started' \in BOOLEAN /\ reaper' \in BOOLEAN /\ uploaded' \in BOOLEAN
        /\ jq' \in BOOLEAN /\ enabled' \in BOOLEAN /\ reported' \in BOOLEAN
        /\ raced' \in BOOLEAN /\ orphaned' \in BOOLEAN /\ adrift' \in BOOLEAN
        /\ reaped' \in BOOLEAN /\ excuse' \in BOOLEAN
    BY <2>1, <2>2, <2>3
  <2>7. /\ status' \in {"provisioning", "running"} \union Ended
        /\ phase' \in {"none"} \union Working /\ at' \in VmSteps
        /\ call' \in {"unsent", "waits", "ok", "error"}
        /\ periodic' \in {"off", "asleep", "waits"}
    BY <2>1, <2>2 DEF Ended
  <2> QED BY <2>4, <2>5, <2>6, <2>7
<1>4. CASE UNCHANGED vars
  <2> USE <1>4 DEF vars, rowVars
  <2> QED OBVIOUS
<1> QED BY <1>1, <1>2, <1>3, <1>4

LEMMA InitTyped == Init => Typed
<1> HAVE Init
<1>1. log.step = 0 /\ log.life = 0
  BY DEF Init, NoLog
<1>2. 0 \in 0 .. Last /\ 0 \in 0 .. MaxFaults
  BY StepFacts, RunnerAssumption
<1>3. /\ status \in {"provisioning", "running"} \union Ended
      /\ phase \in {"none"} \union Working /\ inflight = {} /\ at \in VmSteps
      /\ at \notin {"faillogs", "fail"}
  BY DEF Init, VmSteps
<1>4. reboots = 0 /\ faults = 0 /\ left = 0
  BY DEF Init
<1>5. /\ call \in {"unsent", "waits", "ok", "error"}
      /\ periodic \in {"off", "asleep", "waits"}
      /\ started \in BOOLEAN /\ reaper \in BOOLEAN /\ uploaded \in BOOLEAN /\ jq \in BOOLEAN
      /\ enabled \in BOOLEAN /\ reported \in BOOLEAN /\ raced \in BOOLEAN
      /\ orphaned \in BOOLEAN /\ adrift \in BOOLEAN /\ reaped \in BOOLEAN
      /\ excuse \in BOOLEAN
  BY DEF Init
<1> QED BY <1>1, <1>2, <1>3, <1>4, <1>5 DEF Typed

LEMMA NextTyped == Typed /\ [Next]_vars => Typed'
<1> SUFFICES ASSUME Typed, [Next]_vars PROVE Typed'
  OBVIOUS
<1>1. ASSUME NEW q \in inflight, Handle(q) PROVE Typed'
  BY <1>1, HandleTyped
<1> QED BY <1>1, VmTyped, ToFailTyped, LeaveTyped, RequestTyped, OutsideTyped DEF Next, VmStep

\* Every variable has its type.
THEOREM RunnerTypeCorrect == Spec => []TypeOK
<1>1. Typed => TypeOK
  <2> HAVE Typed
  <2>1. reboots \in 0 .. MaxFaults
    BY RunnerAssumption DEF Typed
  <2> QED BY <2>1 DEF Typed, TypeOK
<1> QED BY <1>1, InitTyped, NextTyped, PTL DEF Spec

\* Whatever its size, the stored log is the log of its step, or its beginning
\* and its end, within the limit.
THEOREM StoredLogIsFaithfulHolds == Spec => []StoredLogIsFaithful
<1>1. Typed => StoredLogIsFaithful
  <2> SUFFICES ASSUME Typed, log.step # 0 PROVE FaithfulCut(LogSize[log.step], log.body)
    BY DEF StoredLogIsFaithful
  <2>1. log.step \in 1 .. Last
    BY StepFacts DEF Typed
  <2>2. LogSize[log.step] \in Nat
    BY <2>1, RunnerAssumption
  <2> QED BY <2>2, TwoCutsAreFaithful DEF Typed
<1> QED BY <1>1, InitTyped, NextTyped, PTL DEF Spec

-----------------------------------------------------------------------------
(***************************************************************************)
(* Who has a request in flight.                                            *)
(***************************************************************************)

Flight == Foreground /\ Background

LEMMA PostingFacts ==
    /\ {"apt", "pull", "cleanup", "off", "gone"} \intersect Posting = {}
    /\ Posting = Working \union {"logs", "complete", "faillogs", "fail", "pullfailed", "unit"}
  BY WorkingFacts DEF Posting, InRunner, OnHost

\* A phase report is posted in a step that has one.
LEMMA PhaseOfStep ==
    ASSUME at \in Posting, NEW q, OfStep(q), q.kind \in PhaseKinds
    PROVE  Kind(at) = "phase"
  BY KindFacts DEF OfStep, Kinds, PhaseKinds

\* The steps of the VM that leave the requests alone.
Quiet ==
    \/ Apt \/ PullOk \/ PullFails \/ WorkDone \/ WorkFails \/ LogsDone
    \/ CompleteDone \/ CompleteFails \/ CleanupFails \/ HostReported

LEMMA QuietFacts ==
    ASSUME Typed, Foreground, Quiet
    PROVE  /\ call # "waits" /\ call' = "unsent"
           /\ UNCHANGED <<inflight, status, log, reboots, orphaned, excuse, raced, reported>>
<1> USE PostingFacts
        DEF rowVars, boundVars, historyVars, Foreground, Typed, Goto, Answered, ToFail
<1>1. CASE Apt BY <1>1 DEF Apt
<1>2. CASE PullOk BY <1>2 DEF PullOk
<1>3. CASE PullFails BY <1>3 DEF PullFails
<1>4. CASE WorkDone BY <1>4 DEF WorkDone
<1>5. CASE WorkFails BY <1>5 DEF WorkFails
<1>6. CASE LogsDone BY <1>6 DEF LogsDone
<1>7. CASE CompleteDone BY <1>7 DEF CompleteDone
<1>8. CASE CompleteFails BY <1>8 DEF CompleteFails
<1>9. CASE CleanupFails BY <1>9 DEF CleanupFails
<1>10. CASE HostReported BY <1>10 DEF HostReported
<1> QED BY <1>1, <1>2, <1>3, <1>4, <1>5, <1>6, <1>7, <1>8, <1>9, <1>10 DEF Quiet

\* The steps that end the container: what they leave in flight is nobody's.
Leaving == FailReported \/ Killed \/ Reboot \/ VmGone

LEMMA LeavingFacts ==
    ASSUME Typed, Leaving
    PROVE  /\ call' = "unsent" /\ inflight' = Orphan(Of("main") \union Of("periodic"))
           /\ orphaned' = (orphaned \/ \E q \in Of("main") : q.kind \in {"complete", "fail"})
           /\ UNCHANGED <<status, log>>
<1> USE DEF LeaveRunner, Goto, rowVars
<1>1. CASE FailReported BY <1>1 DEF FailReported
<1>2. CASE Killed BY <1>2 DEF Killed
<1>3. CASE Reboot BY <1>3 DEF Reboot
<1>4. CASE VmGone BY <1>4 DEF VmGone
<1> QED BY <1>1, <1>2, <1>3, <1>4 DEF Leaving

\* What a step leaves in flight when it turns the requests of S into nobody's.
LEMMA OrphanFlight ==
    ASSUME Typed, Flight, NEW S, inflight' = Orphan(S), S \subseteq inflight,
           orphaned => orphaned',
           \A q \in S : q.kind \in {"complete", "fail"} => orphaned'
    PROVE  /\ Background'
           /\ \A q \in inflight' : q.from = "main" => q \in inflight /\ q \notin S
           /\ \A q \in inflight : q.from = "main" /\ q \notin S => q \in inflight'
<1>1. /\ inflight \subseteq Requests
      /\ \A q \in inflight' :
                 \/ q \in inflight /\ q \notin S
                 \/ \E o \in inflight : /\ o \in S /\ q.from = "nobody"
                                        /\ q.kind = o.kind /\ q.step = o.step /\ q.life = o.life
      /\ \A o \in inflight : \E q \in inflight' : q.kind = o.kind /\ (o \notin S => q = o)
  BY OrphanFacts DEF Typed
<1>2. Background'
  BY <1>1 DEF Flight, Background
<1> QED BY <1>1, <1>2

LEMMA FlightQuiet ==
    ASSUME Typed, Flight, Quiet \/ CleanupDone \/ Leaving
    PROVE  Flight'
<1>1. CASE Quiet
  BY <1>1, QuietFacts DEF Flight, Foreground, Background
<1>2. CASE CleanupDone
  <2>1. /\ call # "waits" /\ call' = "unsent" /\ UNCHANGED orphaned
        /\ inflight' = Orphan(Of("periodic"))
    BY <1>2, PostingFacts DEF CleanupDone, Goto, historyVars, Flight, Foreground
  <2>2. Of("periodic") \subseteq inflight /\ \A q \in Of("periodic") : q.kind = "logs"
    BY DEF Of, Flight, Background
  <2>3. /\ Background'
        /\ \A q \in inflight' : q.from = "main" => q \in inflight
    BY <2>1, <2>2, OrphanFlight
  <2>4. ~ \E q \in inflight' : q.from = "main"
    BY <2>1, <2>3 DEF Flight, Foreground
  <2> QED BY <2>1, <2>3, <2>4 DEF Flight, Foreground
<1>3. CASE Leaving
  <2> DEFINE S == Of("main") \union Of("periodic")
  <2>1. /\ call' = "unsent" /\ inflight' = Orphan(S)
        /\ orphaned' = (orphaned \/ \E q \in Of("main") : q.kind \in {"complete", "fail"})
    BY <1>3, LeavingFacts
  <2>2. S \subseteq inflight /\ \A q \in inflight : q.from = "main" => q \in S
    BY DEF Of
  <2>3. \A q \in S : q.kind \in {"complete", "fail"} => q \in Of("main")
    BY DEF Of, Flight, Background
  <2> HIDE DEF S
  <2>4. /\ Background'
        /\ \A q \in inflight' : q.from = "main" => q \in inflight /\ q \notin S
    BY <2>1, <2>2, <2>3, OrphanFlight
  <2>5. ~ \E q \in inflight' : q.from = "main"
    BY <2>2, <2>4
  <2> QED BY <2>1, <2>4, <2>5 DEF Flight, Foreground
<1> QED BY <1>1, <1>2, <1>3

LEMMA FlightRequest ==
    ASSUME Typed, Flight, Post \/ PostLost \/ AnswerLost \/ PeriodicPost \/ PeriodicAnswerLost
    PROVE  Flight'
<1>1. CASE Post
  <2> DEFINE new == Request(Kind(at), "main")
  <2>1. new.kind = Kind(at) /\ new.from = "main"
    BY <1>1, KindFacts, RequestFacts DEF Post
  <2>2. ~ \E q \in inflight : q.from = "main"
    BY <1>1 DEF Post, Flight, Foreground
  <2>3. UNCHANGED <<at, orphaned>> /\ at \in Posting
    BY <1>1 DEF Post
  <2>4. \/ inflight' = inflight \union {new} /\ call' = "waits"
        \/ inflight' = inflight /\ call' = "error"
    BY <1>1 DEF Post
  <2> HIDE DEF new
  <2> QED BY <2>1, <2>2, <2>3, <2>4 DEF Flight, Foreground, Background, OfStep
<1>2. CASE PostLost
  BY <1>2 DEF PostLost, Flight, Foreground, Background, OfStep
<1>3. CASE AnswerLost
  <2>1. /\ call = "waits" /\ call' = "error" /\ UNCHANGED at /\ inflight' = Orphan(Of("main"))
        /\ orphaned' = (orphaned \/ Kind(at) \in {"complete", "fail"})
    BY <1>3 DEF AnswerLost
  <2>2. Of("main") \subseteq inflight /\ \A q \in inflight : q.from = "main" => q \in Of("main")
    BY DEF Of
  <2>3. \A q \in Of("main") : q.kind = Kind(at) \/ q.kind = "write"
    BY DEF Of, Flight, Foreground, OfStep
  <2>4. /\ Background'
        /\ \A q \in inflight' : q.from = "main" => q \in inflight /\ q \notin Of("main")
    BY <2>1, <2>2, <2>3, OrphanFlight
  <2>5. ~ \E q \in inflight' : q.from = "main"
    BY <2>2, <2>4
  <2> QED BY <2>1, <2>4, <2>5 DEF Flight, Foreground
<1>4. CASE PeriodicPost
  <2> DEFINE new == Request("logs", "periodic")
  <2>1. new.kind = "logs" /\ new.from = "periodic"
    BY RequestFacts DEF Kinds
  <2>2. UNCHANGED <<at, call, orphaned>> /\ inflight' = inflight \union {new}
    BY <1>4 DEF PeriodicPost, historyVars
  <2> HIDE DEF new
  <2> QED BY <2>1, <2>2 DEF Flight, Foreground, Background, OfStep
<1>5. CASE PeriodicAnswerLost
  <2>1. UNCHANGED <<at, call, orphaned>> /\ inflight' = Orphan(Of("periodic"))
    BY <1>5 DEF PeriodicAnswerLost
  <2>2. /\ Of("periodic") \subseteq inflight
        /\ \A q \in Of("periodic") : q.kind = "logs" /\ q.from = "periodic"
    BY DEF Of, Flight, Background
  <2>3. /\ Background'
        /\ \A q \in inflight' : q.from = "main" => q \in inflight
        /\ \A q \in inflight : q.from = "main" => q \in inflight'
    BY <2>1, <2>2, OrphanFlight
  <2> QED BY <2>1, <2>3 DEF Flight, Foreground, OfStep
<1> QED BY <1>1, <1>2, <1>3, <1>4, <1>5

\* Every other step of a handler takes its request off, and answers it.
LEMMA HandleFacts ==
    ASSUME NEW q \in inflight, Handle(q), ~PassesOn(q)
    PROVE  /\ inflight' = inflight \ {q}
           /\ call' \in (IF q.from = "main" THEN {"ok", "error"} ELSE {call})
           /\ UNCHANGED handlerUnchanged
<1> USE DEF Answer
<1>1. CASE WritePhase(q) BY <1>1 DEF WritePhase
<1>2. CASE TakeLogs(q) BY <1>2 DEF TakeLogs
<1>3. CASE TakeComplete(q)
  <2>1. PICK answer \in {"ok", "error"} : Answer(q, answer)
    BY <1>3 DEF TakeComplete
  <2> QED BY <1>3, <2>1 DEF TakeComplete
<1>4. CASE RaiseComplete(q) BY <1>4 DEF RaiseComplete
<1>5. CASE TakeFail(q) BY <1>5 DEF TakeFail
<1>6. CASE CheckPhase(q) BY <1>6 DEF CheckPhase, PassesOn
<1> QED BY <1>1, <1>2, <1>3, <1>4, <1>5, <1>6 DEF Handle

LEMMA FlightPassed ==
    ASSUME Typed, Flight, NEW q \in inflight, PassesOn(q)
    PROVE  Flight'
<1>1. /\ inflight' = (inflight \ {q}) \union {Written(q)} /\ q.kind = "phase"
      /\ UNCHANGED <<at, call, orphaned>>
  BY PassFacts DEF vmVars, historyVars
<1>2. q \in Requests
  BY DEF Typed
<1>3. Written(q).kind = "write" /\ Written(q).from = q.from
  BY <1>2, WrittenFacts
<1>4. \A o \in inflight : o.from = "main" => OfStep(o)
  BY DEF Flight, Foreground
<1>5. ASSUME NEW o \in inflight', o.from = "main" PROVE OfStep(o)'
  <2>1. CASE o \in inflight
    BY <1>1, <1>4, <1>5, <2>1 DEF OfStep, Kind
  <2>2. CASE o = Written(q)
    <3>1. Kind(at) = "phase"
      BY <1>1, <1>3, <1>4, <1>5, <2>2, KindFacts DEF OfStep
    <3> QED BY <1>1, <1>3, <2>2, <3>1 DEF OfStep, Kind
  <2> QED BY <1>1, <2>1, <2>2
<1>6. Background'
  BY <1>1, <1>3 DEF Flight, Background
<1>7. \A o, p \in inflight' : o.from = "main" /\ p.from = "main" => o = p
  BY <1>1, <1>3 DEF Flight, Foreground
<1>8. (call' = "waits" <=> \E o \in inflight' : o.from = "main")
  BY <1>1, <1>3 DEF Flight, Foreground
<1>9. call' # "unsent" => at' \in Posting
  BY <1>1 DEF Flight, Foreground
<1> QED BY <1>5, <1>6, <1>7, <1>8, <1>9 DEF Flight, Foreground

LEMMA FlightHandle ==
    ASSUME Typed, Flight, NEW q \in inflight, Handle(q)
    PROVE  Flight'
<1> SUFFICES ASSUME ~PassesOn(q) PROVE Flight'
  BY FlightPassed
<1>1. /\ inflight' = inflight \ {q} /\ UNCHANGED <<at, orphaned>>
      /\ call' \in (IF q.from = "main" THEN {"ok", "error"} ELSE {call})
  BY HandleFacts DEF handlerUnchanged, historyVars
<1>2. Background'
  BY <1>1 DEF Flight, Background
<1>3. CASE q.from = "main"
  <2>1. call = "waits" /\ at \in Posting
    BY <1>3 DEF Flight, Foreground
  <2>2. ~ \E o \in inflight' : o.from = "main"
    BY <1>1, <1>3 DEF Flight, Foreground
  <2> QED BY <1>1, <1>2, <1>3, <2>1, <2>2 DEF Flight, Foreground
<1>4. CASE q.from # "main"
  BY <1>1, <1>2, <1>4 DEF Flight, Foreground, OfStep
<1> QED BY <1>3, <1>4

LEMMA FlightOutside ==
    ASSUME Flight, TaskSetRunning \/ Reap \/ ReapEnd \/ UNCHANGED vars
    PROVE  Flight'
<1>1. UNCHANGED <<inflight, at, call, orphaned>>
  BY DEF TaskSetRunning, Reap, ReapEnd, vars, vmVars, historyVars
<1> QED BY <1>1 DEF Flight, Foreground, Background, OfStep

LEMMA FlightNext == Typed /\ Flight /\ [Next]_vars => Flight'
<1> SUFFICES ASSUME Typed, Flight, [Next]_vars PROVE Flight'
  OBVIOUS
<1>1. ASSUME NEW q \in inflight, Handle(q) PROVE Flight'
  BY <1>1, FlightHandle
<1> QED BY <1>1, FlightQuiet, FlightRequest, FlightOutside DEF Next, VmStep, Quiet, Leaving

-----------------------------------------------------------------------------
(***************************************************************************)
(* A report is not overtaken unnoticed.                                    *)
(***************************************************************************)

\* The kinds in flight do not change when requests become nobody's.
LEMMA OrphanKinds ==
    ASSUME Typed, NEW S, inflight' = Orphan(S)
    PROVE  /\ \A q \in inflight' : \E o \in inflight : q.kind = o.kind
           /\ \A o \in inflight : \E q \in inflight' : q.kind = o.kind
  BY OrphanFacts DEF Typed

\* Only the handlers of /complete and /fail, set_running and the watchdog
\* write the status.
LEMMA StatusKept ==
    ASSUME Typed, Flight,
           \/ Quiet \/ CleanupDone \/ Leaving
           \/ Post \/ PostLost \/ AnswerLost \/ PeriodicPost \/ PeriodicAnswerLost
           \/ UNCHANGED vars
    PROVE  UNCHANGED status /\ (orphaned => orphaned')
<1> USE DEF rowVars, historyVars
<1>1. CASE Quiet BY <1>1, QuietFacts DEF Flight
<1>2. CASE CleanupDone BY <1>2 DEF CleanupDone
<1>3. CASE Leaving BY <1>3, LeavingFacts
<1>4. CASE Post BY <1>4 DEF Post
<1>5. CASE PostLost BY <1>5 DEF PostLost
<1>6. CASE AnswerLost BY <1>6 DEF AnswerLost
<1>7. CASE PeriodicPost BY <1>7 DEF PeriodicPost
<1>8. CASE PeriodicAnswerLost BY <1>8 DEF PeriodicAnswerLost
<1>9. CASE UNCHANGED vars BY <1>9 DEF vars
<1> QED BY <1>1, <1>2, <1>3, <1>4, <1>5, <1>6, <1>7, <1>8, <1>9

LEMMA OvertakingNext ==
    Typed /\ Flight /\ NoOvertaking /\ [Next]_vars => NoOvertaking'
<1> SUFFICES ASSUME Typed, Flight, NoOvertaking, [Next]_vars, ~orphaned',
                    NEW r \in inflight', r.kind = "fail"
             PROVE  status' # "done"
  BY DEF NoOvertaking
<1>1. CASE Quiet \/ UNCHANGED vars
  <2>1. UNCHANGED <<inflight, status, orphaned>>
    BY <1>1, QuietFacts DEF Flight, vars, rowVars, historyVars
  <2> QED BY <2>1 DEF NoOvertaking
<1>2. CASE CleanupDone \/ Leaving \/ AnswerLost \/ PeriodicAnswerLost
  <2>1. \E S : inflight' = Orphan(S)
    <3>1. CASE CleanupDone BY <3>1 DEF CleanupDone
    <3>2. CASE Leaving BY <3>2, LeavingFacts
    <3>3. CASE AnswerLost BY <3>3 DEF AnswerLost
    <3>4. CASE PeriodicAnswerLost BY <3>4 DEF PeriodicAnswerLost
    <3> QED BY <1>2, <3>1, <3>2, <3>3, <3>4
  <2>2. \E o \in inflight : o.kind = "fail"
    BY <2>1, OrphanKinds
  <2>3. UNCHANGED status /\ (orphaned => orphaned')
    BY <1>2, StatusKept
  <2> QED BY <2>2, <2>3 DEF NoOvertaking
<1>3. CASE Post
  <2> DEFINE new == Request(Kind(at), "main")
  <2>1. new.kind = Kind(at)
    BY <1>3, KindFacts, RequestFacts DEF Post
  <2>2. /\ \/ inflight' = inflight
           \/ inflight' = inflight \union {new} /\ Accepts(Kind(at))
        /\ UNCHANGED <<status, orphaned>>
    BY <1>3 DEF Post, rowVars
  <2> HIDE DEF new
  <2>3. CASE r \in inflight
    BY <2>2, <2>3 DEF NoOvertaking
  <2>4. CASE r = new /\ Accepts(Kind(at))
    BY <2>1, <2>2, <2>4 DEF Accepts
  <2> QED BY <2>2, <2>3, <2>4
<1>4. CASE PostLost
  <2>1. UNCHANGED <<inflight, status, orphaned>>
    BY <1>4 DEF PostLost, rowVars
  <2> QED BY <2>1 DEF NoOvertaking
<1>5. CASE PeriodicPost
  <2> DEFINE new == Request("logs", "periodic")
  <2>1. new.kind = "logs"
    BY RequestFacts DEF Kinds
  <2>2. inflight' = inflight \union {new} /\ UNCHANGED <<status, orphaned>>
    BY <1>5 DEF PeriodicPost, rowVars, historyVars
  <2> HIDE DEF new
  <2> QED BY <2>1, <2>2 DEF NoOvertaking
<1>6. ASSUME NEW q \in inflight, PassesOn(q) PROVE status' # "done"
  <2>1. /\ inflight' = (inflight \ {q}) \union {Written(q)}
        /\ UNCHANGED <<status, orphaned>> /\ q \in Requests
    BY <1>6, PassFacts DEF rowVars, historyVars, Typed
  <2>2. r \in inflight
    BY <2>1, WrittenFacts
  <2> QED BY <2>1, <2>2 DEF NoOvertaking
<1>7. ASSUME NEW q \in inflight, Handle(q), ~PassesOn(q) PROVE status' # "done"
  <2>1. inflight' = inflight \ {q} /\ UNCHANGED orphaned
    BY <1>7, HandleFacts DEF handlerUnchanged, historyVars
  <2>2. r \in inflight /\ r # q /\ status # "done" /\ r.from = "main"
    <3>1. r \in inflight /\ r # q
      BY <2>1
    <3>2. r \in Requests
      BY <3>1 DEF Typed
    <3>3. r.from \in {"main", "periodic", "nobody"}
      BY <3>2 DEF Requests
    <3> QED BY <2>1, <3>1, <3>3 DEF Flight, Background, NoOvertaking
  <2>3. CASE TakeComplete(q)
    <3>1. q \in Requests
      BY DEF Typed
    <3>2. q.from \in {"main", "periodic", "nobody"} /\ q.kind = "complete"
      BY <2>3, <3>1 DEF Requests, TakeComplete
    <3>3. q.from = "main"
      BY <2>1, <3>2 DEF Flight, Background
    <3> QED BY <2>2, <3>3 DEF Flight, Foreground
  <2>4. CASE ~TakeComplete(q)
    BY <1>7, <2>2, <2>4
    DEF Handle, CheckPhase, WritePhase, TakeLogs, RaiseComplete, TakeFail
  <2> QED BY <2>3, <2>4
<1>8. CASE TaskSetRunning
  BY <1>8 DEF TaskSetRunning
<1>9. CASE Reap \/ ReapEnd
  BY <1>9 DEF Reap, ReapEnd
<1> QED BY <1>1, <1>2, <1>3, <1>4, <1>5, <1>6, <1>7, <1>8, <1>9
        DEF Next, VmStep, Quiet, Leaving

LEMMA FlightInit == Init => Flight /\ NoOvertaking
  BY PostingFacts DEF Init, Flight, Foreground, Background, NoOvertaking

Settled == Typed /\ Flight /\ NoOvertaking

LEMMA SettledAlways == Spec => []Settled
<1>1. Init => Settled
  BY InitTyped, FlightInit DEF Settled
<1>2. Settled /\ [Next]_vars => Settled'
  BY NextTyped, FlightNext, OvertakingNext DEF Settled
<1> QED BY <1>1, <1>2, PTL DEF Spec

\* A completed run is not turned into a failed one, unless a /complete or /fail
\* was left behind by its sender or a watchdog had claimed the run first.
THEOREM DoneStaysHolds == Spec => DoneStays
<1>1. ASSUME Settled, [Next]_vars, status = "done", status' = "failed"
      PROVE  orphaned \/ reaper
  <2>1. ~UNCHANGED status
    BY <1>1
  <2>2. \/ \E q \in inflight : Handle(q)
        \/ TaskSetRunning \/ Reap \/ ReapEnd
    BY <1>1, <2>1, StatusKept DEF Settled, Next, VmStep, Quiet, Leaving
  <2>3. ASSUME NEW q \in inflight, Handle(q) PROVE orphaned
    <3>1. q.kind = "fail"
      BY <1>1, <2>1, <2>3
      DEF Handle, CheckPhase, WritePhase, TakeLogs, TakeComplete, RaiseComplete, TakeFail
    <3> QED BY <1>1, <3>1 DEF Settled, NoOvertaking
  <2>4. CASE TaskSetRunning BY <1>1, <2>4 DEF TaskSetRunning
  <2>5. CASE Reap BY <1>1, <2>5 DEF Reap, Ended
  <2>6. CASE ReapEnd BY <2>6 DEF ReapEnd
  <2> QED BY <2>2, <2>3, <2>4, <2>5, <2>6
<1>2. Settled /\ [Next]_vars =>
          [status = "done" /\ status' = "failed" => orphaned \/ reaper]_vars
  BY <1>1
<1> QED BY <1>2, SettledAlways, PTL DEF Spec, DoneStays

-----------------------------------------------------------------------------
(***************************************************************************)
(* The phase of an ended run.                                              *)
(***************************************************************************)

\* Why a phase report may outlive its run.
Loose == orphaned \/ adrift \/ reaped

\* A phase report has a runner that waits for it, or has been left behind; when
\* the run has ended, there is none without a reason.
Steady ==
    /\ \A q \in inflight : q.kind \in PhaseKinds => q.from = "main" \/ adrift
    /\ reaper => reaped
    /\ status \in Ended /\ ~Loose => \A q \in inflight : q.kind \notin PhaseKinds

\* The reasons stay.
LEMMA LooseStays ==
    ASSUME Typed, Flight, [Next]_vars
    PROVE  (orphaned => orphaned') /\ (adrift => adrift') /\ (reaped => reaped')
<1> USE DEF historyVars
<1>1. CASE Quiet
  <2>1. CASE Apt \/ PullOk \/ PullFails BY <2>1 DEF Apt, PullOk, PullFails
  <2>2. CASE WorkDone \/ WorkFails \/ LogsDone BY <2>2 DEF WorkDone, WorkFails, LogsDone
  <2>3. CASE CompleteDone \/ CompleteFails BY <2>3 DEF CompleteDone, CompleteFails
  <2>4. CASE CleanupFails \/ HostReported BY <2>4 DEF CleanupFails, HostReported
  <2> QED BY <1>1, <2>1, <2>2, <2>3, <2>4 DEF Quiet
<1>2. CASE CleanupDone BY <1>2 DEF CleanupDone
<1>3. CASE Leaving
  <2>1. ASSUME NEW next, NEW background, LeaveRunner(next, background)
        PROVE  (orphaned => orphaned') /\ (adrift => adrift') /\ UNCHANGED reaped
    <3>1. orphaned \in BOOLEAN /\ adrift \in BOOLEAN
      BY DEF Typed
    <3> QED BY <2>1, <3>1, Zenon DEF LeaveRunner
  <2> QED BY <1>3, <2>1 DEF Leaving, FailReported, Killed, Reboot, VmGone
<1>4. CASE Post \/ PostLost BY <1>4 DEF Post, PostLost
<1>5. CASE AnswerLost \/ PeriodicAnswerLost
  <2>1. CASE AnswerLost
    <3>1. /\ orphaned' = (orphaned \/ Kind(at) \in {"complete", "fail"})
          /\ adrift' = (adrift \/ Kind(at) = "phase") /\ UNCHANGED reaped
      BY <2>1 DEF AnswerLost
    <3> QED BY <3>1, Zenon
  <2>2. CASE PeriodicAnswerLost BY <2>2 DEF PeriodicAnswerLost
  <2> QED BY <1>5, <2>1, <2>2
<1>6. CASE PeriodicPost BY <1>6 DEF PeriodicPost
<1>7. ASSUME NEW q \in inflight, Handle(q) PROVE UNCHANGED historyVars
  BY <1>7, PassFacts, HandleFacts DEF handlerUnchanged
<1>8. CASE TaskSetRunning \/ Reap \/ ReapEnd BY <1>8 DEF TaskSetRunning, Reap, ReapEnd
<1>9. CASE UNCHANGED vars BY <1>9 DEF vars
<1> QED BY <1>1, <1>2, <1>3, <1>4, <1>5, <1>6, <1>7, <1>8, <1>9
        DEF Next, VmStep, Quiet, Leaving

\* What a step that leaves requests behind has of them afterwards.
LEMMA SteadyOrphan ==
    ASSUME Typed, Flight, Steady, [Next]_vars, UNCHANGED <<status, reaper>>,
           NEW S, inflight' = Orphan(S),
           \A q \in S : q.kind \in PhaseKinds => adrift'
    PROVE  Steady'
<1>1. \A q \in inflight' : \/ q \in inflight /\ q \notin S
                           \/ \E o \in inflight : o \in S /\ q.kind = o.kind
  BY OrphanFacts DEF Typed
<1>2. (reaped => reaped') /\ (adrift => adrift') /\ (Loose => Loose')
  BY LooseStays DEF Loose
<1>3. \A q \in inflight' : q.kind \in PhaseKinds => q.from = "main" \/ adrift'
  BY <1>1, <1>2 DEF Steady
<1> QED BY <1>1, <1>2, <1>3 DEF Steady

\* A step after which nothing is in flight that was not, but for other kinds of
\* requests.
LEMMA SteadyKept ==
    ASSUME Typed, Flight, Steady, [Next]_vars, reaper' => reaper \/ reaped',
           \A q \in inflight' : q.kind \in PhaseKinds => q \in inflight,
           status' \in Ended => status \in Ended \/ Loose'
    PROVE  Steady'
  BY LooseStays DEF Steady, Loose

LEMMA SteadyMain ==
    ASSUME Typed, Flight, Steady, Post \/ PostLost \/ AnswerLost, [Next]_vars
    PROVE  Steady'
<1>1. UNCHANGED <<status, reaper>>
  BY DEF Post, PostLost, AnswerLost, rowVars
<1>2. CASE Post
  <2> DEFINE new == Request(Kind(at), "main")
  <2>1. new.kind = Kind(at) /\ new.from = "main" /\ Kind(at) \in Kinds
    BY <1>2, KindFacts, RequestFacts DEF Post
  <2>2. /\ \/ inflight' = inflight
           \/ inflight' = inflight \union {new} /\ Accepts(Kind(at))
        /\ UNCHANGED <<orphaned, adrift, reaped>>
    BY <1>2 DEF Post
  <2> HIDE DEF new
  <2>3. Kind(at) \in PhaseKinds /\ Accepts(Kind(at)) => status \notin Ended
    BY <2>1 DEF Accepts, Kinds, PhaseKinds, Ended
  <2> QED BY <1>1, <2>1, <2>2, <2>3 DEF Steady, Loose
<1>3. CASE PostLost
  <2>1. UNCHANGED inflight
    BY <1>3 DEF PostLost
  <2> QED BY <1>1, <2>1, SteadyKept
<1>4. CASE AnswerLost
  <2>1. /\ inflight' = Orphan(Of("main"))
        /\ adrift' = (adrift \/ Kind(at) = "phase")
    BY <1>4 DEF AnswerLost
  <2>2. \A q \in Of("main") : OfStep(q)
    BY DEF Of, Flight, Foreground
  <2>3. \A q \in Of("main") : q.kind \in PhaseKinds => adrift'
    BY <1>4, <2>1, <2>2, PhaseOfStep DEF Flight, Foreground, AnswerLost
  <2> QED BY <1>1, <2>1, <2>3, SteadyOrphan
<1> QED BY <1>2, <1>3, <1>4

LEMMA SteadyLeaving ==
    ASSUME Typed, Flight, Steady, Leaving \/ CleanupDone \/ PeriodicAnswerLost, [Next]_vars
    PROVE  Steady'
<1>1. \A q \in Of("periodic") : q.kind \notin PhaseKinds
  BY DEF Of, Flight, Background, PhaseKinds
<1>2. CASE Leaving
  <2>1. /\ inflight' = Orphan(Of("main") \union Of("periodic"))
        /\ adrift' = (adrift \/ \E q \in Of("main") : q.kind \in {"phase", "write"})
        /\ UNCHANGED <<status, reaper>>
    BY <1>2 DEF Leaving, FailReported, Killed, Reboot, VmGone, LeaveRunner, rowVars
  <2>2. \A q \in Of("main") \union Of("periodic") : q.kind \in PhaseKinds => adrift'
    BY <1>1, <2>1 DEF PhaseKinds
  <2> QED BY <2>1, <2>2, SteadyOrphan
<1>3. CASE CleanupDone \/ PeriodicAnswerLost
  <2>1. inflight' = Orphan(Of("periodic")) /\ UNCHANGED <<status, reaper>>
    BY <1>3 DEF CleanupDone, PeriodicAnswerLost, rowVars
  <2> QED BY <1>1, <2>1, SteadyOrphan
<1> QED BY <1>2, <1>3

LEMMA SteadyHandle ==
    ASSUME Typed, Flight, Steady, NEW q \in inflight, Handle(q), [Next]_vars
    PROVE  Steady'
<1>0. q \in Requests
  BY DEF Typed
<1>1. CASE PassesOn(q)
  <2>1. /\ inflight' = (inflight \ {q}) \union {Written(q)} /\ q.kind = "phase"
        /\ UNCHANGED <<status, reaper, orphaned, adrift, reaped>> /\ status = "running"
    BY <1>1, PassFacts DEF rowVars, historyVars, PassesOn
  <2>2. Written(q).from = q.from
    BY <1>0, WrittenFacts
  <2>3. q.from = "main" \/ adrift
    BY <2>1 DEF Steady, PhaseKinds
  <2> QED BY <2>1, <2>2, <2>3 DEF Steady, Loose, Ended
<1>2. CASE ~PassesOn(q)
  <2>1. inflight' = inflight \ {q} /\ UNCHANGED <<reaper, orphaned, adrift, reaped>>
    BY <1>2, HandleFacts DEF handlerUnchanged, historyVars
  <2>2. CASE UNCHANGED status
    BY <2>1, <2>2, SteadyKept
  <2>3. CASE q.kind \in {"complete", "fail"}
    <3>1. q.from \in {"main", "periodic", "nobody"}
      BY <1>0 DEF Requests
    <3>2. q.from = "main" \/ orphaned
      BY <2>3, <3>1 DEF Flight, Background
    <3>3. CASE orphaned
      BY <2>1, <3>3, SteadyKept DEF Loose
    <3>4. CASE q.from = "main"
      <4>1. \A o \in inflight' : o.kind \in PhaseKinds => adrift'
        BY <2>1, <3>4 DEF Steady, Flight, Foreground
      <4> QED BY <2>1, <4>1 DEF Steady, Loose
    <3> QED BY <3>2, <3>3, <3>4
  <2>4. UNCHANGED status \/ q.kind \in {"complete", "fail"}
    BY DEF Handle, CheckPhase, WritePhase, TakeLogs, TakeComplete, RaiseComplete, TakeFail
  <2> QED BY <2>2, <2>3, <2>4
<1> QED BY <1>1, <1>2

LEMMA SteadyNext == Typed /\ Flight /\ Steady /\ [Next]_vars => Steady'
<1> SUFFICES ASSUME Typed, Flight, Steady, [Next]_vars PROVE Steady'
  OBVIOUS
<1>1. CASE Quiet
  <2>1. UNCHANGED <<inflight, status>>
    BY <1>1, QuietFacts DEF Flight
  <2>2. UNCHANGED reaper
    BY <1>1 DEF Quiet, Apt, PullOk, PullFails, WorkDone, WorkFails, LogsDone,
                CompleteDone, CompleteFails, CleanupFails, HostReported, rowVars
  <2> QED BY <2>1, <2>2, SteadyKept
<1>2. CASE PeriodicPost
  <2>1. Request("logs", "periodic").kind = "logs"
    BY RequestFacts DEF Kinds
  <2>2. /\ inflight' = inflight \union {Request("logs", "periodic")}
        /\ UNCHANGED <<status, reaper>>
    BY <1>2 DEF PeriodicPost, rowVars
  <2> QED BY <2>1, <2>2, SteadyKept DEF PhaseKinds
<1>3. ASSUME NEW q \in inflight, Handle(q) PROVE Steady'
  BY <1>3, SteadyHandle
<1>4. CASE TaskSetRunning
  BY <1>4, SteadyKept DEF TaskSetRunning, Ended
<1>5. CASE Reap
  BY <1>5, SteadyKept DEF Reap, Loose
<1>6. CASE ReapEnd
  <2>1. reaped /\ UNCHANGED <<reaped, inflight>> /\ reaper' = FALSE
    BY <1>6 DEF ReapEnd, Steady, historyVars
  <2> QED BY <2>1, SteadyKept DEF Loose
<1>7. CASE UNCHANGED vars
  <2>1. UNCHANGED <<inflight, status, reaper>>
    BY <1>7 DEF vars, rowVars
  <2> QED BY <2>1, SteadyKept
<1> QED BY <1>1, <1>2, <1>3, <1>4, <1>5, <1>6, <1>7, SteadyMain, SteadyLeaving
        DEF Next, VmStep, Quiet, Leaving

\* Only the commit of a phase report moves the phase.
LEMMA PhaseKept ==
    ASSUME Typed, Flight, [Next]_vars
    PROVE  UNCHANGED phase \/ \E q \in inflight : q.kind = "write"
<1> USE DEF rowVars
<1>1. ASSUME NEW q \in inflight, Handle(q)
      PROVE  UNCHANGED phase \/ q.kind = "write"
  BY <1>1
  DEF Handle, CheckPhase, WritePhase, TakeLogs, TakeComplete, RaiseComplete, TakeFail
<1>2. CASE VmStep
  <2>1. CASE Apt \/ PullOk \/ PullFails BY <2>1 DEF Apt, PullOk, PullFails
  <2>2. CASE Post \/ WorkDone \/ WorkFails BY <2>2 DEF Post, WorkDone, WorkFails
  <2>3. CASE LogsDone \/ CompleteDone BY <2>3 DEF LogsDone, CompleteDone
  <2>4. CASE CompleteFails \/ CleanupDone BY <2>4 DEF CompleteFails, CleanupDone
  <2>5. CASE CleanupFails \/ FailReported \/ HostReported
    BY <2>5 DEF CleanupFails, FailReported, HostReported
  <2> QED BY <1>2, <2>1, <2>2, <2>3, <2>4, <2>5 DEF VmStep
<1>3. CASE PeriodicPost \/ PostLost \/ AnswerLost \/ PeriodicAnswerLost
  BY <1>3 DEF PeriodicPost, PostLost, AnswerLost, PeriodicAnswerLost
<1>4. CASE Killed \/ Reboot \/ VmGone
  BY <1>4 DEF Killed, Reboot, VmGone
<1>5. CASE TaskSetRunning \/ Reap \/ ReapEnd
  BY <1>5 DEF TaskSetRunning, Reap, ReapEnd
<1>6. CASE UNCHANGED vars
  BY <1>6 DEF vars
<1> QED BY <1>1, <1>2, <1>3, <1>4, <1>5, <1>6 DEF Next

\* No report passes its second check once the run has ended.
LEMMA NothingPasses ==
    ASSUME Typed, Flight, [Next]_vars, status \in Ended
    PROVE  Checked' \subseteq Checked
<1> SUFFICES ASSUME NEW q \in inflight', q.kind = "write"
             PROVE  \E o \in inflight : o.kind = "write" /\ o.step = q.step /\ o.life = q.life
  BY DEF Checked
<1>1. CASE \E S : inflight' = Orphan(S)
  BY <1>1, OrphanFacts DEF Typed
<1>2. CASE q \in inflight
  BY <1>2
<1>3. CASE Post
  <2>1. Request(Kind(at), "main").kind \in Kinds
    BY <1>3, KindFacts, RequestFacts DEF Post
  <2> QED BY <1>2, <1>3, <2>1 DEF Post, Kinds
<1>4. CASE PeriodicPost
  <2>1. Request("logs", "periodic").kind = "logs"
    BY RequestFacts DEF Kinds
  <2> QED BY <1>2, <1>4, <2>1 DEF PeriodicPost
<1>5. ASSUME NEW r \in inflight, Handle(r) PROVE q \in inflight
  <2>1. ~PassesOn(r)
    BY DEF PassesOn, Ended
  <2> QED BY <1>5, <2>1, HandleFacts
<1>6. CASE Leaving
  BY <1>1, <1>6, LeavingFacts
<1>7. CASE CleanupDone \/ AnswerLost \/ PeriodicAnswerLost
  BY <1>1, <1>7 DEF CleanupDone, AnswerLost, PeriodicAnswerLost
<1>8. CASE Quiet \/ PostLost \/ TaskSetRunning \/ Reap \/ ReapEnd \/ UNCHANGED vars
  <2>1. UNCHANGED inflight
    BY <1>8, QuietFacts DEF Flight, PostLost, TaskSetRunning, Reap, ReapEnd, vars
  <2> QED BY <1>2, <2>1
<1> QED BY <1>2, <1>3, <1>4, <1>5, <1>6, <1>7, <1>8 DEF Next, VmStep, Quiet, Leaving

\* Once a run has ended, no phase report passes its check, and none that had
\* passed before moves the phase, unless a watchdog ended the run under its
\* runner or the runner had stopped waiting for an answer.
THEOREM PhaseFrozenHolds == Spec => PhaseFrozen
<1> DEFINE Inv == Typed /\ Flight /\ Steady
<1>1. Init => Inv
  BY InitTyped, FlightInit DEF Init, Steady
<1>2. Inv /\ [Next]_vars => Inv'
  BY NextTyped, FlightNext, SteadyNext
<1>3. Inv /\ [Next]_vars =>
          [(status \in Ended) =>
              /\ Checked' \subseteq Checked
              /\ phase' # phase => orphaned \/ adrift \/ reaped]_vars
  <2> SUFFICES ASSUME Inv, [Next]_vars, status \in Ended
               PROVE  /\ Checked' \subseteq Checked
                      /\ phase' # phase => orphaned \/ adrift \/ reaped
    OBVIOUS
  <2>1. Checked' \subseteq Checked
    BY NothingPasses
  <2>2. phase' # phase => orphaned \/ adrift \/ reaped
    BY PhaseKept DEF Steady, Loose, PhaseKinds
  <2> QED BY <2>1, <2>2
<1> HIDE DEF Inv
<1> QED BY <1>1, <1>2, <1>3, PTL DEF Spec, PhaseFrozen

-----------------------------------------------------------------------------
(***************************************************************************)
(* The last report.                                                        *)
(***************************************************************************)

LEMMA SilentQuiet ==
    ASSUME Typed, Flight, LastReport, Quiet \/ CleanupDone \/ Leaving
    PROVE  LastReport'
<1> SUFFICES ASSUME Silent' PROVE Heard'
  BY DEF LastReport, Silent
<1>1. at' \notin Working \union {"logs", "faillogs", "fail", "apt", "pull"}
  <2>1. Typed'
    BY VmTyped, ToFailTyped, LeaveTyped DEF Quiet, Leaving
  <2> QED BY <2>1, WorkingFacts DEF Silent, OnHost
<1>2. CASE Quiet
  <2>1. call' = "unsent" /\ UNCHANGED <<inflight, status, excuse>>
    BY <1>2, QuietFacts DEF Flight
  <2>2. at' \in {"cleanup", "off", "gone"}
    BY <2>1 DEF Silent
  <2>3. CASE CompleteDone \/ HostReported
    <3>1. Silent
      BY <2>3 DEF CompleteDone, HostReported, Answered, Silent
    <3> QED BY <2>1, <3>1 DEF LastReport, Silent, Heard
  <2>4. CASE ~(CompleteDone \/ HostReported)
    <3>1. CASE Apt \/ PullOk \/ PullFails
      BY <1>1, <2>2, <3>1, StepFacts DEF Apt, PullOk, PullFails, Goto
    <3>2. CASE WorkDone
      BY <1>1, <3>2, StepFacts DEF WorkDone, Goto
    <3>3. CASE LogsDone
      BY <2>2, <3>3 DEF LogsDone, Goto
    <3>4. CASE WorkFails \/ CompleteFails \/ CleanupFails
      BY <1>1, <3>4 DEF WorkFails, CompleteFails, CleanupFails, ToFail, Goto
    <3> QED BY <1>2, <2>4, <3>1, <3>2, <3>3, <3>4 DEF Quiet
  <2> QED BY <2>3, <2>4
<1>3. CASE CleanupDone
  <2>1. /\ Silent /\ UNCHANGED <<status, excuse>> /\ inflight' = Orphan(Of("periodic"))
    BY <1>3 DEF CleanupDone, Silent, rowVars, historyVars
  <2>2. \A o \in inflight : \E q \in inflight' : q.kind = o.kind
    BY <2>1, OrphanKinds
  <2> QED BY <2>1, <2>2 DEF LastReport, Silent, Heard
<1>4. CASE Leaving
  <2>1. call' = "unsent" /\ UNCHANGED status
    BY <1>4, LeavingFacts
  <2>2. CASE FailReported \/ Killed
    BY <2>1, <2>2 DEF Silent, FailReported, Killed, LeaveRunner, Goto
  <2>3. CASE Reboot
    BY <1>1, <2>3, StepFacts DEF Reboot, LeaveRunner, Goto
  <2>4. CASE VmGone
    BY <2>1, <2>4 DEF VmGone, Heard
  <2> QED BY <1>4, <2>2, <2>3, <2>4 DEF Leaving
<1> QED BY <1>2, <1>3, <1>4

LEMMA SilentRequest ==
    ASSUME Typed, Flight, LastReport,
           Post \/ PostLost \/ AnswerLost \/ PeriodicPost \/ PeriodicAnswerLost
    PROVE  LastReport'
<1> SUFFICES ASSUME Silent' PROVE Heard'
  BY DEF LastReport, Silent
<1>1. CASE Post
  <2>1. call' \in {"waits", "error"} /\ UNCHANGED <<at, status>> /\ at \in Posting
    BY <1>1 DEF Post, rowVars
  <2>2. at \in OnHost /\ call' = "error"
    BY <2>1, PostingFacts DEF Silent
  <2>3. Kind(at) = "fail"
    BY <2>2, KindFacts DEF OnHost
  <2>4. ~WellFormed \/ ~Accepts("fail")
    BY <1>1, <2>2, <2>3 DEF Post
  <2>5. CASE ~WellFormed
    BY <1>1, <2>5 DEF Post, Heard
  <2>6. CASE ~Accepts("fail")
    BY <2>1, <2>6 DEF Accepts, Typed, Heard
  <2> QED BY <2>4, <2>5, <2>6
<1>2. CASE PostLost
  <2>1. call' = "error" /\ UNCHANGED at /\ at \in Posting
    BY <1>2 DEF PostLost
  <2>2. at \in OnHost
    BY <2>1, PostingFacts DEF Silent
  <2> QED BY <1>2, <2>2 DEF PostLost, Heard
<1>3. CASE AnswerLost
  <2>1. /\ call = "waits" /\ call' = "error" /\ UNCHANGED at
        /\ inflight' = Orphan(Of("main"))
    BY <1>3 DEF AnswerLost
  <2>2. at \in OnHost
    BY <2>1, PostingFacts DEF Silent, Flight, Foreground
  <2>3. \E q \in inflight : q.kind = "fail"
    BY <2>1, <2>2, KindFacts DEF Flight, Foreground, OnHost, OfStep
  <2>4. \E q \in inflight' : q.kind = "fail"
    BY <2>1, <2>3, OrphanKinds
  <2> QED BY <2>4 DEF Heard
<1>4. CASE PeriodicPost
  <2>1. /\ UNCHANGED <<at, call, status, excuse>> /\ inflight \subseteq inflight'
    BY <1>4 DEF PeriodicPost, rowVars, historyVars
  <2> QED BY <2>1 DEF Silent, LastReport, Heard
<1>5. CASE PeriodicAnswerLost
  <2>1. /\ UNCHANGED <<at, call, status, excuse>> /\ inflight' = Orphan(Of("periodic"))
    BY <1>5 DEF PeriodicAnswerLost, rowVars
  <2>2. \A o \in inflight : \E q \in inflight' : q.kind = o.kind
    BY <2>1, OrphanKinds
  <2> QED BY <2>1, <2>2 DEF Silent, LastReport, Heard
<1> QED BY <1>1, <1>2, <1>3, <1>4, <1>5

LEMMA SilentHandle ==
    ASSUME Typed, Flight, LastReport, NEW q \in inflight, Handle(q)
    PROVE  LastReport'
<1> SUFFICES ASSUME Silent' PROVE Heard'
  BY DEF LastReport, Silent
<1>1. CASE TakeComplete(q) \/ TakeFail(q)
  BY <1>1 DEF TakeComplete, TakeFail, Heard, Ended
<1>2. CASE PassesOn(q)
  <2>1. /\ inflight' = (inflight \ {q}) \union {Written(q)} /\ q.kind = "phase"
        /\ UNCHANGED <<at, call, status, excuse>>
    BY <1>2, PassFacts DEF rowVars, vmVars, historyVars
  <2> QED BY <2>1 DEF LastReport, Silent, Heard
<1>3. CASE ~PassesOn(q) /\ ~(TakeComplete(q) \/ TakeFail(q))
  <2>1. /\ inflight' = inflight \ {q} /\ UNCHANGED <<at, excuse, status>>
        /\ call' \in (IF q.from = "main" THEN {"ok", "error"} ELSE {call})
    <3>1. UNCHANGED status
      BY <1>3 DEF Handle, CheckPhase, WritePhase, TakeLogs, RaiseComplete
    <3> QED BY <1>3, <3>1, HandleFacts DEF handlerUnchanged, historyVars
  <2>2. q.kind \in {"phase", "write", "logs", "complete"}
    BY <1>3 DEF Handle, CheckPhase, WritePhase, TakeLogs, RaiseComplete
  <2>3. Silent
    <3>1. CASE q.from # "main"
      BY <2>1, <3>1 DEF Silent
    <3>2. CASE q.from = "main"
      <4>1. OfStep(q) /\ at \in Posting
        BY <3>2 DEF Flight, Foreground
      <4>2. at \notin OnHost
        BY <2>2, <4>1, KindFacts DEF OnHost, OfStep
      <4>3. CASE at = "complete"
        <5>1. q.kind = "complete"
          BY <4>1, <4>3, KindFacts DEF OfStep
        <5>2. call' = "error"
          BY <1>3, <3>2, <5>1
          DEF Handle, CheckPhase, WritePhase, TakeLogs, RaiseComplete, Answer
        <5> QED BY <2>1, <4>2, <4>3, <5>2 DEF Silent
      <4>4. CASE at # "complete"
        BY <2>1, <4>1, <4>2, <4>4, PostingFacts DEF Silent
      <4> QED BY <4>3, <4>4
    <3> QED BY <3>1, <3>2
  <2> QED BY <2>1, <2>2, <2>3 DEF LastReport, Silent, Heard
<1> QED BY <1>1, <1>2, <1>3

LEMMA SilentNext == Typed /\ Flight /\ LastReport /\ [Next]_vars => LastReport'
<1> SUFFICES ASSUME Typed, Flight, LastReport, [Next]_vars PROVE LastReport'
  OBVIOUS
<1>1. ASSUME NEW q \in inflight, Handle(q) PROVE LastReport'
  BY <1>1, SilentHandle
<1>2. CASE TaskSetRunning
  <2>1. /\ UNCHANGED <<at, call, inflight>>
        /\ excuse' = (excuse \/ status # "provisioning")
    BY <1>2 DEF TaskSetRunning, vmVars
  <2> QED BY <2>1 DEF LastReport, Silent, Heard, Ended
<1>3. CASE Reap \/ ReapEnd
  BY <1>3 DEF Reap, ReapEnd, LastReport, Heard, Ended
<1>4. CASE UNCHANGED vars
  <2>1. UNCHANGED <<at, call, inflight, status, excuse>>
    BY <1>4 DEF vars, rowVars, vmVars, historyVars
  <2> QED BY <2>1 DEF LastReport, Silent, Heard
<1> QED BY <1>1, <1>2, <1>3, <1>4, SilentQuiet, SilentRequest
        DEF Next, VmStep, Quiet, Leaving

\* A VM that has gone quiet does not leave its run in `running` for the
\* watchdog, unless its last report was lost, refused or came too early.
THEOREM SilentNeedsExcuseHolds == Spec => []SilentNeedsExcuse
<1> DEFINE Inv == Typed /\ Flight /\ LastReport
<1>1. Init => Inv
  BY InitTyped, FlightInit DEF Init, LastReport, Silent, OnHost
<1>2. Inv /\ [Next]_vars => Inv'
  BY NextTyped, FlightNext, SilentNext
<1>3. Inv => SilentNeedsExcuse
  BY DEF LastReport, Silent, Heard, SilentNeedsExcuse, Ended
<1> HIDE DEF Inv
<1> QED BY <1>1, <1>2, <1>3, PTL DEF Spec

-----------------------------------------------------------------------------
(***************************************************************************)
(* The log comes before the report.                                        *)
(***************************************************************************)

LEMMA OrderQuiet ==
    ASSUME Typed, UploadOrder, Quiet \/ CleanupDone \/ Leaving
    PROVE  UploadOrder'
<1> USE WorkingFacts DEF UploadOrder, Goto, historyVars
<1>1. CASE Apt \/ PullOk \/ PullFails
  <2>1. at' \in Working \union {"pull", "pullfailed"} /\ UNCHANGED <<uploaded, reported>>
    BY <1>1, StepFacts DEF Apt, PullOk, PullFails
  <2>2. ~uploaded
    BY <1>1 DEF Apt, PullOk, PullFails
  <2> QED BY <2>1, <2>2
<1>2. CASE WorkDone
  BY <1>2, StepFacts DEF WorkDone
<1>3. CASE LogsDone
  BY <1>3 DEF LogsDone
<1>4. CASE CompleteDone \/ CleanupDone \/ HostReported
  BY <1>4 DEF CompleteDone, CleanupDone, HostReported, OnHost
<1>5. CASE WorkFails \/ CompleteFails \/ CleanupFails
  BY <1>5 DEF WorkFails, CompleteFails, CleanupFails, ToFail
<1>6. CASE FailReported \/ Killed \/ VmGone
  <2>1. at' \in {"unit", "gone"} /\ UNCHANGED <<uploaded, reported>>
    BY <1>6 DEF FailReported, Killed, VmGone, LeaveRunner
  <2> QED BY <2>1
<1>7. CASE Reboot
  BY <1>7, StepFacts DEF Reboot, LeaveRunner
<1> QED BY <1>1, <1>2, <1>3, <1>4, <1>5, <1>6, <1>7 DEF Quiet, Leaving

LEMMA OrderNext == Typed /\ UploadOrder /\ [Next]_vars => UploadOrder'
<1> SUFFICES ASSUME Typed, UploadOrder, [Next]_vars PROVE UploadOrder'
  OBVIOUS
<1>1. ASSUME NEW q \in inflight, Handle(q) PROVE UploadOrder'
  <2>1. UNCHANGED <<at, uploaded, reported>>
    BY <1>1, HandleFacts, PassFacts DEF handlerUnchanged, vmVars, historyVars
  <2> QED BY <2>1 DEF UploadOrder
<1>2. CASE Post \/ PostLost
  <2>1. UNCHANGED <<at, uploaded>> /\ (reported' => reported \/ Reports)
    BY <1>2 DEF Post, PostLost
  <2> QED BY <2>1 DEF Reports, UploadOrder
<1>3. CASE AnswerLost \/ PeriodicPost \/ PeriodicAnswerLost
  BY <1>3 DEF AnswerLost, PeriodicPost, PeriodicAnswerLost, historyVars, UploadOrder
<1>4. CASE TaskSetRunning \/ Reap \/ ReapEnd
  BY <1>4 DEF TaskSetRunning, Reap, ReapEnd, vmVars, historyVars, UploadOrder
<1>5. CASE UNCHANGED vars
  BY <1>5 DEF vars, vmVars, historyVars, UploadOrder
<1> QED BY <1>1, <1>2, <1>3, <1>4, <1>5, OrderQuiet DEF Next, VmStep, Quiet, Leaving

LEMMA TargetFacts ==
    ASSUME Typed
    PROVE  /\ Target \in 0 .. Last /\ left <= Target /\ log.step \in 0 .. Last
           /\ \A q \in inflight : q.step \in 1 .. Last
           /\ at \in {"logs", "faillogs", "complete", "cleanup", "fail"} => Reading = Target
<1>1. \A q \in inflight : q.step \in 1 .. Last
  BY DEF Typed, Requests
<1>2. Target \in 0 .. Last /\ left <= Target /\ log.step \in 0 .. Last
  BY StepFacts DEF Typed, Target
<1>3. at \in {"logs", "faillogs", "complete", "cleanup", "fail"} => Reading = Target
  BY StepFacts, WorkingFacts DEF Reading, Target
<1> QED BY <1>1, <1>2, <1>3

\* A step on which nothing new is posted or stored, and less is asked for.
LEMMA FinalKept ==
    ASSUME Typed, Typed', FinalLog, UNCHANGED <<log, reboots>>, raced => raced',
           Target' <= Target,
           uploaded' => uploaded \/ (FinalPosted /\ call \in {"ok", "error"}),
           FinalPosted' => FinalPosted /\ call' = call,
           \A q \in inflight' : q.kind = "logs" =>
               \E o \in inflight : o.kind = "logs" /\ o.life = q.life /\ o.step = q.step
    PROVE  FinalLog'
<1>1. /\ Target \in 0 .. Last /\ Target' \in 0 .. Last /\ log.step \in 0 .. Last
      /\ Last \in Nat /\ \A q \in inflight : q.step \in 1 .. Last
  <2>1. Target' \in 0 .. Last
    BY StepFacts DEF Typed, Target
  <2> QED BY <2>1, TargetFacts, StepFacts
<1>2. Reached => Reached'
  BY <1>1 DEF Reached
<1>3. ~raced' /\ uploaded' => Reached'
  BY <1>2 DEF FinalLog
<1>4. ~raced' /\ FinalPosted' => call' # "error" /\ (call' = "ok" => Reached')
  BY <1>2 DEF FinalLog
<1>5. ASSUME ~raced', uploaded' \/ FinalPosted', NEW q \in inflight', q.kind = "logs"
      PROVE  q.life = reboots' /\ q.step >= Target'
  <2>1. PICK o \in inflight : o.kind = "logs" /\ o.life = q.life /\ o.step = q.step
    BY <1>5
  <2>2. o.life = reboots /\ o.step >= Target
    BY <1>5, <2>1 DEF FinalLog
  <2>3. o.step >= Target'
    BY <1>1, <2>2
  <2> QED BY <2>1, <2>2, <2>3
<1> QED BY <1>3, <1>4, <1>5 DEF FinalLog

\* A step after which nothing is asked for.
LEMMA FinalFree ==
    ASSUME raced' \/ (~uploaded' /\ ~FinalPosted')
    PROVE  FinalLog'
  BY DEF FinalLog

LEMMA FinalQuiet ==
    ASSUME Typed, Typed', Flight, UploadOrder, FinalLog, Quiet \/ CleanupDone \/ Leaving
    PROVE  FinalLog'
<1>1. ~FinalPosted'
  <2>1. call' = "unsent"
    BY QuietFacts, LeavingFacts DEF CleanupDone, Goto, Flight
  <2> QED BY <2>1 DEF FinalPosted
<1>2. CASE ~uploaded'
  BY <1>1, <1>2, FinalFree
<1>3. CASE uploaded'
  <2>1. /\ UNCHANGED <<log, reboots>> /\ (raced => raced')
        /\ \A q \in inflight' : q.kind = "logs" =>
               \E o \in inflight : o.kind = "logs" /\ o.life = q.life /\ o.step = q.step
    <3>1. CASE Quiet
      BY <3>1, QuietFacts DEF Flight
    <3>2. CASE CleanupDone
      <4>1. inflight' = Orphan(Of("periodic")) /\ UNCHANGED <<log, reboots, raced>>
        BY <3>2 DEF CleanupDone, rowVars, boundVars, historyVars
      <4> QED BY <4>1, OrphanFacts DEF Typed
    <3>3. CASE Leaving
      <4>1. inflight' = Orphan(Of("main") \union Of("periodic"))
        BY <3>3, LeavingFacts
      <4>2. UNCHANGED <<log, reboots, raced>>
        BY <1>3, <3>3
        DEF Leaving, FailReported, Killed, Reboot, VmGone, rowVars, boundVars
      <4> QED BY <4>1, <4>2, OrphanFacts DEF Typed
    <3> QED BY <3>1, <3>2, <3>3
  <2>2. /\ Target' <= Target
        /\ uploaded \/ (FinalPosted /\ call \in {"ok", "error"})
    <3>0. left <= Last /\ left <= left /\ Last <= Last
      BY StepFacts DEF Typed
    <3> USE DEF Target, Goto, historyVars
    <3>1. CASE Apt \/ PullOk \/ PullFails \/ WorkDone
      BY <1>3, <3>1 DEF Apt, PullOk, PullFails, WorkDone, UploadOrder
    <3>2. CASE LogsDone
      <4>1. at \in {"logs", "faillogs"} /\ Answered /\ UNCHANGED left
            /\ at' = IF at = "logs" THEN "complete" ELSE "fail"
        BY <3>2 DEF LogsDone
      <4> QED BY <3>0, <4>1 DEF Answered, FinalPosted
    <3>3. CASE CompleteDone
      BY <1>3, <3>0, <3>3 DEF CompleteDone
    <3>4. CASE CleanupDone \/ HostReported
      BY <1>3, <3>0, <3>4 DEF CleanupDone, HostReported, OnHost
    <3>5. CASE WorkFails
      BY <1>3, <3>5 DEF WorkFails, ToFail, UploadOrder
    <3>6. CASE CompleteFails \/ CleanupFails
      <4>1. at \in {"complete", "cleanup"} /\ ToFail
        BY <3>6 DEF CompleteFails, CleanupFails
      <4>2. left' = Last
        BY <4>1, StepFacts, WorkingFacts DEF ToFail
      <4> QED BY <1>3, <3>0, <4>1, <4>2 DEF ToFail
    <3>7. CASE FailReported \/ Killed \/ VmGone
      <4>1. at' \in {"unit", "gone"} /\ UNCHANGED <<left, uploaded>>
        BY <3>7 DEF FailReported, Killed, VmGone, LeaveRunner
      <4> QED BY <1>3, <3>0, <4>1
    <3>8. CASE Reboot
      BY <1>3, <3>8 DEF Reboot
    <3> QED BY <3>1, <3>2, <3>3, <3>4, <3>5, <3>6, <3>7, <3>8 DEF Quiet, Leaving
  <2> QED BY <1>1, <2>1, <2>2, FinalKept
<1> QED BY <1>2, <1>3

LEMMA FinalRequest ==
    ASSUME Typed, Typed', Flight, UploadOrder, FinalLog,
           Post \/ PostLost \/ AnswerLost \/ PeriodicPost \/ PeriodicAnswerLost
    PROVE  FinalLog'
<1>1. UNCHANGED <<log, reboots, at, left, uploaded>> /\ (raced => raced')
  <2> USE DEF rowVars, boundVars, historyVars
  <2>1. CASE Post BY <2>1 DEF Post
  <2>2. CASE PostLost BY <2>2 DEF PostLost
  <2>3. CASE AnswerLost BY <2>3 DEF AnswerLost
  <2>4. CASE PeriodicPost BY <2>4 DEF PeriodicPost
  <2>5. CASE PeriodicAnswerLost BY <2>5 DEF PeriodicAnswerLost
  <2> QED BY <2>1, <2>2, <2>3, <2>4, <2>5
<1>2. Target' = Target /\ Target' <= Target /\ Last' = Last
  BY <1>1, TargetFacts, StepFacts DEF Target, Last
<1>3. CASE raced'
  BY <1>3, FinalFree
<1>4. CASE ~raced' /\ Post /\ Kind(at) = "logs"
  <2> DEFINE new == Request(Kind(at), "main")
  <2>1. new.kind = "logs" /\ new.life = reboots /\ new.step = Reading
    BY <1>4, RequestFacts DEF Kinds
  <2>2. at \in {"logs", "faillogs"}
    BY <1>4, KindFacts, PostingFacts DEF Post
  <2>3. Reading = Target
    BY <2>2, TargetFacts
  <2>4. ~raced /\ \A q \in inflight : q.kind # "logs"
    BY <1>4 DEF Post, RacesFinal
  <2>5. inflight' = inflight \union {new} /\ call' = "waits"
    BY <1>4, <2>2 DEF Post, WellFormed, Accepts, OnHost
  <2> HIDE DEF new
  <2>6. \A q \in inflight' : q.kind = "logs" => q.life = reboots' /\ q.step >= Target'
    BY <1>1, <1>2, <2>1, <2>3, <2>4, <2>5
  <2>7. uploaded' => Reached'
    BY <1>1, <1>2, <2>4 DEF FinalLog, Reached
  <2> QED BY <2>5, <2>6, <2>7 DEF FinalLog
<1>5. CASE ~raced' /\ PeriodicPost
  <2> DEFINE new == Request("logs", "periodic")
  <2>1. new.kind = "logs" /\ new.life = reboots /\ new.step = Reading
    BY RequestFacts DEF Kinds
  <2>2. inflight' = inflight \union {new} /\ UNCHANGED <<call, raced>> /\ at \in InRunner
    BY <1>5 DEF PeriodicPost, historyVars
  <2> HIDE DEF new
  <2>3. CASE at \in Working
    BY <1>1, <2>3, WorkingFacts, FinalFree DEF UploadOrder, FinalPosted
  <2>4. CASE at \notin Working
    <3>1. Reading = Target
      BY <2>2, <2>4, TargetFacts DEF InRunner
    <3>2. ASSUME uploaded' \/ FinalPosted', NEW q \in inflight', q.kind = "logs"
          PROVE  q.life = reboots' /\ q.step >= Target'
      BY <1>1, <1>2, <1>5, <2>1, <2>2, <3>1, <3>2 DEF FinalLog, FinalPosted
    <3>3. (uploaded' => Reached') /\ (FinalPosted' => call' # "error" /\ (call' = "ok" => Reached'))
      BY <1>1, <1>2, <1>5, <2>2 DEF FinalLog, FinalPosted, Reached
    <3> QED BY <3>2, <3>3 DEF FinalLog
  <2> QED BY <2>3, <2>4
<1>6. CASE ~raced' /\ (PostLost \/ AnswerLost \/ PeriodicAnswerLost \/ (Post /\ Kind(at) # "logs"))
  <2>1. Kind(at) # "logs"
    BY <1>6 DEF PostLost, AnswerLost, PeriodicAnswerLost
  <2>2. at \notin {"logs", "faillogs"}
    BY <2>1, KindFacts
  <2>3. ~FinalPosted'
    BY <1>1, <2>2 DEF FinalPosted
  <2>4. \A q \in inflight' : q.kind = "logs" =>
               \E o \in inflight : o.kind = "logs" /\ o.life = q.life /\ o.step = q.step
    <3>1. CASE PostLost
      BY <3>1 DEF PostLost
    <3>2. CASE AnswerLost
      BY <3>2, OrphanFacts DEF AnswerLost, Typed
    <3>3. CASE PeriodicAnswerLost
      BY <1>6, <3>3 DEF PeriodicAnswerLost
    <3>4. CASE Post
      <4>1. Request(Kind(at), "main").kind # "logs"
        BY <2>1, <3>4, KindFacts, RequestFacts DEF Post
      <4> QED BY <3>4, <4>1 DEF Post
    <3> QED BY <1>6, <3>1, <3>2, <3>3, <3>4
  <2> QED BY <1>1, <1>2, <2>3, <2>4, FinalKept
<1> QED BY <1>3, <1>4, <1>5, <1>6

LEMMA FinalHandle ==
    ASSUME Typed, Typed', Flight, FinalLog, NEW q \in inflight, Handle(q)
    PROVE  FinalLog'
<1>0. CASE PassesOn(q)
  <2>1. /\ inflight' = (inflight \ {q}) \union {Written(q)} /\ q \in Requests
        /\ UNCHANGED <<log, reboots, raced, at, left, call, uploaded>>
    BY <1>0, PassFacts DEF Typed, rowVars, vmVars, boundVars, historyVars
  <2>2. \A o \in inflight' : o.kind = "logs" => o \in inflight
    BY <2>1, WrittenFacts
  <2>3. Target' <= Target /\ (FinalPosted' => FinalPosted /\ call' = call)
    BY <2>1, TargetFacts, StepFacts DEF Target, Last, FinalPosted
  <2> QED BY <2>1, <2>2, <2>3, FinalKept
<1> SUFFICES ASSUME ~PassesOn(q) PROVE FinalLog'
  BY <1>0
<1>1. /\ inflight' = inflight \ {q} /\ UNCHANGED <<at, left, uploaded, reboots, raced>>
      /\ call' \in (IF q.from = "main" THEN {"ok", "error"} ELSE {call})
  BY HandleFacts DEF handlerUnchanged, boundVars, historyVars
<1>2. Target' = Target /\ Target' <= Target
  BY <1>1, TargetFacts, StepFacts DEF Target, Last
<1>3. q.from = "main" => call = "waits" /\ OfStep(q)
  BY DEF Flight, Foreground
<1>4. CASE TakeLogs(q)
  <2>1. log'.step = q.step /\ log'.life = q.life /\ q.kind = "logs"
        /\ (q.from = "main" => call' = "ok")
    BY <1>4 DEF TakeLogs, Answer
  <2>2. FinalPosted' => FinalPosted
    BY <1>1, <1>3 DEF FinalPosted
  <2>3. ASSUME ~raced', uploaded' \/ FinalPosted'
        PROVE  /\ Reached' /\ (FinalPosted' => call' # "error")
               /\ \A o \in inflight' : o.kind = "logs" => o.life = reboots' /\ o.step >= Target'
    <3>1. \A o \in inflight : o.kind = "logs" => o.life = reboots /\ o.step >= Target
      BY <1>1, <2>2, <2>3 DEF FinalLog
    <3>2. Reached'
      BY <1>1, <1>2, <2>1, <3>1 DEF Reached
    <3>3. FinalPosted' => call' # "error"
      BY <1>1, <2>1, <2>2, <2>3 DEF FinalLog
    <3> QED BY <1>1, <1>2, <3>1, <3>2, <3>3
  <2> QED BY <2>3 DEF FinalLog
<1>5. CASE ~TakeLogs(q)
  <2>1. UNCHANGED log /\ q.kind # "logs"
    BY <1>5
    DEF Handle, CheckPhase, WritePhase, TakeLogs, TakeComplete, RaiseComplete, TakeFail
  <2>2. FinalPosted' => FinalPosted /\ call' = call
    BY <1>1, <1>3, <2>1, KindFacts DEF FinalPosted, OfStep
  <2>3. \A o \in inflight' : o.kind = "logs" =>
            \E p \in inflight : p.kind = "logs" /\ p.life = o.life /\ p.step = o.step
    BY <1>1
  <2> QED BY <1>1, <1>2, <2>1, <2>2, <2>3, FinalKept
<1> QED BY <1>4, <1>5

LEMMA FinalNext ==
    Typed /\ Flight /\ UploadOrder /\ FinalLog /\ [Next]_vars => FinalLog'
<1> SUFFICES ASSUME Typed, Flight, UploadOrder, FinalLog, [Next]_vars PROVE FinalLog'
  OBVIOUS
<1>0. Typed'
  BY NextTyped
<1>1. ASSUME NEW q \in inflight, Handle(q) PROVE FinalLog'
  BY <1>0, <1>1, FinalHandle
<1>2. CASE TaskSetRunning \/ Reap \/ ReapEnd \/ UNCHANGED vars
  <2>1. UNCHANGED <<log, reboots, raced, at, left, call, uploaded, inflight>>
    BY <1>2 DEF TaskSetRunning, Reap, ReapEnd, vars, rowVars, vmVars, boundVars, historyVars
  <2>2. Target' <= Target /\ (FinalPosted' => FinalPosted /\ call' = call)
    BY <2>1, TargetFacts, StepFacts DEF Target, Last, FinalPosted
  <2> QED BY <1>0, <2>1, <2>2, FinalKept
<1> QED BY <1>0, <1>1, <1>2, FinalQuiet, FinalRequest DEF Next, VmStep, Quiet, Leaving

\* When a runner has reported, the stored log tells of this run of the script
\* and up to the step it was at, unless an upload was lost or overlapped the
\* final one.
THEOREM LogBeforeReportHolds == Spec => []LogBeforeReport
<1> DEFINE Inv == Typed /\ Flight /\ UploadOrder /\ FinalLog
<1>1. Init => Inv
  <2>1. Init => UploadOrder
    BY DEF Init, UploadOrder
  <2>2. Init => FinalLog
    BY DEF Init, FinalLog, FinalPosted
  <2> QED BY <2>1, <2>2, InitTyped, FlightInit
<1>2. Inv /\ [Next]_vars => Inv'
  BY NextTyped, FlightNext, OrderNext, FinalNext
<1>3. Inv => LogBeforeReport
  BY TargetFacts, StepFacts DEF UploadOrder, FinalLog, Reached, LogBeforeReport, Typed
<1> HIDE DEF Inv
<1> QED BY <1>1, <1>2, <1>3, PTL DEF Spec
===============================================================================
