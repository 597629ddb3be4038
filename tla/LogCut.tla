------------------------------- MODULE LogCut -------------------------------
(***************************************************************************)
(* How a runner log is shortened, twice: by runner.sh before it is posted, *)
(* and by RunService.attach_logs before it is stored.  A log is the        *)
(* sequence of its bytes; bytes are told apart by their position in the    *)
(* log, and a marker has none.                                             *)
(***************************************************************************)
EXTENDS Naturals, Sequences

CONSTANTS
    RunnerMax, RunnerHalf,  \* 5242880 and 2621440 in _post_logs
    ServerMax, ServerHalf,  \* _MAX_LOG_BYTES and _HALF_LOG_BYTES
    MarkerLength            \* of "[... truncated middle N bytes ...]"

ASSUME LogCutAssumption ==
    /\ {RunnerMax, RunnerHalf, ServerMax, ServerHalf, MarkerLength} \subseteq Nat
    /\ 2 * RunnerHalf <= RunnerMax
    /\ 2 * ServerHalf + MarkerLength <= ServerMax
    /\ ServerHalf <= RunnerHalf

MarkerByte == 0

LogOf(size) == [i \in 1 .. size |-> i]

Marker == [i \in 1 .. MarkerLength |-> MarkerByte]

\* Mutant: the tail begins where the head ends.
BugCut(body, max, half) ==
    IF Len(body) <= max THEN body
    ELSE SubSeq(body, 1, half) \o Marker \o SubSeq(body, half, Len(body))

\* A head, a marker and a tail of a body that is too long.
Cut(body, max, half) ==
    IF Len(body) <= max THEN body
    ELSE SubSeq(body, 1, half) \o Marker \o SubSeq(body, Len(body) - half + 1, Len(body))

Posted(size) == Cut(LogOf(size), RunnerMax, RunnerHalf)
Stored(body) == Cut(body, ServerMax, ServerHalf)

\* What an attached log is good for: it is bounded, and is the whole log or
\* begins and ends as the log does, without a byte twice.
FaithfulCut(size, body) ==
    /\ Len(body) <= ServerMax
    /\ \/ body = LogOf(size)
       \/ /\ Len(body) >= 2 * ServerHalf
          /\ \A i \in 1 .. ServerHalf :
                body[i] = i /\ body[Len(body) - ServerHalf + i] = size - ServerHalf + i
    /\ \A i, j \in 1 .. Len(body) : i < j /\ body[j] # MarkerByte => body[i] < body[j]
===============================================================================
