------------------------------- MODULE LogTail -------------------------------
(* The live log tail of a host card (components/HostCard.jsx): an effect that  *)
(* runs again whenever the card is expanded or collapsed, its job starts or    *)
(* stops running there, or another job takes its place.  It fetches at once    *)
(* and every five seconds; its clean-up marks what it has in flight.           *)
EXTENDS Naturals, FiniteSets

CONSTANTS
    TailJobs,       \* jobs the card may be running
    NoJob,          \* null
    MaxFetches      \* bound: log requests in flight

VARIABLES
    tailOpen,       \* expanded
    isRunning,      \* deriveHostState says running
    jobId,          \* currentJob?.id
    logOf,          \* the job whose lines are in logLines; NoJob when they are empty
    fetches,        \* [job, stage, cancelled]; two that are alike are one (bound)
    logLink         \* "up" or "down"

tailVars == <<tailOpen, isRunning, jobId, logOf, fetches, logLink>>

Init ==
    /\ tailOpen = FALSE /\ isRunning = FALSE /\ jobId = NoJob
    /\ logOf = NoJob /\ fetches = {} /\ logLink = "up"

Fetch(j) == [job |-> j, stage |-> "sent", cancelled |-> FALSE]
Cancelled == {[f EXCEPT !.cancelled = TRUE] : f \in fetches}
Tailing == tailOpen /\ isRunning /\ jobId # NoJob

\* The effect after a change of one of its three inputs.
Rerun ==
    IF tailOpen' /\ isRunning' /\ jobId' # NoJob
      THEN fetches' = Cancelled \union {Fetch(jobId')} /\ UNCHANGED logOf
      ELSE fetches' = Cancelled /\ logOf' = NoJob

Room == Cardinality(fetches) < MaxFetches

ToggleDetails ==
    /\ Room
    /\ tailOpen' = ~tailOpen
    /\ UNCHANGED <<isRunning, jobId, logLink>>
    /\ Rerun

\* Another status or list of backends.
CardChanges ==
    /\ Room
    /\ isRunning' \in BOOLEAN /\ jobId' \in TailJobs \union {NoJob}
    /\ isRunning' => jobId' # NoJob
    /\ <<isRunning, jobId>>' # <<isRunning, jobId>>
    /\ UNCHANGED <<tailOpen, logLink>>
    /\ Rerun

\* The interval of the effect that is in force.
TailTick ==
    /\ Tailing /\ Room
    /\ fetches' = fetches \union {Fetch(jobId)}
    /\ UNCHANGED <<tailOpen, isRunning, jobId, logOf, logLink>>

\* The answer's head: a cancelled request and one that is not ok end here ...
HeadArrives(f) ==
    /\ f \in fetches /\ f.stage = "sent"
    /\ fetches' = (fetches \ {f}) \union
         (IF ~f.cancelled /\ logLink = "up" THEN {[f EXCEPT !.stage = "body"]} ELSE {})
    /\ UNCHANGED <<tailOpen, isRunning, jobId, logOf, logLink>>

BodyArrivesFirst(f) ==
    /\ f \in fetches /\ f.stage = "body"
    /\ fetches' = fetches \ {f}
    /\ logOf' = IF logLink = "up" /\ logOf = NoJob THEN f.job ELSE logOf
    /\ UNCHANGED <<tailOpen, isRunning, jobId, logLink>>

\* ... its body is awaited without another look at the flag.
BodyArrives(f) ==
    /\ f \in fetches /\ f.stage = "body"
    /\ fetches' = fetches \ {f}
    /\ logOf' = IF logLink = "up" THEN f.job ELSE logOf
    /\ UNCHANGED <<tailOpen, isRunning, jobId, logLink>>

LogLinkChanges ==
    /\ logLink' \in {"up", "down"} \ {logLink}
    /\ UNCHANGED <<tailOpen, isRunning, jobId, logOf, fetches>>

Next ==
    \/ ToggleDetails \/ CardChanges \/ TailTick \/ LogLinkChanges
    \/ \E f \in fetches : HeadArrives(f) \/ BodyArrives(f)

TailSpec == Init /\ [][Next]_tailVars

\* The interval ticks and every request gets its answer or throws.
Head1 == \E f \in fetches : HeadArrives(f)
Body1 == \E f \in fetches : BodyArrives(f)
TailFair == WF_tailVars(TailTick) /\ WF_tailVars(Head1) /\ WF_tailVars(Body1)

TailFairSpec == TailSpec /\ TailFair

-----------------------------------------------------------------------------
TailTypeOK ==
    /\ tailOpen \in BOOLEAN /\ isRunning \in BOOLEAN
    /\ jobId \in TailJobs \union {NoJob} /\ logOf \in TailJobs \union {NoJob}
    /\ \A f \in fetches : f.job \in TailJobs /\ f.stage \in {"sent", "body"} /\ f.cancelled \in BOOLEAN

\* Whatever another job's requests were doing when the card changed hands, a card
\* that stays expanded on one job ends showing that job's lines and no other's.
LogCatchesUp ==
    \A j \in TailJobs :
        (<>[](Tailing /\ jobId = j /\ logLink = "up")) => <>[](logOf = j)
=============================================================================
