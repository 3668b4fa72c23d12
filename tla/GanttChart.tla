----------------------------- MODULE GanttChart ------------------------------
(* The timeline of the Plan page (components/GanttChart.jsx): the window, the  *)
(* lanes, the bars and their segments, the density strip and its selection,    *)
(* and the card of a bar with the runs it fetches.  Time is counted in half    *)
(* buckets (fifteen minutes) and starts at the present moment, 0.              *)
EXTENDS Integers, Sequences, FiniteSets, SequencesExt

CONSTANTS
    Bars,           \* ids of the jobs and evaluation runs that are charted
    Starts,         \* values of next_run
    Durations,      \* values of estimated_duration, 0 for none
    HeavyBars,      \* bars whose model_profile is "heavy"
    DefaultLength,  \* 600 seconds
    WindowHalf,     \* half of the whole window (24 hours, 6 on a phone)
    ZoomHalf,       \* half of the zoomed window: one hour
    SlotCount,      \* 48 slots of the load map
    MidnightTo0     \* half buckets between midnight and the present moment

NoBar == "none"

ChartAssumption ==
    /\ IsFiniteSet(Bars) /\ NoBar \notin Bars
    /\ Starts \subseteq Int /\ Durations \subseteq Nat
    /\ DefaultLength \in Nat \ {0} /\ SlotCount \in Nat \ {0}
    /\ WindowHalf \in Nat \ {0} /\ ZoomHalf \in Nat \ {0}
    /\ MidnightTo0 \in Nat

VARIABLES
    bars,           \* [Bars -> [next_run, estimated_duration]]
    selectedBarId, zoomedAnchor, selectedBucketIdx,
    barRuns,        \* bars whose runs have been fetched
    barRunsLoading,
    runFetches      \* bars whose runs are being fetched

selection == <<selectedBarId, zoomedAnchor, selectedBucketIdx>>
card == <<barRuns, barRunsLoading, runFetches>>
chartVars == <<bars, selection, card>>

-----------------------------------------------------------------------------
\* The window: now, windowSecs and bucketCount.
Zoomed == zoomedAnchor # {}
Anchor == CHOOSE a \in zoomedAnchor : TRUE
WindowSize == 2 * (IF Zoomed THEN ZoomHalf ELSE WindowHalf)
LeftEdge == IF Zoomed THEN Anchor - ZoomHalf ELSE 0
BucketCount == WindowSize \div 2
NeedleVisible == LeftEdge <= 0 /\ 0 <= LeftEdge + WindowSize

Length(b) == IF bars[b].estimated_duration = 0 THEN DefaultLength ELSE bars[b].estimated_duration
End(b) == bars[b].next_run + Length(b)
Overlap(b, from, to) == bars[b].next_run < to /\ End(b) > from

VisibleBars == {b \in Bars : Overlap(b, LeftEdge, LeftEdge + WindowSize)}

\* assignLanes: in the order of next_run each bar takes the first lane that has
\* ended; the sort is stable (the array is in the order of Order).
Order == SetToSeq(Bars)
Place(b) == CHOOSE i \in DOMAIN Order : Order[i] = b
Earlier(a, b) == \/ bars[a].next_run < bars[b].next_run
                 \/ bars[a].next_run = bars[b].next_run /\ Place(a) < Place(b)
Sorted == CHOOSE s \in SetToSeqs(VisibleBars) :
            \A m, n \in DOMAIN s : m < n => Earlier(s[m], s[n])

PutBarStrictly(lanes, b) ==
    LET free == {i \in 1..Len(lanes.ends) : lanes.ends[i] < bars[b].next_run}
        new == Len(lanes.ends) + 1
        i == IF free = {} THEN new ELSE CHOOSE k \in free : \A m \in free : k <= m
    IN [ends |-> IF i = new THEN Append(lanes.ends, End(b)) ELSE [lanes.ends EXCEPT ![i] = End(b)],
        lane |-> [x \in DOMAIN lanes.lane \union {b} |-> IF x = b THEN i ELSE lanes.lane[x]]]

PutBar(lanes, b) ==
    LET free == {i \in 1..Len(lanes.ends) : lanes.ends[i] <= bars[b].next_run}
        new == Len(lanes.ends) + 1
        i == IF free = {} THEN new ELSE CHOOSE k \in free : \A m \in free : k <= m
    IN [ends |-> IF i = new THEN Append(lanes.ends, End(b)) ELSE [lanes.ends EXCEPT ![i] = End(b)],
        lane |-> [x \in DOMAIN lanes.lane \union {b} |-> IF x = b THEN i ELSE lanes.lane[x]]]

Lanes == FoldLeft(PutBar, [ends |-> <<>>, lane |-> <<>>], Sorted)
LaneCount == IF Len(Lanes.ends) = 0 THEN 1 ELSE Len(Lanes.ends)

\* getConflictingPairs and findHeavyConflicts, over the bars that are visible.
Conflicting(a, b) == Overlap(a, bars[b].next_run, End(b))
VisibleHeavy == VisibleBars \intersect HeavyBars
HeavyConflicts == {a \in VisibleHeavy : \E b \in VisibleHeavy \ {a} : Conflicting(a, b)}

\* buildDensityBuckets and buildBucketJobIds; bucket i starts i half hours from now.
BucketJobs(i) == {b \in VisibleBars : Overlap(b, LeftEdge + 2 * i, LeftEdge + 2 * i + 2)}
Density(i) == Cardinality(BucketJobs(i))

\* alignLoadMapToNow, on a load map whose slot s holds s; and the display index of
\* a suggested slot.
NowSlot == ((LeftEdge + MidnightTo0) \div 2) % SlotCount
AlignedSlot(i) == (NowSlot + i) % SlotCount
DisplayIndex(slot) == (slot - NowSlot + SlotCount) % SlotCount

\* The segments of a bar (warm-up at most 40%) and what its look says.
Warmup(raw, est) == LET cap == (est * 4) \div 10 IN IF raw < cap THEN raw ELSE cap
Inference(raw, est) == IF est - Warmup(raw, est) > 1 THEN est - Warmup(raw, est) ELSE 1
Dimmed(b) == selectedBucketIdx # {} /\ \A i \in selectedBucketIdx :
                 i >= BucketCount \/ b \notin BucketJobs(i)
Past(b) == 0 > End(b)
Concurrent(b) == Lanes.lane[b] > 1

\* Where a bar is drawn: what began before the window is moved to its edge at its
\* full width, what ends after it is cut (the least width of half a percent aside).
DrawnFrom(b) == IF bars[b].next_run > LeftEdge THEN bars[b].next_run - LeftEdge ELSE 0
DrawnTo(b) == LET end == DrawnFrom(b) + Length(b)
              IN IF end < WindowSize THEN end ELSE WindowSize

\* BarDetailCard, drawn for the selected bar if it is visible: the history it fetched.
CardHistory == IF barRunsLoading THEN "loading"
               ELSE IF selectedBarId \in barRuns THEN "runs" ELSE "no history yet"

-----------------------------------------------------------------------------
Init ==
    /\ bars \in [Bars -> [next_run : Starts, estimated_duration : Durations]]
    /\ selectedBarId = NoBar /\ zoomedAnchor = {} /\ selectedBucketIdx = {}
    /\ barRuns = {} /\ barRunsLoading = FALSE /\ runFetches = {}

\* handleBarClick: the selected bar is left and the window zooms out, another one is
\* selected, the window zooms to it, and its runs are fetched unless they are known.
ClickBar(b) ==
    /\ b \in VisibleBars
    /\ IF selectedBarId = b
         THEN selectedBarId' = NoBar /\ zoomedAnchor' = {} /\ UNCHANGED card
         ELSE /\ selectedBarId' = b
              /\ zoomedAnchor' = {bars[b].next_run}
              /\ IF b \in barRuns THEN UNCHANGED card
                 ELSE /\ barRunsLoading' = TRUE
                      /\ runFetches' = runFetches \union {b}
                      /\ UNCHANGED barRuns
    /\ UNCHANGED <<bars, selectedBucketIdx>>

\* A click beside the bars keeps the zoom; "zoom out" and the card's buttons end it.
ClickChart ==
    /\ selectedBarId' = NoBar
    /\ UNCHANGED <<bars, zoomedAnchor, selectedBucketIdx, card>>

ZoomOut ==
    /\ Zoomed
    /\ selectedBarId' = NoBar /\ zoomedAnchor' = {}
    /\ UNCHANGED <<bars, selectedBucketIdx, card>>

\* A bucket of the strip is selected, or cleared by a second click.
ClickBucket(i) ==
    /\ i < BucketCount
    /\ selectedBucketIdx' = IF selectedBucketIdx = {i} THEN {} ELSE {i}
    /\ UNCHANGED <<bars, selectedBarId, zoomedAnchor, card>>

\* fetchJobRuns returns or throws (an evaluation run has none).
RunsLanded(b) ==
    /\ b \in runFetches
    /\ runFetches' = runFetches \ {b}
    /\ barRuns' \in {barRuns, barRuns \union {b}}
    /\ barRunsLoading' = FALSE
    /\ UNCHANGED <<bars, selection>>

Next ==
    \/ \E b \in Bars : ClickBar(b) \/ RunsLanded(b)
    \/ ClickChart \/ ZoomOut
    \/ \E i \in 0..WindowHalf : ClickBucket(i)

ChartSpec == Init /\ [][Next]_chartVars

-----------------------------------------------------------------------------
ChartTypeOK ==
    /\ selectedBarId \in Bars \union {NoBar} /\ zoomedAnchor \subseteq Starts
    /\ barRuns \subseteq Bars /\ barRunsLoading \in BOOLEAN /\ runFetches \subseteq Bars

\* Bars of one lane never overlap, and there are as many lanes as bars overlap
\* somewhere: first fit in order of the start wastes none.
Load(t) == Cardinality({b \in VisibleBars : Overlap(b, t, t + 1)})
LanesTight ==
    LET lane == Lanes.lane IN
    /\ \A a, b \in VisibleBars : a # b /\ lane[a] = lane[b] => ~Conflicting(a, b)
    /\ \A b \in VisibleBars : \E t \in {bars[a].next_run : a \in VisibleBars} :
         lane[b] <= Load(t)

\* The red outline is on exactly the heavy bars that are inside another heavy bar
\* at some moment of the window or beside it.
ConflictsMarked ==
    HeavyConflicts = {a \in VisibleHeavy : \E t \in bars[a].next_run..(End(a) - 1) :
                        \E b \in VisibleHeavy \ {a} : Overlap(b, t, t + 1)}

\* The outlined slot of the strip is the suggested slot of the load map.
SuggestionsAligned ==
    \A s \in 0..SlotCount - 1 : AlignedSlot(DisplayIndex(s)) = s

\* Every visible bar is drawn inside the chart, with some width.
DrawnInside ==
    \A b \in VisibleBars : 0 <= DrawnFrom(b) /\ DrawnFrom(b) < DrawnTo(b) /\ DrawnTo(b) <= WindowSize

\* Warm-up and body make up the estimate, and the body is the larger part.
SegmentsAddUp ==
    \A est \in 1..12, raw \in 0..6 :
        /\ Warmup(raw, est) + Inference(raw, est) = est
        /\ Warmup(raw, est) <= Inference(raw, est)

\* The zoomed window holds the bar it was zoomed to, and a card that says "loading"
\* has a request to wait for.
SelectionShown ==
    /\ selectedBarId # NoBar => selectedBarId \in VisibleBars
    /\ CardHistory = "loading" => runFetches # {}

ChartSound ==
    /\ LanesTight /\ ConflictsMarked /\ DrawnInside
    /\ SuggestionsAligned /\ SegmentsAddUp /\ SelectionShown
=============================================================================
