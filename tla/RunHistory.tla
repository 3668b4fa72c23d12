------------------------------ MODULE RunHistory ------------------------------
(* A run in the history of evaluation runs (components/eval/RunHistoryTable,    *)
(* RunRow): the row shows what the last list told, unfolds into the analysis it *)
(* asks for itself, and orders analysis, promotion and repetition.  A row the   *)
(* filter hides is unmounted and forgets everything but its requests.           *)
EXTENDS Naturals, FiniteSets

CONSTANTS
    ChosenFilters,              \* the filters that are pressed
    MaxReads, MaxLists,         \* bounds: analysis reads, and list reads, in flight
    MaxPosts                    \* bound: orders in flight

HistoryAssumption ==
    /\ ChosenFilters \subseteq {"hide_failed", "all", "complete", "failed", "judging"}
    /\ MaxReads \in Nat /\ MaxLists \in Nat /\ MaxPosts \in Nat

VARIABLES
    stage, computed, text,      \* eval_runs: status, analysis_json and analysis_md are there
    analyzing,                  \* a background thread writes analysis_md
    shown,                      \* the run in evalRuns: [stage, text]
    listsAsked, listsTold,      \* fetchEvalRuns: not yet served, and answers on their way
    page, filter, level,        \* the page is shown, statusFilter, level (0: the row is not drawn)
    analysis, reads,            \* the row's analysis, and its fetches by what they answer
    overlapped, missed,         \* history: two fetches were under way; none was made or one failed
    busy, posts, refresh        \* buttons loading, their requests, refreshTimer is set

server == <<stage, computed, text, analyzing>>
lists == <<listsAsked, listsTold>>
unfolded == <<analysis, reads, overlapped, missed>>
historyVars == <<server, shown, lists, page, filter, level, unfolded, busy, posts, refresh>>

Buttons == {"analyze", "compute", "promote", "repeat"}
Answers == {"asked", "not_computed", "computed"}
NoReads == [a \in Answers |-> 0]
UnderWay(r) == r["asked"] + r["not_computed"] + r["computed"]

Init ==
    /\ stage \in {"judging", "complete", "failed"}
    /\ text = FALSE /\ analyzing = FALSE
    /\ computed \in (IF stage = "complete" THEN BOOLEAN ELSE {FALSE})
    /\ shown = [stage |-> stage, text |-> FALSE] /\ listsAsked = 0 /\ listsTold = {}
    /\ page = TRUE /\ filter = "hide_failed" /\ level = (IF stage = "failed" THEN 0 ELSE 1)
    /\ analysis = "none" /\ reads = NoReads /\ overlapped = FALSE /\ missed = FALSE
    /\ busy = {} /\ posts = [b \in Buttons |-> "idle"] /\ refresh = FALSE

\* STATUS_FILTERS: the rows that pass.
Passes(f, s) == f = "all" \/ f = s \/ (f = "hide_failed" /\ s # "failed")

-----------------------------------------------------------------------------
\* What an unfolded row draws.
MetricsShown == level >= 2 /\ shown.stage = "complete"
BreakdownShown == MetricsShown /\ analysis = "computed"
ComputeOffered == MetricsShown /\ analysis = "not_computed"
TextShown == MetricsShown /\ shown.text

\* The table is drawn again: the row comes, stays or goes with what it held.
Redraw(p, f, s) ==
    LET drawn == p /\ Passes(f, s) IN
    /\ level' = IF ~drawn THEN 0 ELSE IF level = 0 THEN 1 ELSE level
    /\ IF drawn /\ level > 0
       THEN UNCHANGED <<analysis, reads, overlapped, busy, refresh>>
       ELSE /\ analysis' = "none" /\ reads' = NoReads /\ overlapped' = FALSE
            /\ busy' = {} /\ refresh' = FALSE

ChooseFilter(f) ==
    /\ page /\ f # filter /\ filter' = f
    /\ Redraw(page, f, shown.stage) /\ missed' = (missed /\ level' > 0)
    /\ UNCHANGED <<server, shown, lists, page, posts>>

LeaveOrReturn ==
    /\ page' = ~page
    /\ Redraw(page', filter, shown.stage) /\ missed' = (missed /\ level' > 0)
    /\ UNCHANGED <<server, shown, lists, filter, posts>>

\* fetchRunAnalysis for this row; "crossed" when another answer came or comes first.
StartRead(crossed) ==
    /\ UnderWay(reads) < MaxReads
    /\ reads' = [reads EXCEPT !["asked"] = @ + 1]
    /\ overlapped' = (UnderWay(reads) > 0 \/ crossed)
    /\ missed' = FALSE

\* toggleLevel: a row unfolded without an analysis asks for one if its run is
\* complete as far as the list has told.
ToggleLevel(next) ==
    /\ level > 0 /\ (next = 3 => level >= 2)
    /\ level' = IF level = next THEN 1 ELSE next
    /\ IF level' >= 2 /\ analysis = "none" /\ shown.stage = "complete"
       THEN StartRead(FALSE)
       ELSE UNCHANGED <<reads, overlapped, missed>>
    /\ UNCHANGED <<server, shown, lists, page, filter, analysis, busy, posts, refresh>>

ReadServed ==
    /\ reads["asked"] > 0
    /\ LET told == IF computed THEN "computed" ELSE "not_computed"
       IN  reads' = [reads EXCEPT !["asked"] = @ - 1, ![told] = @ + 1]
    /\ UNCHANGED <<server, shown, lists, page, filter, level, analysis, overlapped, missed,
                   busy, posts, refresh>>

\* A failed fetch is null: it takes away what the row had.
ReadLands(a, lost) ==
    /\ reads[a] > 0 /\ (a = "asked" => lost)
    /\ reads' = [reads EXCEPT ![a] = @ - 1]
    /\ analysis' = IF lost THEN "none" ELSE a
    /\ missed' = lost
    /\ UNCHANGED <<server, shown, lists, page, filter, level, overlapped, busy, posts, refresh>>

-----------------------------------------------------------------------------
\* fetchEvalRuns, asked by this row's actions, its timer, and the rest of the page.
AskList == listsAsked + Cardinality(listsTold) < MaxLists /\ listsAsked' = listsAsked + 1

OthersAskList == AskList /\ UNCHANGED <<server, shown, listsTold, page, filter, level, unfolded, busy,
                                        posts, refresh>>

ListServed ==
    /\ listsAsked > 0 /\ listsAsked' = listsAsked - 1
    /\ listsTold' = listsTold \union {[stage |-> stage, text |-> text]}
    /\ UNCHANGED <<server, shown, page, filter, level, unfolded, busy, posts, refresh>>

\* The run may complete under a row that is unfolded: nothing asks for its analysis.
ListLands(l) ==
    /\ l \in listsTold /\ listsTold' = listsTold \ {l}
    /\ shown' = l
    /\ Redraw(page, filter, l.stage)
    /\ missed' = (level' > 0 /\ (missed \/ (level >= 2 /\ shown.stage # "complete" /\ l.stage = "complete")))
    /\ UNCHANGED <<server, listsAsked, page, filter, posts>>

RefreshTimer ==
    /\ refresh /\ refresh' = FALSE /\ AskList
    /\ UNCHANGED <<server, shown, listsTold, page, filter, level, unfolded, busy, posts>>

-----------------------------------------------------------------------------
\* The buttons an unfolded row has.
Offered(b) ==
    /\ level >= 2
    /\ b \in {"analyze", "promote"} => shown.stage = "complete"
    /\ b = "compute" => ComputeOffered

Press(b) ==
    /\ Offered(b) /\ b \notin busy /\ posts[b] = "idle"
    /\ Cardinality({c \in Buttons : posts[c] # "idle"}) < MaxPosts
    /\ busy' = busy \union {b} /\ posts' = [posts EXCEPT ![b] = "sent"]
    /\ UNCHANGED <<server, shown, lists, page, filter, level, unfolded, refresh>>

\* analyze starts a thread, reanalyze computes at once; promote and repeat change
\* other things than this row.  Only a complete run is analyzed or promoted, and an
\* order that was carried out may still be told as a failure.
PostServed(b, done, told) ==
    /\ posts[b] = "sent"
    /\ done => stage = "complete" \/ b = "repeat"
    /\ told => done
    /\ posts' = [posts EXCEPT ![b] = IF told THEN "done" ELSE "refused"]
    /\ analyzing' = (analyzing \/ (b = "analyze" /\ done))
    /\ computed' = (computed \/ (b = "compute" /\ done))
    /\ UNCHANGED <<stage, text, shown, lists, page, filter, level, unfolded, busy, refresh>>

\* The answer ends the loading; analyze sets the timer anew, compute asks for the
\* analysis, promote and repeat for the list.
PostLands(b) ==
    /\ posts[b] \in {"done", "refused"}
    /\ posts' = [posts EXCEPT ![b] = "idle"] /\ busy' = busy \ {b}
    /\ refresh' = (refresh \/ (b = "analyze" /\ posts[b] = "done"))
    /\ IF b = "compute" /\ posts[b] = "done" /\ level > 0
       THEN StartRead(analysis # "not_computed")
       ELSE UNCHANGED <<reads, overlapped, missed>>
    /\ IF b \in {"promote", "repeat"} /\ posts[b] = "done"
       THEN AskList
       ELSE UNCHANGED listsAsked
    /\ UNCHANGED <<server, shown, listsTold, page, filter, level, analysis>>

-----------------------------------------------------------------------------
\* The run ends: it is complete before its analysis is computed, and its text written.
RunEnds ==
    /\ stage = "judging" /\ stage' \in {"complete", "failed"}
    /\ UNCHANGED <<computed, text, analyzing, shown, lists, page, filter, level, unfolded, busy, posts,
                   refresh>>

RunAnalyzed ==
    /\ stage = "complete" /\ ~computed /\ computed' = TRUE
    /\ UNCHANGED <<stage, text, analyzing, shown, lists, page, filter, level, unfolded, busy, posts,
                   refresh>>

TextWritten ==
    /\ analyzing /\ analyzing' = FALSE /\ text' = TRUE
    /\ UNCHANGED <<stage, computed, shown, lists, page, filter, level, unfolded, busy, posts, refresh>>

Next ==
    \/ \E f \in ChosenFilters : ChooseFilter(f)
    \/ LeaveOrReturn
    \/ \E next \in {2, 3} : ToggleLevel(next)
    \/ ReadServed
    \/ \E a \in Answers, lost \in BOOLEAN : ReadLands(a, lost)
    \/ OthersAskList \/ ListServed \/ RefreshTimer
    \/ \E l \in listsTold : ListLands(l)
    \/ \E b \in Buttons : Press(b) \/ PostLands(b)
    \/ \E b \in Buttons, done, told \in BOOLEAN : PostServed(b, done, told)
    \/ RunEnds \/ RunAnalyzed \/ TextWritten

HistorySpec == Init /\ [][Next]_historyVars

-----------------------------------------------------------------------------
HistoryTypeOK ==
    /\ stage \in {"judging", "complete", "failed"} /\ computed \in BOOLEAN /\ text \in BOOLEAN
    /\ level \in 0..3 /\ analysis \in {"none", "not_computed", "computed"}
    /\ reads \in [Answers -> 0..MaxReads] /\ busy \subseteq Buttons
    /\ posts \in [Buttons -> {"idle", "sent", "done", "refused"}]

\* An unfolded row of a complete run has its analysis or waits for it, unless a
\* fetch failed or the run completed while the row was unfolded.
AnalysisTold == MetricsShown /\ analysis = "none" => UnderWay(reads) > 0 \/ missed

\* An analysis on the screen is not taken away by a late answer, unless the row
\* was folded and unfolded, or computed again, before an answer came.
AnalysisKept == BreakdownShown /\ ~overlapped => UnderWay(reads) = 0

HistorySound == AnalysisTold /\ AnalysisKept
=============================================================================
