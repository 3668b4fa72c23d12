------------------------------ MODULE ScoredPairs ------------------------------
(* The scored pairs of a run (components/eval/ResultsTable, ResultRow): pages   *)
(* are loaded by offset and appended, a filter starts over.  An answer is taken *)
(* whatever was asked since.                                                    *)
EXTENDS Naturals, SequencesExt

CONSTANTS
    Classes,    \* the filter tabs
    Rows,       \* Rows[c]: how many pairs of the run the tab's filter keeps
    PageSize,   \* PAGE_SIZE
    MaxLoads    \* bound: loads in flight

PairsAssumption ==
    /\ Rows \in [Classes -> Nat] /\ PageSize \in Nat \ {0} /\ MaxLoads \in Nat

VARIABLES
    mounted,            \* the row of the run is unfolded to its pairs
    activeFilter,
    results,            \* the rows drawn: <<class asked for, index>>
    offset, hasMore,
    loading, failed,    \* loading, and error is set
    loads,              \* in flight: [class, off]
    crossed             \* history: one was asked while another was under way

pairsVars == <<mounted, activeFilter, results, offset, hasMore, loading, failed, loads, crossed>>

Init ==
    /\ mounted = FALSE /\ activeFilter \in Classes
    /\ results = <<>> /\ offset = 0 /\ hasMore = FALSE
    /\ loading = FALSE /\ failed = FALSE /\ loads = <<>> /\ crossed = FALSE

\* LIMIT PageSize OFFSET off over the pairs the filter keeps.
Page(c, off) ==
    LET size == IF Rows[c] <= off THEN 0
                ELSE IF Rows[c] - off < PageSize THEN Rows[c] - off ELSE PageSize
    IN  [i \in 1..size |-> <<c, off + i>>]

\* loadPage, up to its answer.
LoadPage(c, off) ==
    /\ Len(loads) < MaxLoads
    /\ loads' = Append(loads, [class |-> c, off |-> off])
    /\ loading' = TRUE /\ failed' = FALSE
    /\ crossed' = (crossed \/ loads # <<>>)

-----------------------------------------------------------------------------
Mount(c) ==
    /\ ~mounted /\ mounted' = TRUE /\ activeFilter' = c
    /\ LoadPage(c, 0)
    /\ UNCHANGED <<results, offset, hasMore>>

\* Folded or hidden: the next time it starts over, and nothing of it lands.
Unmount ==
    /\ mounted /\ mounted' = FALSE
    /\ results' = <<>> /\ offset' = 0 /\ hasMore' = FALSE
    /\ loading' = FALSE /\ failed' = FALSE /\ loads' = <<>> /\ crossed' = FALSE
    /\ UNCHANGED activeFilter

ChooseFilterKeepsRows(c) ==
    /\ mounted /\ activeFilter' = c
    /\ LoadPage(c, 0)
    /\ UNCHANGED <<mounted, results, offset, hasMore>>

\* handleFilterChange, the tab that is active included.
ChooseFilter(c) ==
    /\ mounted /\ activeFilter' = c
    /\ results' = <<>> /\ offset' = 0 /\ hasMore' = TRUE
    /\ LoadPage(c, 0)
    /\ UNCHANGED mounted

LoadMore ==
    /\ mounted /\ hasMore /\ ~loading
    /\ LoadPage(activeFilter, offset)
    /\ UNCHANGED <<mounted, activeFilter, results, offset, hasMore>>

Retry ==
    /\ failed
    /\ LoadPage(activeFilter, 0)
    /\ UNCHANGED <<mounted, activeFilter, results, offset, hasMore>>

\* A first page replaces what is drawn, another one is appended to it.
PageLands(k) ==
    LET data == Page(loads[k].class, loads[k].off) IN
    /\ loads' = RemoveAt(loads, k)
    /\ results' = IF loads[k].off = 0 THEN data ELSE results \o data
    /\ hasMore' = (Len(data) = PageSize)
    /\ offset' = loads[k].off + Len(data)
    /\ loading' = FALSE
    /\ crossed' = (crossed /\ ~(loads[k].off = 0 /\ loads[k].class = activeFilter /\ Len(loads) = 1))
    /\ UNCHANGED <<mounted, activeFilter, failed>>

PageLost(k) ==
    /\ loads' = RemoveAt(loads, k)
    /\ failed' = TRUE /\ loading' = FALSE
    /\ UNCHANGED <<mounted, activeFilter, results, offset, hasMore, crossed>>

Next ==
    \/ \E c \in Classes : Mount(c) \/ ChooseFilter(c)
    \/ Unmount \/ LoadMore \/ Retry
    \/ \E k \in 1..Len(loads) : PageLands(k) \/ PageLost(k)

PairsSpec == Init /\ [][Next]_pairsVars

-----------------------------------------------------------------------------
PairsTypeOK ==
    /\ activeFilter \in Classes /\ offset \in Nat
    /\ results \in Seq(Classes \X (Nat \ {0}))
    /\ loads \in Seq([class : Classes, off : Nat])
    /\ mounted \in BOOLEAN /\ hasMore \in BOOLEAN /\ loading \in BOOLEAN /\ crossed \in BOOLEAN

\* What is drawn is the beginning of what the active filter keeps, each pair once,
\* unless a tab was pressed before its predecessor's answer.
PrefixDrawn ==
    mounted /\ ~crossed =>
        /\ results = [i \in 1..Len(results) |-> <<activeFilter, i>>]
        /\ Len(results) <= Rows[activeFilter]
        /\ results # <<>> => offset = Len(results)

\* A table that offers no more has everything, or says that it failed.
NothingHidden ==
    mounted /\ ~crossed /\ ~loading /\ ~hasMore => failed \/ Len(results) = Rows[activeFilter]

PairsSound == PrefixDrawn /\ NothingHidden
=============================================================================
