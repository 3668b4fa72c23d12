----------------------------- MODULE QueueBoard ------------------------------
(* The waiting list of the Now page (components/QueueList.jsx) over the        *)
(* server's queue: rows dragged by index while polls replace the list, and     *)
(* priorities persisted by one PUT per changed row, applied in any order.      *)
EXTENDS Naturals, SequencesExt

CONSTANTS
    Jobs,             \* numbers: a job submitted later has a greater one
    Tag,              \* the tag of each job
    None,
    MaxPriority,      \* 10: the greatest priority the API accepts
    DefaultPriority,  \* 5
    MaxDrops,         \* bound: drops in a behaviour
    MaxReplies        \* bound: answers to /status in flight at once

BoardAssumption ==
    /\ Jobs \subseteq Nat \ {0} /\ None \notin Jobs
    /\ MaxPriority \in Nat /\ DefaultPriority \in 1..MaxPriority
    /\ MaxDrops \in Nat /\ MaxReplies \in Nat

VARIABLES
    status,         \* server: "unsubmitted", "pending" or "gone"
    prio,           \* server: the priority of each job
    queue,          \* the signal the list shows: a sequence of [id, prio]
    replies,        \* snapshots on their way to the page
    puts,           \* PUT /queue/{id}/priority on their way: [id, prio]
    tagFilter, dragIdx,
    drops,          \* drops so far (bound)
    goal            \* history: the order of the last drop while it stands, or <<>>

server == <<status, prio>>
wire == <<replies, puts>>
page == <<queue, tagFilter, dragIdx>>
vars == <<server, wire, page, drops, goal>>

Row(j) == [id |-> j, prio |-> prio[j]]
Pending == {j \in Jobs : status[j] = "pending"}

\* get_pending_jobs: by priority, then by submission.
Before(j, k) == prio[j] < prio[k] \/ (prio[j] = prio[k] /\ j < k)
ServerOrder == CHOOSE s \in SetToSeqs(Pending) :
                 \A m, n \in DOMAIN s : m < n => Before(s[m], s[n])
Snapshot == [i \in 1..Len(ServerOrder) |-> Row(ServerOrder[i])]

\* What the list shows: the queue, through the tag filter.
Kept == {i \in DOMAIN queue : tagFilter # None =>
           queue[i].id # None /\ Tag[queue[i].id] = tagFilter}
Places == CHOOSE s \in SetToSeqs(Kept) : \A m, n \in DOMAIN s : m < n => s[m] < s[n]
Items == [i \in DOMAIN Places |-> queue[Places[i]]]

Init ==
    /\ status = [j \in Jobs |-> "unsubmitted"]
    /\ prio = [j \in Jobs |-> DefaultPriority]
    /\ queue = <<>>
    /\ replies = {} /\ puts = {}
    /\ tagFilter = None /\ dragIdx = 0
    /\ drops = 0 /\ goal = <<>>

\* ------------------------------------------------------------- the server --
Submit(j) ==
    /\ status[j] = "unsubmitted"
    /\ \A k \in Jobs : k < j => status[k] # "unsubmitted"
    /\ status' = [status EXCEPT ![j] = "pending"]
    /\ UNCHANGED <<prio, wire, page, drops, goal>>

\* The daemon starts a waiting job or somebody cancels it.
JobLeaves(j) ==
    /\ status[j] = "pending"
    /\ status' = [status EXCEPT ![j] = "gone"]
    /\ UNCHANGED <<prio, wire, page, drops, goal>>

\* /api/status is read for a poll or a refreshQueue ...
StatusRead ==
    /\ Cardinality(replies) < MaxReplies
    /\ replies' = replies \union {Snapshot}
    /\ UNCHANGED <<server, puts, page, drops, goal>>

\* ... and its answer replaces the list, whatever the user is doing to it.
StatusArrives(r) ==
    /\ r \in replies
    /\ replies' = replies \ {r}
    /\ queue' = r
    /\ UNCHANGED <<server, puts, tagFilter, dragIdx, drops, goal>>

\* PUT priority: refused above MaxPriority, without effect once the job has left.
PutArrives(p) ==
    /\ p \in puts
    /\ puts' = puts \ {p}
    /\ IF p.id \in Pending /\ p.prio <= MaxPriority
         THEN prio' = [prio EXCEPT ![p.id] = p.prio]
         ELSE UNCHANGED prio
    /\ UNCHANGED <<status, replies, page, drops, goal>>

\* The request fails: handleDrop only logs it.
PutLost(p) ==
    /\ p \in puts
    /\ puts' = puts \ {p}
    /\ goal' = <<>>
    /\ UNCHANGED <<server, replies, page, drops>>

\* --------------------------------------------------------------- the user --
SetFilter ==
    /\ tagFilter' \in {None} \union {Tag[r.id] : r \in {s \in ToSet(queue) : s.id # None}}
    /\ tagFilter' # tagFilter
    /\ UNCHANGED <<server, wire, queue, dragIdx, drops, goal>>

DragStart(i) ==
    /\ dragIdx = 0
    /\ i \in DOMAIN Items
    /\ dragIdx' = i
    /\ UNCHANGED <<server, wire, queue, tagFilter, drops, goal>>

DragEnd ==
    /\ dragIdx # 0
    /\ dragIdx' = 0
    /\ UNCHANGED <<server, wire, queue, tagFilter, drops, goal>>

\* splice(from, 1), splice(to, 0, dragged), and priorities 1..N by position. A
\* from past the end takes nothing and puts in a row without an id.
Reordered(rows, from, to) ==
    LET dragged == IF from <= Len(rows) THEN rows[from] ELSE [id |-> None, prio |-> 0]
        rest == IF from <= Len(rows) THEN RemoveAt(rows, from) ELSE rows
        moved == InsertAt(rest, to, dragged)
    IN [i \in 1..Len(moved) |-> [moved[i] EXCEPT !.prio = i]]

ChangedIfRaised(rows, updated) ==
    {r \in ToSet(updated) : \A shown \in ToSet(rows) : shown.id = r.id => shown.prio < r.prio}

\* The rows whose priority differs from the one shown are persisted.
Changed(rows, updated) ==
    {r \in ToSet(updated) : \A shown \in ToSet(rows) : shown.id = r.id => shown.prio # r.prio}

\* The order stands as a goal when the priorities shown were the server's, no
\* earlier PUT is out and none of the new ones will be refused.
Ids(rows) == [i \in 1..Len(rows) |-> rows[i].id]
Persistable(rows, updated) ==
    /\ puts = {}
    /\ Len(updated) <= MaxPriority
    /\ \A r \in ToSet(rows) : r.id \in Pending => prio[r.id] = r.prio

\* handleDrop: the list is replaced by the rows shown, in their new order.
Drop(to) ==
    /\ dragIdx # 0 /\ drops < MaxDrops
    /\ to \in DOMAIN Items
    /\ dragIdx' = 0
    /\ IF dragIdx = to
         THEN UNCHANGED <<queue, puts, drops, goal>>
         ELSE LET updated == Reordered(Items, dragIdx, to)
              IN /\ queue' = updated
                 /\ puts' = puts \union Changed(Items, updated)
                 /\ drops' = drops + 1
                 /\ goal' = IF Persistable(Items, updated) THEN Ids(updated) ELSE <<>>
    /\ UNCHANGED <<server, replies, tagFilter>>

Next ==
    \/ StatusRead \/ SetFilter \/ DragEnd
    \/ \E j \in Jobs : Submit(j) \/ JobLeaves(j)
    \/ \E r \in replies : StatusArrives(r)
    \/ \E p \in puts : PutArrives(p) \/ PutLost(p)
    \/ \E i \in DOMAIN Items : DragStart(i) \/ Drop(i)

Spec == Init /\ [][Next]_vars

-----------------------------------------------------------------------------
TypeOK ==
    /\ status \in [Jobs -> {"unsubmitted", "pending", "gone"}]
    /\ prio \in [Jobs -> 0..MaxPriority]
    /\ \A r \in ToSet(queue) \union puts : r.id \in Jobs \union {None} /\ r.prio \in Nat
    /\ dragIdx \in Nat /\ drops \in 0..MaxDrops

\* A drop is persisted by the PUTs of the rows that changed alone: once they are
\* all applied, in whatever order, the server runs the waiting jobs of that list
\* in the order in which the user left them, whichever of them left meanwhile and
\* whatever was submitted.
DropPersisted ==
    puts = {} =>
      \A m, n \in DOMAIN goal :
        (m < n /\ goal[m] \in Pending /\ goal[n] \in Pending) => Before(goal[m], goal[n])
=============================================================================
