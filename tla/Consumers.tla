------------------------------ MODULE Consumers ------------------------------
(* A service that calls Ollama directly and is routed through the queue by      *)
(* rewriting its configuration (config/patcher, scanner, api/consumers), and    *)
(* the page that orders it (pages/Consumers, ConsumerRow).  Handlers run in     *)
(* threads: an order is read, changes the file, and changes the row, in steps   *)
(* that another client's order may come between.                                *)
EXTENDS Naturals, FiniteSets

CONSTANT MaxOrders  \* bound: orders in flight

ConsumersAssumption == MaxOrders \in Nat

VARIABLES
    file, bak,          \* the configuration, and its .ollama-queue.bak: whom they call
    status, streaming,  \* the consumers row
    orders,             \* in flight: [who, op, pc, policy, force]
    shown,              \* the row in consumers.value; "scanned" has neither id nor status
    listed,             \* a list on its way: "none", "asked", or what it tells
    confirm,            \* the row's showStreamingConfirm
    crossed, cut        \* history: two orders were on the row at once; one stopped half-way

row == <<file, bak, status, streaming>>
pageRow == <<shown, confirm>>
consumersVars == <<row, orders, pageRow, listed, crossed, cut>>

Statuses == {"discovered", "pending_restart", "patched", "ignored"}
Routed == {"pending_restart", "patched"}
Policies == {"deferred", "immediate"}    \* restartPolicy

Init ==
    /\ file = "ollama" /\ bak = "none"
    /\ status = "discovered" /\ streaming \in BOOLEAN
    /\ orders = {} /\ shown = "none" /\ listed = "asked"
    /\ confirm = FALSE
    /\ crossed = FALSE /\ cut = FALSE

-----------------------------------------------------------------------------
\* What is under way for the page; useActionFeedback takes one order of a row at a time.
RowOps == {"include", "ignore", "revert"}
Busy(who) == \E o \in orders : o.who = who

\* An order arrives at the server, where each runs in a thread of its own.  The row
\* is busy until the list has come.
Order(who, op, pol, force) ==
    /\ ~Busy(who) /\ Cardinality(orders) < MaxOrders
    /\ who = "row" => listed = "none"
    /\ orders' = orders \union {[who |-> who, op |-> op, pc |-> "read", policy |-> pol, force |-> force]}
    /\ crossed' = (crossed \/ (op \in RowOps /\ \E o \in orders : o.op \in RowOps))

Known == shown \in Statuses

\* handleInclude: a service that streams is included at the second press.
PressInclude(pol) ==
    /\ shown \in {"discovered", "ignored"} /\ ~confirm
    /\ IF streaming
       THEN confirm' = TRUE /\ UNCHANGED <<orders, crossed>>
       ELSE Order("row", "include", pol, FALSE) /\ UNCHANGED confirm
    /\ UNCHANGED <<row, shown, listed, cut>>

\* The confirmation is drawn until it is cancelled, whatever the row has become.
ConfirmInclude(pol) ==
    /\ confirm /\ Known
    /\ Order("row", "include", pol, TRUE)
    /\ UNCHANGED <<row, pageRow, listed, cut>>

CancelInclude ==
    /\ confirm /\ confirm' = FALSE
    /\ UNCHANGED <<row, orders, shown, listed, crossed, cut>>

PressIgnoreOrRevert(op) ==
    /\ IF op = "ignore" THEN shown = "discovered" /\ ~confirm ELSE op = "revert" /\ shown \in Routed
    /\ Order("row", op, "deferred", FALSE)
    /\ UNCHANGED <<row, pageRow, listed, cut>>

PressScan ==
    /\ Order("scan", "scan", "deferred", FALSE)
    /\ UNCHANGED <<row, pageRow, listed, cut>>

\* Another page, or a program, orders what the API takes.
OthersOrder(op) ==
    /\ Order("other", op, "immediate", TRUE)
    /\ UNCHANGED <<row, pageRow, listed, cut>>

-----------------------------------------------------------------------------
At(o, op, pc) == o.op = op /\ o.pc = pc
Goto(o, pc) == orders' = (orders \ {o}) \union {[o EXCEPT !.pc = pc]}

\* include_consumer's checks: consent where the service streams.
IncludeRead(o) ==
    /\ At(o, "include", "read")
    /\ Goto(o, IF streaming /\ ~o.force THEN "refused" ELSE "backup")
    /\ UNCHANGED <<row, pageRow, listed, crossed, cut>>

BackupAnew(o) ==
    /\ At(o, "include", "backup") /\ Goto(o, "patch")
    /\ bak' = file
    /\ UNCHANGED <<file, status, streaming, pageRow, listed, crossed, cut>>

\* _backup keeps an older backup.
Backup(o) ==
    /\ At(o, "include", "backup") /\ Goto(o, "patch")
    /\ bak' = IF bak = "none" THEN file ELSE bak
    /\ UNCHANGED <<file, status, streaming, pageRow, listed, crossed, cut>>

Patch(o) ==
    /\ At(o, "include", "patch") /\ Goto(o, "row")
    /\ file' = "queue"
    /\ UNCHANGED <<bak, status, streaming, pageRow, listed, crossed, cut>>

\* update_consumer at the end of include, of ignore and of revert.
WriteRow(o) ==
    /\ o.op \in RowOps /\ o.pc = (IF o.op = "ignore" THEN "read" ELSE "row")
    /\ Goto(o, "done")
    /\ status' = CASE o.op = "ignore" -> "ignored"
                   [] o.op = "revert" -> "discovered"
                   [] OTHER -> IF o.policy = "deferred" THEN "pending_restart" ELSE "patched"
    /\ UNCHANGED <<file, bak, streaming, pageRow, listed, crossed, cut>>

\* revert_consumer: the backup is put back, with what it held, and removed.
Restore(o) ==
    /\ At(o, "revert", "read")
    /\ IF bak = "none"
       THEN Goto(o, "row") /\ UNCHANGED file
       ELSE Goto(o, "unlink") /\ file' = bak
    /\ UNCHANGED <<bak, status, streaming, pageRow, listed, crossed, cut>>

Unlink(o) ==
    /\ At(o, "revert", "unlink") /\ Goto(o, "row")
    /\ bak' = "none"
    /\ UNCHANGED <<file, status, streaming, pageRow, listed, crossed, cut>>

\* run_scan finds the files that name port 11434; the rows' status is not touched.
Scan(o) ==
    /\ At(o, "scan", "read")
    /\ Goto(o, IF file = "queue" THEN "nothing" ELSE "found")
    /\ UNCHANGED <<row, pageRow, listed, crossed, cut>>

\* A step on the disk or in the database raises: what was done stays done.
StepFails(o) ==
    /\ o.pc \in {"backup", "patch", "unlink", "row"} \/ At(o, "revert", "read")
    /\ Goto(o, "refused")
    /\ cut' = TRUE
    /\ UNCHANGED <<row, pageRow, listed, crossed>>

-----------------------------------------------------------------------------
\* The list is asked again after what succeeded; a scan's answer is the list, of
\* records that never were rows.
OrderLands(o) ==
    /\ o.pc \in {"done", "refused", "found", "nothing"}
    /\ orders' = orders \ {o}
    /\ listed' = IF o.who = "row" /\ o.pc = "done" THEN "asked" ELSE listed
    /\ shown' = IF o.who # "scan" THEN shown ELSE IF o.pc = "found" THEN "scanned" ELSE "none"
    /\ confirm' = (confirm /\ shown' = shown)
    /\ UNCHANGED <<row, crossed, cut>>

ListServed ==
    /\ listed = "asked" /\ listed' = status
    /\ UNCHANGED <<row, orders, shown, confirm, crossed, cut>>

ListLands ==
    /\ listed \in Statuses /\ shown' = listed /\ listed' = "none"
    /\ confirm' = (confirm /\ shown \in Statuses)
    /\ UNCHANGED <<row, orders, crossed, cut>>

\* The page is opened again: a new row, the list and the rule are asked.
Reopen ==
    /\ ~Busy("row") /\ ~Busy("scan")
    /\ listed' = "asked"
    /\ confirm' = FALSE
    /\ UNCHANGED <<row, orders, shown, crossed, cut>>

Next ==
    \/ \E pol \in Policies : PressInclude(pol) \/ ConfirmInclude(pol)
    \/ CancelInclude
    \/ \E op \in {"ignore", "revert"} : PressIgnoreOrRevert(op)
    \/ PressScan
    \/ \E op \in RowOps : OthersOrder(op)
    \/ \E o \in orders : \/ IncludeRead(o) \/ Backup(o) \/ Patch(o) \/ WriteRow(o)
                         \/ Restore(o) \/ Unlink(o) \/ Scan(o)
                         \/ StepFails(o) \/ OrderLands(o)
    \/ ListServed \/ ListLands \/ Reopen

ConsumersSpec == Init /\ [][Next]_consumersVars

-----------------------------------------------------------------------------
ConsumersTypeOK ==
    /\ file \in {"ollama", "queue"} /\ bak \in {"none", "ollama", "queue"}
    /\ status \in Statuses
    /\ shown \in Statuses \union {"none", "scanned"}
    /\ listed \in Statuses \union {"none", "asked"}

\* A backup is of a file that was not routed, and a routed file has one to go back
\* to, unless orders crossed.
WayBack ==
    ~crossed => /\ bak # "queue"
                /\ file = "queue" => bak = "ollama"

\* With no order under way the row says where the file sends its service, unless
\* orders crossed, one stopped half-way, or a routed service was ignored.
RowTellsFile ==
    orders = {} /\ ~crossed /\ ~cut =>
        /\ status \in Routed => file = "queue"
        /\ status = "discovered" => file = "ollama"

ConsumersSound == WayBack /\ RowTellsFile
=============================================================================
