---------------------------- MODULE DeadLetterPage ----------------------------
(* The dead letters as the dashboard handles them: the list of History.jsx,    *)
(* with a button for each row and two for all of it, the fetch that follows    *)
(* every order (stores/health.js), and the endpoints they call (api/dlq.py,    *)
(* db/dlq.py).  The three buttons of a row have a feedback hook each, so that  *)
(* they can all be under way for one entry.                                    *)
EXTENDS Naturals, FiniteSets

CONSTANTS
    Entries,        \* ids of dead letters
    NoEntry,        \* stands for the id in an order for the whole list
    MaxCalls        \* bound: calls in flight

LetterAssumption == NoEntry \notin Entries /\ MaxCalls \in Nat

VARIABLES
    resolution,     \* "absent", "open", "retried", "dismissed" or "deleted"
    rescheduled,    \* entries with a rescheduled_job_id
    requeued,       \* [Entries -> jobs that retry_dlq_entry made of it]
    historyOpen,    \* the page is shown
    listed,         \* dlqEntries: [open, rescheduled]
    busy,           \* <<op, id>> of the buttons that are disabled
    calls,          \* [op, id, stage, seen, older], two that are alike are one
    missed          \* history: the server changed in a way no answer to come tells

letters == <<resolution, rescheduled, requeued>>
letterVars == <<letters, historyOpen, listed, busy, calls, missed>>

RowOps == {"retry", "dismiss", "reschedule"}
ListOps == {"retry all", "clear"}
NothingListed == [open |-> {}, rescheduled |-> {}]
Open == {e \in Entries : resolution[e] = "open"}
Snapshot == [open |-> Open, rescheduled |-> rescheduled \intersect Open]
Call(op, e, stage) == [op |-> op, id |-> e, stage |-> stage, seen |-> NothingListed, older |-> FALSE]
Without(c) == calls \ {c}
Step(c, stage) == Without(c) \union {[c EXCEPT !.stage = stage]}
RoomToCall == Cardinality(calls) < MaxCalls

\* The answers under way were read before what happens now.
Aged(cs) == {IF c.stage = "list read" THEN [c EXCEPT !.older = TRUE] ELSE c : c \in cs}

Init ==
    /\ resolution \in [Entries -> {"absent", "open"}]
    /\ rescheduled = {} /\ requeued = [e \in Entries |-> 0]
    /\ historyOpen = FALSE /\ listed = NothingListed /\ busy = {} /\ calls = {} /\ missed = TRUE

-----------------------------------------------------------------------------
\* History is mounted and fetches; when it is left its feedback hooks are gone.
OpenHistory ==
    /\ ~historyOpen /\ RoomToCall
    /\ historyOpen' = TRUE
    /\ calls' = calls \union {Call("list", NoEntry, "list sent")}
    /\ UNCHANGED <<letters, listed, busy, missed>>

LeaveHistory ==
    /\ historyOpen
    /\ historyOpen' = FALSE /\ busy' = {}
    /\ UNCHANGED <<letters, listed, calls, missed>>

\* A row's button.  Dismissal waits for the row to shatter, still enabled; a row
\* that shows a reschedule offers no second one.
Press(op, e) ==
    /\ historyOpen /\ e \in listed.open /\ <<op, e>> \notin busy /\ RoomToCall
    /\ op = "reschedule" => e \notin listed.rescheduled
    /\ calls' = calls \union {Call(op, e, IF op = "dismiss" THEN "shatter" ELSE "sent")}
    /\ busy' = IF op = "dismiss" THEN busy ELSE busy \union {<<op, e>>}
    /\ UNCHANGED <<letters, historyOpen, listed, missed>>

\* handleRetryAll and handleClearDLQ after window.confirm; clearing shatters the rows.
PressAll(op) ==
    /\ historyOpen /\ listed.open # {} /\ <<op, NoEntry>> \notin busy /\ RoomToCall
    /\ calls' = calls \union {Call(op, NoEntry, IF op = "clear" THEN "shatter" ELSE "sent")}
    /\ busy' = busy \union {<<op, NoEntry>>}
    /\ UNCHANGED <<letters, historyOpen, listed, missed>>

ShatterEnds(c) ==
    /\ c \in calls /\ c.stage = "shatter"
    /\ calls' = Step(c, "sent")
    /\ busy' = IF historyOpen /\ c.id \in listed.open THEN busy \union {<<c.op, c.id>>} ELSE busy
    /\ UNCHANGED <<letters, historyOpen, listed, missed>>

-----------------------------------------------------------------------------
\* The endpoints.  retry_dlq_entry refuses what is resolved, dismiss and reschedule
\* do not look; retry-all lists first, then retries one entry after the other;
\* clear_dlq deletes what is resolved, none of which is listed.
Retried(e) ==
    /\ resolution' = [resolution EXCEPT ![e] = "retried"]
    /\ requeued' = [requeued EXCEPT ![e] = @ + 1]
    /\ UNCHANGED rescheduled
Exists(e) == resolution[e] \notin {"absent", "deleted"}

RetryServedAgain(c) ==
    /\ c \in calls /\ c.op = "retry" /\ c.stage = "sent"
    /\ Retried(c.id)
    /\ calls' = Step(c, "done")
    /\ UNCHANGED <<historyOpen, listed, busy, missed>>

RetryServed(c) ==
    /\ c \in calls /\ c.op = "retry" /\ c.stage = "sent"
    /\ IF resolution[c.id] = "open" THEN Retried(c.id) ELSE UNCHANGED letters
    /\ calls' = Step(c, IF resolution[c.id] = "open" THEN "done" ELSE "refused")
    /\ UNCHANGED <<historyOpen, listed, busy, missed>>

DismissServed(c) ==
    /\ c \in calls /\ c.op = "dismiss" /\ c.stage = "sent"
    /\ IF Exists(c.id) THEN resolution' = [resolution EXCEPT ![c.id] = "dismissed"]
       ELSE UNCHANGED resolution
    /\ calls' = Step(c, IF Exists(c.id) THEN "done" ELSE "refused")
    /\ UNCHANGED <<rescheduled, requeued, historyOpen, listed, busy, missed>>

\* A permanent failure is refused.
RescheduleServed(c) ==
    /\ c \in calls /\ c.op = "reschedule" /\ c.stage = "sent"
    /\ \/ /\ Exists(c.id)
          /\ rescheduled' = rescheduled \union {c.id}
          /\ calls' = Step(c, "done")
       \/ UNCHANGED rescheduled /\ calls' = Step(c, "refused")
    /\ UNCHANGED <<resolution, requeued, historyOpen, listed, busy, missed>>

RetryAllReads(c) ==
    /\ c \in calls /\ c.op = "retry all" /\ c.stage = "sent"
    /\ calls' = Without(c) \union {[c EXCEPT !.stage = "retrying", !.seen = Snapshot]}
    /\ UNCHANGED <<letters, historyOpen, listed, busy, missed>>

RetryAllGoesOn(c) ==
    /\ c \in calls /\ c.stage = "retrying"
    /\ IF c.seen.open = {} THEN calls' = Step(c, "done") /\ UNCHANGED letters
       ELSE \E e \in c.seen.open :
              /\ calls' = Without(c) \union {[c EXCEPT !.seen.open = @ \ {e}]}
              /\ IF resolution[e] = "open" THEN Retried(e) ELSE UNCHANGED letters
    /\ UNCHANGED <<historyOpen, listed, busy, missed>>

ClearServed(c) ==
    /\ c \in calls /\ c.op = "clear" /\ c.stage = "sent"
    /\ resolution' = [e \in Entries |->
                        IF resolution[e] \in {"retried", "dismissed"} THEN "deleted" ELSE resolution[e]]
    /\ calls' = Step(c, "done")
    /\ UNCHANGED <<rescheduled, requeued, historyOpen, listed, busy, missed>>

\* A job is given up, or another client dismisses an entry.
OthersChange(e) ==
    /\ resolution[e] \in {"absent", "open"}
    /\ resolution' = [resolution EXCEPT ![e] = IF @ = "absent" THEN "open" ELSE "dismissed"]
    /\ missed' = TRUE /\ calls' = Aged(calls)
    /\ UNCHANGED <<rescheduled, requeued, historyOpen, listed, busy>>

-----------------------------------------------------------------------------
\* The page again: an order that was refused ends with an error, one that was done
\* fetches the list and ends with its answer.
Refused(c) ==
    /\ c \in calls /\ c.stage = "refused"
    /\ calls' = Without(c) /\ busy' = busy \ {<<c.op, c.id>>}
    /\ UNCHANGED <<letters, historyOpen, listed, missed>>

Refetch(c) ==
    /\ c \in calls /\ c.stage = "done"
    /\ calls' = Step(c, "list sent")
    /\ UNCHANGED <<letters, historyOpen, listed, busy, missed>>

ListRead(c) ==
    /\ c \in calls /\ c.stage = "list sent"
    /\ calls' = Aged(Without(c)) \union {[c EXCEPT !.stage = "list read", !.seen = Snapshot]}
    /\ UNCHANGED <<letters, historyOpen, listed, busy, missed>>

\* The list is replaced; the rows that go take their buttons with them.
ListLanded(c) ==
    /\ c \in calls /\ c.stage = "list read"
    /\ listed' = c.seen
    /\ calls' = Without(c)
    /\ busy' = {b \in busy \ {<<c.op, c.id>>} : b[2] \in c.seen.open \union {NoEntry}}
    /\ missed' = c.older
    /\ UNCHANGED <<letters, historyOpen>>

\* A request or an answer is lost and the order ends with an error; of a fetch the
\* page notices nothing.
Lost(c) ==
    /\ c \in calls /\ c.stage \notin {"shatter", "retrying"}
    /\ busy' = busy \ {<<c.op, c.id>>}
    /\ calls' = Aged(Without(c))
    /\ missed' = (missed \/ c.stage \notin {"sent", "refused"})
    /\ UNCHANGED <<letters, historyOpen, listed>>

Next ==
    \/ OpenHistory \/ LeaveHistory
    \/ \E e \in Entries : OthersChange(e) \/ \E op \in RowOps : Press(op, e)
    \/ \E op \in ListOps : PressAll(op)
    \/ \E c \in calls :
         \/ ShatterEnds(c) \/ RetryServed(c) \/ DismissServed(c) \/ RescheduleServed(c)
         \/ RetryAllReads(c) \/ RetryAllGoesOn(c) \/ ClearServed(c)
         \/ Refused(c) \/ Refetch(c) \/ ListRead(c) \/ ListLanded(c) \/ Lost(c)

LetterSpec == Init /\ [][Next]_letterVars

-----------------------------------------------------------------------------
LetterTypeOK ==
    /\ resolution \in [Entries -> {"absent", "open", "retried", "dismissed", "deleted"}]
    /\ rescheduled \subseteq Entries /\ requeued \in [Entries -> Nat]
    /\ historyOpen \in BOOLEAN /\ missed \in BOOLEAN
    /\ listed.open \subseteq Entries /\ listed.rescheduled \subseteq listed.open
    /\ \A b \in busy : b[1] \in RowOps \union ListOps /\ b[2] \in Entries \union {NoEntry}
    /\ \A c \in calls : c.id \in Entries \union {NoEntry}

\* However the buttons of a row, "re-queue all", a dismissal that was overtaken and
\* another visit of the page interleave, an entry is made a job of once.
RetriedOnce ==
    \A e \in Entries : /\ requeued[e] <= 1
                       /\ resolution[e] = "open" => requeued[e] = 0
                       /\ resolution[e] = "retried" => requeued[e] = 1

\* Once every order has ended, the list is the server's, unless something changed
\* there that no answer told: another client, a lost answer, or an older answer that
\* came last.
PageTruthful == calls = {} /\ ~missed => listed = Snapshot

\* No button stays disabled for an order that is over.
BusyIsUnderWay == \A b \in busy : \E c \in calls : c.op = b[1] /\ c.id = b[2]

LettersHandled == RetriedOnce /\ PageTruthful /\ BusyIsUnderWay
=============================================================================
