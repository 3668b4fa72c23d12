----------------------------- MODULE SubmitForm ------------------------------
(* The submit dialog (components/SubmitJobModal.jsx) and the feedback hook it  *)
(* shares with every action button (hooks/useActionFeedback.js): the phase of  *)
(* the button, the timer that returns it to idle three seconds after a success *)
(* and the one that closes the dialog after one and a half.                    *)
EXTENDS Naturals

CONSTANTS
    MaxRequests     \* bound: submissions in a behaviour

SubmitAssumption == MaxRequests \in Nat

VARIABLES
    open,           \* the dialog is shown
    command,        \* "empty" or "typed": what the form holds
    error,          \* the inline validation error is shown
    phase,          \* of the button: "idle", "loading", "success", "error"
    idleTimer,      \* timerRef is armed: three seconds to idle
    closers,        \* armed timers that close the dialog and reset the form
    inFlight,       \* submissions on their way
    sent,           \* submissions so far (bound)
    jobs,           \* jobs the server made of them
    staleReset      \* history: idleTimer has fired while a submission was loading

form == <<open, command, error>>
vars == <<form, phase, idleTimer, closers, inFlight, sent, jobs, staleReset>>

Init ==
    /\ open = FALSE /\ command = "empty" /\ error = FALSE
    /\ phase = "idle" /\ idleTimer = FALSE /\ closers = 0
    /\ inFlight = 0 /\ sent = 0 /\ jobs = 0
    /\ staleReset = FALSE

Open ==
    /\ ~open
    /\ open' = TRUE
    /\ UNCHANGED <<command, error, phase, idleTimer, closers, inFlight, sent, jobs, staleReset>>

Type ==
    /\ open
    /\ command' \in {"empty", "typed"} \ {command}
    /\ UNCHANGED <<open, error, phase, idleTimer, closers, inFlight, sent, jobs, staleReset>>

\* Escape or the backdrop: the form keeps what it holds.
Dismiss ==
    /\ open
    /\ open' = FALSE
    /\ UNCHANGED <<command, error, phase, idleTimer, closers, inFlight, sent, jobs, staleReset>>

ResetForm == command' = "empty" /\ error' = FALSE

\* handleCancel
Cancel ==
    /\ open
    /\ open' = FALSE
    /\ ResetForm
    /\ UNCHANGED <<phase, idleTimer, closers, inFlight, sent, jobs, staleReset>>

\* handleSubmit with a form validate() refuses.
SubmitInvalid ==
    /\ open /\ phase # "loading" /\ command = "empty"
    /\ error' = TRUE
    /\ UNCHANGED <<open, command, phase, idleTimer, closers, inFlight, sent, jobs, staleReset>>

\* handleSubmit: run() returns at once while the phase it sees is loading. The
\* idle timer of an earlier success is not cleared here.
Submit ==
    /\ open /\ phase # "loading" /\ command = "typed"
    /\ sent < MaxRequests
    /\ error' = FALSE
    /\ phase' = "loading"
    /\ inFlight' = inFlight + 1
    /\ sent' = sent + 1
    /\ UNCHANGED <<open, command, idleTimer, closers, jobs, staleReset>>

\* submitJob returns: the queue is refreshed, the dialog will close, and the idle
\* timer is re-armed.
Accepted ==
    /\ inFlight > 0
    /\ inFlight' = inFlight - 1
    /\ jobs' = jobs + 1
    /\ closers' = closers + 1
    /\ phase' = "success"
    /\ idleTimer' = TRUE
    /\ UNCHANGED <<form, sent, staleReset>>

\* submitJob throws (429, network).
Refused ==
    /\ inFlight > 0
    /\ inFlight' = inFlight - 1
    /\ phase' = "error"
    /\ UNCHANGED <<form, idleTimer, closers, sent, jobs, staleReset>>

\* Half of the idle timer's delay after the success it belongs to.
CloserFires ==
    /\ closers > 0
    /\ closers' = closers - 1
    /\ open' = FALSE
    /\ ResetForm
    /\ UNCHANGED <<phase, idleTimer, inFlight, sent, jobs, staleReset>>

\* Armed with or after every closer and twice as long: it fires after them all.
IdleTimerFires ==
    /\ idleTimer /\ closers = 0
    /\ idleTimer' = FALSE
    /\ phase' = "idle"
    /\ staleReset' = (staleReset \/ phase = "loading")
    /\ UNCHANGED <<form, closers, inFlight, sent, jobs>>

Next ==
    \/ Open \/ Type \/ Dismiss \/ Cancel \/ SubmitInvalid \/ Submit
    \/ Accepted \/ Refused \/ CloserFires \/ IdleTimerFires

Spec == Init /\ [][Next]_vars

-----------------------------------------------------------------------------
TypeOK ==
    /\ open \in BOOLEAN /\ command \in {"empty", "typed"} /\ error \in BOOLEAN
    /\ phase \in {"idle", "loading", "success", "error"} /\ idleTimer \in BOOLEAN
    /\ closers \in Nat /\ inFlight \in Nat /\ sent \in 0..MaxRequests /\ jobs \in Nat
    /\ staleReset \in BOOLEAN

\* Two submissions are on their way at once only after the idle timer of an
\* earlier success has re-enabled the button of a later one: the guard of run()
\* fails in no other way.
OverlapNeedsStaleTimer == inFlight > 1 => staleReset
=============================================================================
