---------------------------- MODULE CircuitBreaker ----------------------------
(***************************************************************************)
(* The circuit breaker of the daemon (loop.py): workers report the outcome *)
(* of their runs to it (_record_ollama_failure, _record_ollama_success),   *)
(* the poll thread asks it before each dispatch (_is_circuit_open).  The   *)
(* question is asked in three phases and _cb_lock is free between them:    *)
(* the state is read, the cooldown is computed from the database, and the  *)
(* transition to HALF_OPEN re-checks the state.  A report is one critical  *)
(* section, and its threshold cannot change under it: the caller holds     *)
(* db._lock.  All of it is memory of the process: a restart forgets it.    *)
(***************************************************************************)
EXTENDS Naturals

CONSTANTS
    Jobs,           \* ids of rows of the jobs table
    Thresholds,     \* values the setting cb_failure_threshold takes
    BaseCooldown,   \* setting cb_base_cooldown
    MaxCooldown,    \* setting cb_max_cooldown
    MaxExponent,    \* base * 2**attempt raises OverflowError above (1023)
    SilentEnds      \* a run may end without a report (preempted, check_command)

ASSUME BreakerAssumption ==
    /\ Thresholds \subseteq Nat \ {0}
    /\ Thresholds # {}
    /\ BaseCooldown \in Nat /\ MaxCooldown \in Nat /\ MaxExponent \in Nat
    /\ SilentEnds \in BOOLEAN

VARIABLES
    state,          \* _cb_state
    failures,       \* _cb_failures
    openedAt,       \* _cb_opened_at
    openAttempts,   \* _cb_open_attempts
    probeInFlight,  \* _cb_probe_in_flight
    threshold,      \* the setting cb_failure_threshold
    now,            \* the clock
    poll,           \* the poll thread: its place and what phase 1 read
    job,            \* the jobs as the breaker sees them
    through         \* history: dispatches since the state last changed

breaker == <<state, failures, openedAt, openAttempts, probeInFlight>>
vars == <<breaker, threshold, now, poll, job, through>>

At(pc, attempt, opened) == [pc |-> pc, attempt |-> attempt, openedAt |-> opened]
AtTop == At("top", 0, 0)
AtDispatch == At("dispatch", 0, 0)

Init ==
    /\ state = "CLOSED"
    /\ failures = 0
    /\ openedAt = 0
    /\ openAttempts = 0
    /\ probeInFlight = FALSE
    /\ threshold \in Thresholds
    /\ now = 0
    /\ poll = AtTop
    /\ job = [j \in Jobs |-> "absent"]
    /\ through = 0

-----------------------------------------------------------------------------
(* Workers.                                                                *)

FailureOpens == failures + 1 >= threshold /\ state \in {"CLOSED", "HALF_OPEN"}

RecordFailure(j) ==
    /\ job[j] = "running"
    /\ job' = [job EXCEPT ![j] = "done"]
    /\ probeInFlight' = FALSE
    /\ failures' = failures + 1
    /\ IF FailureOpens
       THEN /\ state' = "OPEN"
            /\ openedAt' = now
            /\ openAttempts' = openAttempts + 1
            /\ through' = 0
       ELSE UNCHANGED <<state, openedAt, openAttempts, through>>
    /\ UNCHANGED <<threshold, now, poll>>

\* Mutants of RecordSuccess: HALF_OPEN is not left; the attempts decay below zero.
RecordSuccessKeepsState(j) ==
    /\ job[j] = "running"
    /\ job' = [job EXCEPT ![j] = "done"]
    /\ probeInFlight' = FALSE
    /\ failures' = 0
    /\ UNCHANGED <<state, openedAt, openAttempts, threshold, now, poll, through>>

RecordSuccess(j) ==
    /\ job[j] = "running"
    /\ job' = [job EXCEPT ![j] = "done"]
    /\ probeInFlight' = FALSE
    /\ failures' = 0
    /\ state' = "CLOSED"
    /\ through' = IF state = "CLOSED" THEN through ELSE 0
    /\ UNCHANGED <<openedAt, openAttempts, threshold, now, poll>>

\* Preempted, or check_command said skip: _run_job returns before any report.
EndsSilently(j) ==
    /\ SilentEnds
    /\ job[j] = "running"
    /\ job' = [job EXCEPT ![j] = "done"]
    /\ UNCHANGED <<breaker, threshold, now, poll, through>>

-----------------------------------------------------------------------------
(* The poll thread: _is_circuit_open, then the dispatch of one job.        *)

\* Phase 1.  In HALF_OPEN with a probe in flight the poll cycle just ends.
GateClosed ==
    /\ poll.pc = "top"
    /\ state = "CLOSED"
    /\ poll' = AtDispatch
    /\ UNCHANGED <<breaker, threshold, now, job, through>>

GateProbe ==
    /\ poll.pc = "top"
    /\ state = "HALF_OPEN" /\ ~probeInFlight
    /\ probeInFlight' = TRUE
    /\ poll' = AtDispatch
    /\ UNCHANGED <<state, failures, openedAt, openAttempts, threshold, now, job, through>>

\* Mutant of GateOpen: the cooldown is counted from now.
GateOpenFromNow ==
    /\ poll.pc = "top"
    /\ state = "OPEN"
    /\ poll' = At("cooldown", openAttempts, now)
    /\ UNCHANGED <<breaker, threshold, now, job, through>>

GateOpen ==
    /\ poll.pc = "top"
    /\ state = "OPEN"
    /\ poll' = At("cooldown", openAttempts, openedAt)
    /\ UNCHANGED <<breaker, threshold, now, job, through>>

\* Phase 2, _compute_cb_cooldown with the values phase 1 read.
Doubled(attempt) == BaseCooldown * 2^attempt
Cooldown(attempt) == IF Doubled(attempt) < MaxCooldown THEN Doubled(attempt) ELSE MaxCooldown
CooldownElapsed == now - poll.openedAt >= Cooldown(poll.attempt)

\* Mutant of StillCooling: the poll cycle goes on.
StillCoolingDispatches ==
    /\ poll.pc = "cooldown"
    /\ poll.attempt <= MaxExponent
    /\ ~CooldownElapsed
    /\ poll' = AtDispatch
    /\ UNCHANGED <<breaker, threshold, now, job, through>>

StillCooling ==
    /\ poll.pc = "cooldown"
    /\ poll.attempt <= MaxExponent
    /\ ~CooldownElapsed
    /\ poll' = AtTop
    /\ UNCHANGED <<breaker, threshold, now, job, through>>

CooldownOver ==
    /\ poll.pc = "cooldown"
    /\ poll.attempt <= MaxExponent
    /\ CooldownElapsed
    /\ poll' = At("transition", poll.attempt, poll.openedAt)
    /\ UNCHANGED <<breaker, threshold, now, job, through>>

\* OverflowError: the cycle is abandoned, run() logs it and polls again.
CooldownRaises ==
    /\ poll.pc = "cooldown"
    /\ poll.attempt > MaxExponent
    /\ poll' = AtTop
    /\ UNCHANGED <<breaker, threshold, now, job, through>>

\* Mutant of HalfOpen: the probe is not flagged.
HalfOpenUnflagged ==
    /\ poll.pc = "transition"
    /\ state = "OPEN"
    /\ state' = "HALF_OPEN"
    /\ through' = 0
    /\ poll' = AtDispatch
    /\ UNCHANGED <<failures, openedAt, openAttempts, probeInFlight, threshold, now, job>>

\* Another one: the state is not looked at again.
HalfOpenUnchecked ==
    /\ poll.pc = "transition"
    /\ state' = "HALF_OPEN"
    /\ probeInFlight' = TRUE
    /\ through' = 0
    /\ poll' = AtDispatch
    /\ UNCHANGED <<failures, openedAt, openAttempts, threshold, now, job>>

\* Phase 3.
HalfOpen ==
    /\ poll.pc = "transition"
    /\ state = "OPEN"
    /\ state' = "HALF_OPEN"
    /\ probeInFlight' = TRUE
    /\ through' = 0
    /\ poll' = AtDispatch
    /\ UNCHANGED <<failures, openedAt, openAttempts, threshold, now, job>>

TransitionLate ==
    /\ poll.pc = "transition"
    /\ state # "OPEN"
    /\ poll' = AtDispatch
    /\ UNCHANGED <<breaker, threshold, now, job, through>>

Dispatch(j) ==
    /\ poll.pc = "dispatch"
    /\ job[j] = "pending"
    /\ job' = [job EXCEPT ![j] = "running"]
    /\ through' = through + 1
    /\ poll' = AtTop
    /\ UNCHANGED <<breaker, threshold, now>>

\* Nothing to dispatch: no eligible job, a health or yield pause, _can_admit.
DispatchNothing ==
    /\ poll.pc = "dispatch"
    /\ poll' = AtTop
    /\ UNCHANGED <<breaker, threshold, now, job, through>>

-----------------------------------------------------------------------------
(* The rest of the world.                                                  *)

Submit(j) ==
    /\ job[j] = "absent"
    /\ job' = [job EXCEPT ![j] = "pending"]
    /\ UNCHANGED <<breaker, threshold, now, poll, through>>

SetThreshold(n) ==
    /\ n # threshold
    /\ threshold' = n
    /\ UNCHANGED <<breaker, now, poll, job, through>>

\* Time matters while the circuit is open, and no longer than MaxCooldown.
Tick ==
    /\ state = "OPEN"
    /\ now - openedAt < MaxCooldown
    /\ now' = now + 1
    /\ UNCHANGED <<breaker, threshold, poll, job, through>>

\* The process dies and comes back: a fresh Daemon, its rows pending again.
Restart ==
    /\ state' = "CLOSED"
    /\ failures' = 0
    /\ openedAt' = 0
    /\ openAttempts' = 0
    /\ probeInFlight' = FALSE
    /\ now' = 0
    /\ poll' = AtTop
    /\ job' = [j \in Jobs |-> IF job[j] = "running" THEN "pending" ELSE job[j]]
    /\ through' = 0
    /\ UNCHANGED threshold

WorkerStep(j) == RecordFailure(j) \/ RecordSuccess(j) \/ EndsSilently(j)

PollStep == \/ GateClosed
            \/ GateProbe
            \/ GateOpen
            \/ StillCooling
            \/ CooldownOver
            \/ CooldownRaises
            \/ HalfOpen
            \/ TransitionLate
            \/ \E j \in Jobs : Dispatch(j)
            \/ DispatchNothing

Next == \/ \E j \in Jobs : WorkerStep(j) \/ Submit(j)
        \/ PollStep
        \/ \E n \in Thresholds : SetThreshold(n)
        \/ Tick
        \/ Restart

Spec == Init /\ [][Next]_vars

(* The poll loop runs for ever, runs end, time passes, and a queued job is *)
(* dispatched by one of the poll cycles that the breaker lets through.     *)
Fairness ==
    /\ WF_vars(PollStep)
    /\ WF_vars(Tick)
    /\ SF_vars(CooldownOver)
    /\ \A j \in Jobs : WF_vars(WorkerStep(j)) /\ SF_vars(Dispatch(j))

FairSpec == Spec /\ Fairness

-----------------------------------------------------------------------------
(* Type invariant: the breaker's fields, the poll thread and the jobs.     *)
TypeOK ==
    /\ state \in {"CLOSED", "OPEN", "HALF_OPEN"}
    /\ failures \in Nat /\ openedAt \in Nat /\ openAttempts \in Nat
    /\ now \in Nat /\ through \in Nat
    /\ probeInFlight \in BOOLEAN
    /\ threshold \in Thresholds
    /\ poll \in [pc : {"top", "cooldown", "transition", "dispatch"},
                 attempt : Nat, openedAt : Nat]
    /\ job \in [Jobs -> {"absent", "pending", "running", "done"}]

\* An open circuit lets nothing through but the one job the poll thread was already
\* dispatching when a worker opened it, whatever the threshold is set to meanwhile.
OpenLetsOneThrough == state = "OPEN" => through <= 1

\* "allow one probe": while the circuit is not closed at most one job gets through,
\* the probe of HALF_OPEN or the job the poll thread was dispatching when it opened.
AtMostOneThrough == state # "CLOSED" => through <= 1

Gate == INSTANCE BreakerGate WITH phase <- state, passed <- through

\* The three phases, with the lock free between them and reports of workers in
\* between, implement the gate of BreakerGate: above all, a circuit that a late
\* success has closed is not half-opened, and no second job slips through.
ImplementsGate == Gate!Spec

\* A probe that was dispatched and reports ends the HALF_OPEN state.
DispatchedProbeResolves == (state = "HALF_OPEN" /\ through > 0) ~> state # "HALF_OPEN"

\* An open circuit is probed once its cooldown, "capped at max", has elapsed.
OpenIsProbed == state = "OPEN" ~> state # "OPEN"

\* "block subsequent polls until probe resolves" (_is_circuit_open): a queued job
\* is not blocked for ever.
QueuedJobStarts == \A j \in Jobs : job[j] = "pending" ~> job[j] # "pending"
=============================================================================
