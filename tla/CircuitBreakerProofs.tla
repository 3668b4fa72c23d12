------------------------ MODULE CircuitBreakerProofs ------------------------
(***************************************************************************)
(* Proofs about CircuitBreaker for any number of jobs and any settings.    *)
(***************************************************************************)
EXTENDS CircuitBreaker, TLAPS

\* TypeOK without the one Boolean field, which another prover handles.
RestOK ==
    /\ state \in {"CLOSED", "OPEN", "HALF_OPEN"}
    /\ failures \in Nat /\ openedAt \in Nat /\ openAttempts \in Nat
    /\ now \in Nat /\ through \in Nat
    /\ threshold \in Thresholds
    /\ poll \in [pc : {"top", "cooldown", "transition", "dispatch"},
                 attempt : Nat, openedAt : Nat]
    /\ job \in [Jobs -> {"absent", "pending", "running", "done"}]

\* Clocks and counters only ever grow from naturals.
LEMMA RestTypes == Spec => []RestOK
  <1>1. Init => RestOK
    BY BreakerAssumption DEF Init, RestOK, AtTop, At
  <1>2. RestOK /\ [Next]_vars => RestOK'
    <2> SUFFICES ASSUME RestOK, [Next]_vars PROVE RestOK'
      OBVIOUS
    <2> USE BreakerAssumption DEF RestOK, vars, breaker, At, AtTop, AtDispatch
    <2>1. ASSUME NEW j \in Jobs, WorkerStep(j) \/ Submit(j) PROVE RestOK'
      <3>1. CASE RecordFailure(j)
        BY <3>1 DEF RecordFailure, FailureOpens
      <3>2. CASE RecordSuccess(j)
        BY <3>2 DEF RecordSuccess
      <3>3. CASE EndsSilently(j) \/ Submit(j)
        BY <3>3 DEF EndsSilently, Submit
      <3>4. QED
        BY <2>1, <3>1, <3>2, <3>3 DEF WorkerStep
    <2>2. CASE GateClosed \/ GateProbe \/ GateOpen
      BY <2>2 DEF GateClosed, GateProbe, GateOpen
    <2>3. CASE StillCooling \/ CooldownOver \/ CooldownRaises
      BY <2>3 DEF StillCooling, CooldownOver, CooldownRaises
    <2>4. CASE HalfOpen \/ TransitionLate \/ DispatchNothing
      BY <2>4 DEF HalfOpen, TransitionLate, DispatchNothing
    <2>5. ASSUME NEW j \in Jobs, Dispatch(j) PROVE RestOK'
      BY <2>5 DEF Dispatch
    <2>6. ASSUME NEW n \in Thresholds, SetThreshold(n) PROVE RestOK'
      BY <2>6 DEF SetThreshold
    <2>7. CASE Tick
      BY <2>7 DEF Tick
    <2>8. CASE Restart
      <3>1. job' \in [Jobs -> {"absent", "pending", "running", "done"}]
        BY <2>8 DEF Restart
      <3>2. /\ state' = "CLOSED" /\ failures' = 0 /\ openedAt' = 0 /\ openAttempts' = 0
            /\ probeInFlight' = FALSE /\ now' = 0 /\ through' = 0
            /\ poll' = AtTop /\ threshold' = threshold
        BY <2>8 DEF Restart
      <3>3. QED
        BY <3>1, <3>2
    <2>9. CASE UNCHANGED vars
      BY <2>9
    <2>10. QED
      BY <2>1, <2>2, <2>3, <2>4, <2>5, <2>6, <2>7, <2>8, <2>9 DEF Next, PollStep
  <1>3. QED
    BY <1>1, <1>2, PTL DEF Spec

\* Every field of the breaker, the poll thread and the jobs keeps its type.
THEOREM BreakerTypes == Spec => []TypeOK
  <1> DEFINE FlagOK == probeInFlight \in BOOLEAN
  <1>1. Init => FlagOK
    BY Zenon DEF Init
  <1>2. FlagOK /\ [Next]_vars => FlagOK'
    <2> SUFFICES ASSUME probeInFlight \in BOOLEAN, [Next]_vars
                 PROVE  probeInFlight' \in BOOLEAN
      OBVIOUS
    <2>1. ASSUME NEW j \in Jobs, WorkerStep(j) \/ Submit(j) PROVE probeInFlight' \in BOOLEAN
      BY <2>1, Zenon DEF WorkerStep, RecordFailure, RecordSuccess, EndsSilently, Submit, breaker
    <2>2. CASE GateClosed \/ GateProbe \/ GateOpen
      BY <2>2, Zenon DEF GateClosed, GateProbe, GateOpen, breaker
    <2>3. CASE StillCooling \/ CooldownOver \/ CooldownRaises
      BY <2>3, Zenon DEF StillCooling, CooldownOver, CooldownRaises, breaker
    <2>4. CASE HalfOpen \/ TransitionLate \/ DispatchNothing
      BY <2>4, Zenon DEF HalfOpen, TransitionLate, DispatchNothing, breaker
    <2>5. ASSUME NEW j \in Jobs, Dispatch(j) PROVE probeInFlight' \in BOOLEAN
      BY <2>5, Zenon DEF Dispatch, breaker
    <2>6. ASSUME NEW n \in Thresholds, SetThreshold(n) PROVE probeInFlight' \in BOOLEAN
      BY <2>6, Zenon DEF SetThreshold, breaker
    <2>7. CASE Tick \/ Restart
      BY <2>7, Zenon DEF Tick, Restart, breaker
    <2>8. CASE UNCHANGED vars
      BY <2>8, Zenon DEF vars, breaker
    <2>9. QED
      BY <2>1, <2>2, <2>3, <2>4, <2>5, <2>6, <2>7, <2>8, Zenon DEF Next, PollStep
  <1>3. RestOK /\ FlagOK => TypeOK
    BY DEF RestOK, TypeOK
  <1> HIDE DEF FlagOK
  <1>4. QED
    BY <1>1, <1>2, <1>3, RestTypes, PTL DEF Spec

\* The inductive strengthening of OpenLetsOneThrough: the job that the poll thread
\* is still dispatching counts.
OpenInv == state = "OPEN" => IF poll.pc = "dispatch" THEN through = 0 ELSE through <= 1

\* With any number of jobs and whatever the threshold is set to, at most one job
\* gets through an open circuit: one the poll thread had let past when it opened.
THEOREM OpenHolds == Spec => []OpenLetsOneThrough
  <1>1. Init => OpenInv
    BY DEF Init, OpenInv
  <1>2. TypeOK /\ OpenInv /\ [Next]_vars => OpenInv'
    <2> SUFFICES ASSUME TypeOK, OpenInv, [Next]_vars PROVE OpenInv'
      OBVIOUS
    <2> USE DEF TypeOK, OpenInv, vars, breaker, At, AtTop, AtDispatch
    <2>1. ASSUME NEW j \in Jobs, RecordFailure(j) PROVE OpenInv'
      BY <2>1 DEF RecordFailure
    <2>2. ASSUME NEW j \in Jobs, RecordSuccess(j) \/ EndsSilently(j) \/ Submit(j) PROVE OpenInv'
      BY <2>2 DEF RecordSuccess, EndsSilently, Submit
    <2>3. CASE GateClosed \/ GateProbe \/ GateOpen
      BY <2>3 DEF GateClosed, GateProbe, GateOpen
    <2>4. CASE StillCooling \/ CooldownOver \/ CooldownRaises
      BY <2>4 DEF StillCooling, CooldownOver, CooldownRaises
    <2>5. CASE HalfOpen \/ TransitionLate \/ DispatchNothing
      BY <2>5 DEF HalfOpen, TransitionLate, DispatchNothing
    <2>6. ASSUME NEW j \in Jobs, Dispatch(j) PROVE OpenInv'
      BY <2>6 DEF Dispatch
    <2>7. ASSUME NEW m \in Thresholds, SetThreshold(m) PROVE OpenInv'
      BY <2>7 DEF SetThreshold
    <2>8. CASE Tick \/ Restart
      BY <2>8 DEF Tick, Restart
    <2>9. CASE UNCHANGED vars
      BY <2>9
    <2>10. QED
      BY <2>1, <2>2, <2>3, <2>4, <2>5, <2>6, <2>7, <2>8, <2>9 DEF Next, PollStep, WorkerStep
  <1>3. TypeOK /\ OpenInv => OpenLetsOneThrough
    BY DEF TypeOK, OpenInv, OpenLetsOneThrough
  <1>4. QED
    BY <1>1, <1>2, <1>3, BreakerTypes, PTL DEF Spec

\* The inductive strengthening of AtMostOneThrough.  A breaker that is not closed
\* has a full streak, so any report ends HALF_OPEN; hence the flag stays up as
\* long as HALF_OPEN lasts, and a poll past the gate is the only one.
GateInv(n) ==
    /\ state # "CLOSED" => failures >= n
    /\ state = "HALF_OPEN" => probeInFlight
    /\ poll.pc \in {"cooldown", "transition"} => state # "HALF_OPEN"
    /\ state # "CLOSED" => IF poll.pc = "dispatch" THEN through = 0 ELSE through <= 1

\* The breaker's reports, polls and settings preserve GateInv.
LEMMA GateLemma ==
    ASSUME NEW n \in Nat, Thresholds \subseteq {n, n + 1}
    PROVE  Spec => [](TypeOK /\ GateInv(n))
  <1>1. Init => GateInv(n)
    BY DEF Init, GateInv, AtTop, At
  <1>2. TypeOK /\ GateInv(n) /\ [Next]_vars => GateInv(n)'
    <2> SUFFICES ASSUME TypeOK, GateInv(n), [Next]_vars PROVE GateInv(n)'
      OBVIOUS
    <2> USE DEF TypeOK, GateInv, vars, breaker, At, AtTop, AtDispatch
    <2>a. threshold \in {n, n + 1} /\ failures \in Nat /\ through \in Nat
      OBVIOUS
    <2>1. ASSUME NEW j \in Jobs, RecordFailure(j) PROVE GateInv(n)'
      <3>1. CASE FailureOpens
        BY <2>a, <2>1, <3>1 DEF RecordFailure, FailureOpens
      <3>2. CASE ~FailureOpens
        <4>1. state # "HALF_OPEN"
          BY <2>a, <3>2 DEF FailureOpens
        <4>2. QED
          BY <2>a, <2>1, <3>2, <4>1 DEF RecordFailure
      <3>3. QED
        BY <3>1, <3>2
    <2>2. ASSUME NEW j \in Jobs, RecordSuccess(j) PROVE GateInv(n)'
      BY <2>2 DEF RecordSuccess
    <2>3. ASSUME NEW j \in Jobs, EndsSilently(j) \/ Submit(j) PROVE GateInv(n)'
      BY <2>3 DEF EndsSilently, Submit
    <2>4. CASE GateClosed \/ GateProbe \/ GateOpen
      BY <2>4 DEF GateClosed, GateProbe, GateOpen
    <2>5. CASE StillCooling \/ CooldownOver \/ CooldownRaises
      BY <2>5 DEF StillCooling, CooldownOver, CooldownRaises
    <2>6. CASE HalfOpen
      BY <2>6 DEF HalfOpen
    <2>7. CASE TransitionLate \/ DispatchNothing
      BY <2>7 DEF TransitionLate, DispatchNothing
    <2>8. ASSUME NEW j \in Jobs, Dispatch(j) PROVE GateInv(n)'
      BY <2>8 DEF Dispatch
    <2>9. ASSUME NEW m \in Thresholds, SetThreshold(m) PROVE GateInv(n)'
      BY <2>a, <2>9 DEF SetThreshold
    <2>10. CASE Tick \/ Restart
      BY <2>10 DEF Tick, Restart
    <2>11. CASE UNCHANGED vars
      BY <2>11
    <2>12. QED
      BY <2>1, <2>2, <2>3, <2>4, <2>5, <2>6, <2>7, <2>8, <2>9, <2>10, <2>11
      DEF Next, PollStep, WorkerStep
  <1>3. QED
    BY <1>1, <1>2, BreakerTypes, PTL DEF Spec

\* As long as cb_failure_threshold is not raised by more than one, a half-open circuit
\* lets one probe through at a time, however the late reports of other workers
\* interleave with the three phases of the gate.
THEOREM GateHolds ==
    ASSUME NEW n \in Nat, Thresholds \subseteq {n, n + 1}
    PROVE  Spec => []AtMostOneThrough
  <1>1. TypeOK /\ GateInv(n) => AtMostOneThrough
    BY DEF TypeOK, GateInv, AtMostOneThrough
  <1>2. QED
    BY <1>1, GateLemma, PTL

\* Under the same condition the daemon's breaker implements BreakerGate: each step of
\* a worker, the poll thread or the API is a step of the gate or leaves it alone.
THEOREM GateImplemented ==
    ASSUME NEW n \in Nat, Thresholds \subseteq {n, n + 1}
    PROVE  Spec => ImplementsGate
  <1> USE DEF vars, breaker, Gate!vars
  <1>1. Init => Gate!Init
    BY DEF Init, Gate!Init
  <1>2. TypeOK /\ GateInv(n) /\ [Next]_vars => [Gate!Next]_Gate!vars
    <2> SUFFICES ASSUME TypeOK, GateInv(n), [Next]_vars
                 PROVE  Gate!Next \/ UNCHANGED <<state, through>>
      OBVIOUS
    <2> USE DEF Gate!Next, Gate!Pass, Gate!Enter, Gate!Trip, Gate!Probe, Gate!Reset
    <2>1. ASSUME NEW j \in Jobs, WorkerStep(j) \/ Submit(j)
          PROVE  Gate!Next \/ UNCHANGED <<state, through>>
      BY <2>1 DEF WorkerStep, RecordFailure, FailureOpens, RecordSuccess, EndsSilently, Submit
    <2>2. CASE GateClosed \/ GateProbe \/ GateOpen \/ StillCooling \/ CooldownOver \/ CooldownRaises
      BY <2>2 DEF GateClosed, GateProbe, GateOpen, StillCooling, CooldownOver, CooldownRaises
    <2>3. CASE HalfOpen \/ TransitionLate \/ DispatchNothing
      BY <2>3 DEF HalfOpen, TransitionLate, DispatchNothing
    \* Only here the invariant is needed.
    <2>4. ASSUME NEW j \in Jobs, Dispatch(j) PROVE Gate!Pass
      BY <2>4 DEF Dispatch, GateInv
    <2>5. ASSUME NEW m \in Thresholds, SetThreshold(m) PROVE UNCHANGED <<state, through>>
      BY <2>5 DEF SetThreshold
    <2>6. CASE Tick \/ Restart
      BY <2>6 DEF Tick, Restart
    <2>7. CASE UNCHANGED vars
      BY <2>7
    <2>8. QED
      BY <2>1, <2>2, <2>3, <2>4, <2>5, <2>6, <2>7 DEF Next, PollStep
  <1>3. QED
    BY <1>1, <1>2, GateLemma, PTL DEF Spec, ImplementsGate, Gate!Spec
=============================================================================
