------------------------------ MODULE RunTrigger ------------------------------
(* The panel that starts an evaluation run (components/eval/RunTriggerPanel,   *)
(* SchedulingModeSelector): the form is of the mounted panel, the fields of a  *)
(* scheduling mode are signals of the page's module and outlive it.  The       *)
(* readiness of the data is asked at every opening; answers land in any order. *)
(* What a started run does next is EvalConsole's.                              *)
EXTENDS Naturals, FiniteSets

CONSTANTS
    Variants,       \* configurations to compare
    Hours,          \* time limits of a fill run
    NoField,        \* a field that is not in the body
    MaxChecks,      \* bound: readiness checks in flight
    MaxStarts       \* bound: starts in flight

TriggerAssumption ==
    /\ NoField \notin Hours \union {"time", "count", "both", "soon", "later"}
    /\ MaxChecks \in Nat /\ MaxStarts \in Nat

VARIABLES
    panel,          \* "gone", "closed" or "open"
    picked,         \* selectedVariants
    options,        \* the scorer and size fields, by where their values are from
    runMode, modeFields,
    fillLimit, fillHours, scheduledAt,      \* the module's signals
    verdict,        \* readiness.phase
    checks,         \* how many readiness checks of the panel are in flight
    priming,        \* primeFb.phase is "loading"
    starting,       \* fb.phase is "loading"
    starts          \* the panel's starts in flight: [mode, fields, options, chosen]

form == <<picked, options, runMode, modeFields>>
modeSignals == <<fillLimit, fillHours, scheduledAt>>
readiness == <<verdict, checks, priming>>
triggerVars == <<panel, form, modeSignals, readiness, starting, starts>>

Modes == {"batch", "opportunistic", "fill-open-slots", "scheduled"}
Limits == {"time", "count", "both"}
Moments == {"soon", "later"}

Init ==
    /\ panel = "gone" /\ picked = {} /\ options = "fallback" /\ runMode = "batch"
    /\ modeFields = [limit |-> NoField, hours |-> NoField, at |-> NoField]
    /\ fillLimit = "time" /\ fillHours \in Hours /\ scheduledAt = "soon"
    /\ verdict = "none" /\ checks = 0 /\ priming = FALSE /\ starting = FALSE /\ starts = {}

\* buildSubFields: the fields a mode adds to the body.
BuildSubFields(mode, limit, hours, at) ==
    [limit |-> IF mode = "fill-open-slots" THEN limit ELSE NoField,
     hours |-> IF mode = "fill-open-slots" /\ limit # "count" THEN hours ELSE NoField,
     at |-> IF mode = "scheduled" THEN at ELSE NoField]

-----------------------------------------------------------------------------
\* checkReadiness: the verdict is open again until an answer comes, this one or an older.
CheckReadiness == checks < MaxChecks /\ verdict' = "checking" /\ checks' = checks + 1

\* The panel mounts, collapsed while a run is shown, with a form of its own: its
\* options are the settings', or fixed values for good if those have not come.
MountPanel ==
    /\ panel = "gone"
    /\ panel' \in {"open", "closed"}
    /\ picked' = {} /\ runMode' = "batch"
    /\ options' \in {"fallback", "settings"}
    /\ modeFields' = [limit |-> NoField, hours |-> NoField, at |-> NoField]
    /\ IF panel' = "open" THEN CheckReadiness ELSE verdict' = "none" /\ UNCHANGED checks
    /\ UNCHANGED <<modeSignals, priming, starting, starts>>

\* The page is left: what is under way has no panel to tell.
LeavePanel ==
    /\ panel # "gone" /\ panel' = "gone"
    /\ verdict' = "none" /\ checks' = 0 /\ priming' = FALSE /\ starting' = FALSE /\ starts' = {}
    /\ UNCHANGED <<form, modeSignals>>

TogglePanel ==
    /\ \/ panel = "open" /\ panel' = "closed" /\ UNCHANGED <<verdict, checks>>
       \/ panel = "closed" /\ panel' = "open" /\ CheckReadiness
    /\ UNCHANGED <<form, modeSignals, priming, starting, starts>>

TryAgain ==
    /\ panel = "open" /\ verdict = "offline"
    /\ CheckReadiness
    /\ UNCHANGED <<panel, form, modeSignals, priming, starting, starts>>

CheckLands ==
    /\ checks > 0 /\ checks' = checks - 1
    /\ verdict' \in {"ready", "needs_prime", "offline"}
    /\ UNCHANGED <<panel, form, modeSignals, priming, starting, starts>>

Prime ==
    /\ panel = "open" /\ verdict = "needs_prime" /\ ~priming
    /\ priming' = TRUE
    /\ UNCHANGED <<panel, form, modeSignals, verdict, checks, starting, starts>>

\* The counts in the answer are the verdict; a failure says nothing about the data.
PrimeLands ==
    /\ priming /\ priming' = FALSE
    /\ verdict' \in {verdict, "ready", "needs_prime"}
    /\ UNCHANGED <<panel, form, modeSignals, checks, starting, starts>>

-----------------------------------------------------------------------------
\* Items per group, scorer, scoring strategy, and the two backends.
EditOptions ==
    /\ panel = "open" /\ options # "edited" /\ options' = "edited"
    /\ UNCHANGED <<panel, picked, runMode, modeFields, modeSignals, readiness, starting, starts>>

ToggleVariant(v) ==
    /\ panel = "open"
    /\ picked' = IF v \in picked THEN picked \ {v} ELSE picked \union {v}
    /\ UNCHANGED <<panel, options, runMode, modeFields, modeSignals, readiness, starting, starts>>

ChooseModeKeepsFields(m) ==
    /\ panel = "open" /\ m # runMode
    /\ runMode' = m
    /\ UNCHANGED <<panel, picked, options, modeFields, modeSignals, readiness, starting, starts>>

\* handleModeChange: a mode brings the fields its signals hold.
ChooseMode(m) ==
    /\ panel = "open" /\ m # runMode
    /\ runMode' = m
    /\ modeFields' = BuildSubFields(m, fillLimit, fillHours, scheduledAt)
    /\ UNCHANGED <<panel, picked, options, modeSignals, readiness, starting, starts>>

\* The fields of the mode that is chosen; the others are not drawn.
EditFill(limit, hours) ==
    /\ panel = "open" /\ runMode = "fill-open-slots" /\ <<limit, hours>> # <<fillLimit, fillHours>>
    /\ limit = fillLimit \/ hours = fillHours
    /\ hours # fillHours => fillLimit # "count"
    /\ fillLimit' = limit /\ fillHours' = hours
    /\ modeFields' = BuildSubFields("fill-open-slots", limit, hours, scheduledAt)
    /\ UNCHANGED <<panel, picked, options, runMode, scheduledAt, readiness, starting, starts>>

EditSchedule(at) ==
    /\ panel = "open" /\ runMode = "scheduled" /\ at # scheduledAt
    /\ scheduledAt' = at
    /\ modeFields' = BuildSubFields("scheduled", fillLimit, fillHours, at)
    /\ UNCHANGED <<panel, picked, options, runMode, fillLimit, fillHours, readiness, starting, starts>>

\* handleSubmit: with a choice made and no other start of this panel under way,
\* whatever the readiness.  "chosen" is what the form shows when it is sent.
Submit ==
    /\ panel = "open" /\ picked # {} /\ ~starting /\ Cardinality(starts) < MaxStarts
    /\ starting' = TRUE
    /\ starts' = starts \union {[mode |-> runMode, fields |-> modeFields, options |-> options,
                                 chosen |-> <<fillLimit, fillHours, scheduledAt>>]}
    /\ UNCHANGED <<panel, form, modeSignals, readiness>>

\* Started: the panel is closed and keeps its form.  Refused or lost: it stays open.
StartLands(s) ==
    /\ s \in starts /\ starts' = starts \ {s}
    /\ starting' = FALSE
    /\ panel' \in {panel, "closed"}
    /\ UNCHANGED <<form, modeSignals, readiness>>

Next ==
    \/ MountPanel \/ LeavePanel \/ TogglePanel \/ TryAgain \/ CheckLands \/ Prime \/ PrimeLands
    \/ EditOptions
    \/ \E v \in Variants : ToggleVariant(v)
    \/ \E m \in Modes : ChooseMode(m)
    \/ \E limit \in Limits, hours \in Hours : EditFill(limit, hours)
    \/ \E at \in Moments : EditSchedule(at)
    \/ Submit \/ \E s \in starts : StartLands(s)

TriggerSpec == Init /\ [][Next]_triggerVars

-----------------------------------------------------------------------------
TriggerTypeOK ==
    /\ panel \in {"gone", "closed", "open"} /\ picked \subseteq Variants /\ runMode \in Modes
    /\ options \in {"fallback", "settings", "edited"}
    /\ modeFields \in [limit : Limits \union {NoField}, hours : Hours \union {NoField},
                       at : Moments \union {NoField}]
    /\ fillLimit \in Limits /\ fillHours \in Hours /\ scheduledAt \in Moments
    /\ verdict \in {"none", "checking", "ready", "needs_prime", "offline"}
    /\ starting \in BOOLEAN /\ priming \in BOOLEAN

\* "Stale hidden values cannot be included in form submission": a start carries
\* the fields of its mode, as the selector showed them when it was sent, although
\* the selector's values outlive the panel that posts them.
NoStaleFields ==
    \A s \in starts : s.fields = BuildSubFields(s.mode, s.chosen[1], s.chosen[2], s.chosen[3])

\* The open panel has a verdict or waits for one that will come.
VerdictComes ==
    /\ panel = "open" => verdict # "none"
    /\ verdict = "checking" => checks > 0

\* A panel has one start under way at most, and says so while it has.
OneStart ==
    /\ Cardinality(starts) <= 1
    /\ starting <=> starts # {}

TriggerSound == NoStaleFields /\ VerdictComes /\ OneStart
=============================================================================
