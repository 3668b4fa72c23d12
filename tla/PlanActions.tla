----------------------------- MODULE PlanActions -----------------------------
(* Two controls of the Plan page that submit work.  "Run All" of a tag: every  *)
(* tag has a button, all share one feedback hook, and a set of tags keeps      *)
(* track of the ones being triggered (pages/Plan/index.jsx,                    *)
(* hooks/useActionFeedback.js).  The dialog that adds a recurring job          *)
(* (components/AddRecurringJobModal.jsx), which can be dismissed and opened    *)
(* again while its request is on the way.                                      *)
EXTENDS Naturals

CONSTANTS
    Tags,           \* tags of recurring jobs
    MaxPresses      \* bound: batch runs pressed and jobs added

ActionsAssumption == MaxPresses \in Nat

VARIABLES
    batchPhase,         \* batchRunFb.phase
    batchTimer,         \* its three second timer is armed
    batchRunningTags,
    batches,            \* batch-run requests on their way, counted by tag
    addOpen, addError, showAdvanced, scheduleMode,
    addForm,            \* what the fields hold, shown or not
    submitting,
    adds,               \* bodies on their way, each [body, step, nr]
    presses             \* requests so far (bound)

batch == <<batchPhase, batchTimer, batchRunningTags, batches>>
dialog == <<addOpen, addError, showAdvanced, scheduleMode, addForm>>
actionVars == <<batch, dialog, submitting, adds, presses>>

\* name stands for the two required texts, extras for the advanced fields.
Forms == [name : {"empty", "given"}, interval : {"bad", "good"}, cron : {"empty", "given"},
          extras : {"default", "custom"}]

BlankForm == [name |-> "empty", interval |-> "good", cron |-> "empty", extras |-> "default"]

Init ==
    /\ batchPhase = "idle" /\ batchTimer = FALSE
    /\ batchRunningTags = {}
    /\ batches = [t \in Tags |-> 0]
    /\ addOpen = FALSE /\ addError = FALSE /\ showAdvanced = FALSE
    /\ scheduleMode = "interval"
    /\ addForm = BlankForm
    /\ submitting = FALSE /\ adds = {} /\ presses = 0

Press == presses < MaxPresses /\ presses' = presses + 1

----------------------------------------------------------------------------
RunAllEnabledByPhase(t) == batchPhase # "loading"

\* renderGroupHeader: the button of a tag can be pressed.
RunAllEnabled(t) == t \notin batchRunningTags /\ batchPhase # "loading"

\* handleBatchRun up to the request.
PressRunAll(t) ==
    /\ RunAllEnabled(t)
    /\ Press
    /\ batchRunningTags' = batchRunningTags \union {t}
    /\ batchPhase' = "loading"
    /\ batches' = [batches EXCEPT ![t] = @ + 1]
    /\ UNCHANGED <<batchTimer, dialog, submitting, adds>>

\* The request and the fetch after it end; the rest of run() and handleBatchRun.
BatchEnds(t) ==
    /\ batches[t] > 0
    /\ batches' = [batches EXCEPT ![t] = @ - 1]
    /\ batchRunningTags' = batchRunningTags \ {t}
    /\ \/ batchPhase' = "success" /\ batchTimer' = TRUE
       \/ batchPhase' = "error" /\ UNCHANGED batchTimer
    /\ UNCHANGED <<dialog, submitting, adds, presses>>

\* The timer of an earlier success; a later run() does not clear it.
BatchTimerFires ==
    /\ batchTimer
    /\ batchTimer' = FALSE
    /\ batchPhase' = "idle"
    /\ UNCHANGED <<batchRunningTags, batches, dialog, submitting, adds, presses>>

----------------------------------------------------------------------------
\* openModal: the error and the advanced part are reset, the fields are not.
OpenAdd ==
    /\ ~addOpen
    /\ addOpen' = TRUE /\ addError' = FALSE /\ showAdvanced' = FALSE
    /\ UNCHANGED <<batch, scheduleMode, addForm, submitting, adds, presses>>

\* Cancel, the backdrop and Escape.
CloseAdd ==
    /\ addOpen
    /\ addOpen' = FALSE
    /\ UNCHANGED <<batch, addError, showAdvanced, scheduleMode, addForm, submitting, adds, presses>>

\* The fields on the page, and the two switches that change which ones those are.
Visible == {"name"} \union {scheduleMode} \union (IF showAdvanced THEN {"extras"} ELSE {})

EditAdd ==
    /\ addOpen
    /\ \/ /\ \E f \in Forms : /\ addForm' = f
                              /\ \A k \in DOMAIN f : k \in Visible \/ f[k] = addForm[k]
          /\ UNCHANGED <<scheduleMode, showAdvanced>>
       \/ /\ scheduleMode' \in {"interval", "cron"}
          /\ UNCHANGED <<addForm, showAdvanced>>
       \/ showAdvanced' = ~showAdvanced /\ UNCHANGED <<addForm, scheduleMode>>
    /\ UNCHANGED <<batch, addOpen, addError, submitting, adds, presses>>

\* applySuggestion: whichever slot is picked, the job repeats every 24 hours.
ApplySuggestion ==
    /\ addOpen
    /\ scheduleMode' = "interval"
    /\ addForm' = [addForm EXCEPT !.interval = "good"]
    /\ UNCHANGED <<batch, addOpen, addError, showAdvanced, submitting, adds, presses>>

\* validate()
Valid ==
    /\ addForm.name = "given"
    /\ IF scheduleMode = "interval" THEN addForm.interval = "good" ELSE addForm.cron = "given"

\* The body: the advanced fields only while they are shown.
Body == [mode |-> scheduleMode,
         extras |-> IF showAdvanced THEN addForm.extras ELSE "default"]

AddEnabled == addOpen /\ ~submitting

\* handleSubmit up to its first await.
SubmitAdd ==
    /\ AddEnabled
    /\ IF Valid
         THEN /\ Press
              /\ addError' = FALSE
              /\ submitting' = TRUE
              /\ adds' = adds \union {[body |-> Body, step |-> "post", nr |-> presses]}
         ELSE addError' = TRUE /\ UNCHANGED <<submitting, adds, presses>>
    /\ UNCHANGED <<batch, addOpen, showAdvanced, scheduleMode, addForm>>

\* addRecurringJob returns, and the schedule and the load map are fetched.
Added(r) ==
    /\ r \in adds /\ r.step = "post"
    /\ adds' = (adds \ {r}) \union {[r EXCEPT !.step = "refresh"]}
    /\ UNCHANGED <<batch, dialog, submitting, presses>>

\* ... then the dialog is closed, be it the one the job was submitted from or one
\* opened since.
AddFinishes(r) ==
    /\ r \in adds /\ r.step = "refresh"
    /\ adds' = adds \ {r}
    /\ addOpen' = FALSE /\ submitting' = FALSE
    /\ UNCHANGED <<batch, addError, showAdvanced, scheduleMode, addForm, presses>>

AddFails(r) ==
    /\ r \in adds /\ r.step = "post"
    /\ adds' = adds \ {r}
    /\ addError' = TRUE /\ submitting' = FALSE
    /\ UNCHANGED <<batch, addOpen, showAdvanced, scheduleMode, addForm, presses>>

\* The page is left: its state is gone, and what it has sent comes back to nobody.
LeavePage ==
    /\ batchPhase' = "idle" /\ batchTimer' = FALSE /\ batchRunningTags' = {}
    /\ batches' = [t \in Tags |-> 0]
    /\ addOpen' = FALSE /\ addError' = FALSE /\ showAdvanced' = FALSE
    /\ scheduleMode' = "interval" /\ addForm' = BlankForm
    /\ submitting' = FALSE /\ adds' = {}
    /\ UNCHANGED presses

Next ==
    \/ LeavePage
    \/ \E t \in Tags : PressRunAll(t) \/ BatchEnds(t)
    \/ BatchTimerFires
    \/ OpenAdd \/ CloseAdd \/ EditAdd \/ ApplySuggestion \/ SubmitAdd
    \/ \E r \in adds : Added(r) \/ AddFinishes(r) \/ AddFails(r)

ActionSpec == Init /\ [][Next]_actionVars

-----------------------------------------------------------------------------
ActionTypeOK ==
    /\ batchPhase \in {"idle", "loading", "success", "error"} /\ batchTimer \in BOOLEAN
    /\ batchRunningTags \subseteq Tags
    /\ batches \in [Tags -> Nat] /\ presses \in 0..MaxPresses
    /\ addForm \in Forms /\ scheduleMode \in {"interval", "cron"}
    /\ \A b \in {addOpen, addError, showAdvanced, submitting} : b \in BOOLEAN

\* From one visit to the page no two batch runs of one tag are ever on their way
\* together (each submits every job of the tag once more), although the shared phase is returned to idle under a
\* run that is still loading by the timer of an earlier one; and no second job is
\* added while one is being added, although the dialog can be closed and reopened.
NoOverlappingRequests ==
    /\ \A t \in Tags : batches[t] <= 1
    /\ \A r, q \in adds : r = q
=============================================================================
