----------------------------- MODULE EvalSession -----------------------------
(* Evaluation runs on the server (api/eval_runs, eval/engine, generate, judge and *)
(* promote): one thread for each run, which looks at the row's status between the *)
(* calls of a model and writes it without looking; the endpoint that cancels; the *)
(* recovery of the daemon; and promotion, which tells lessons-db before it sets    *)
(* the flags of the variants.  What a model answers, the scores and the gates of   *)
(* an automatic promotion are nondeterministic.                                    *)
EXTENDS Naturals, FiniteSets

CONSTANTS
    EvalRuns,           \* ids of eval_runs, counted up (bound: each is created once)
    EvalVariants,       \* the variants a run can end with
    SystemVariants,     \* those that are not to be deleted (is_system)
    MaxEvalHalts,       \* bound on crashes of the daemon
    NoVariant, NoEval

SessionAssumption ==
    /\ MaxEvalHalts \in Nat /\ EvalRuns \subseteq Nat /\ SystemVariants \subseteq EvalVariants
    /\ NoVariant \notin EvalVariants /\ NoEval \notin EvalRuns

VARIABLES
    evalRow,        \* rows of eval_runs: [status, winner]
    session,        \* each run's thread: its place; a loop has any number of items
    canceller,      \* the run cancel_eval_run has looked at
    recovering,     \* the daemon has started and not yet called _recover_orphans
    promotions,     \* calls of do_promote_eval_run: [run, winner, at]
    catalog,        \* the variants there are
    production,     \* those with is_production
    lessonsDb,      \* the production variant of lessons-db
    stopped,        \* history: runs ended by others while their thread was in a loop
    astray,         \* history: promotions that crossed, or one that stopped half-way
    evalHalts

promoting == <<promotions, catalog, production, lessonsDb, astray>>
sessionVars == <<evalRow, session, canceller, recovering, promoting, stopped, evalHalts>>

Terminal == {"complete", "failed", "cancelled"}
Stopped == {"failed", "cancelled"}

\* Where the next thing a thread does is to look, or to come back from a model and look.
InLoop == {"generate", "answer", "between", "judge", "verdict"}

SessionInit ==
    /\ evalRow = [r \in EvalRuns |-> [status |-> "absent", winner |-> NoVariant]]
    /\ session = [r \in EvalRuns |-> "none"]
    /\ canceller = NoEval /\ recovering = FALSE /\ stopped = {} /\ evalHalts = 0
    /\ promotions = {} /\ catalog = EvalVariants /\ astray = FALSE
    /\ lessonsDb \in EvalVariants \union {NoVariant}
    /\ production = {lessonsDb} \ {NoVariant}

-----------------------------------------------------------------------------
SetStatus(r, s) == evalRow' = [evalRow EXCEPT ![r].status = s]
Goes(r, place) == session' = [session EXCEPT ![r] = place]
Leaves(r) == Goes(r, "none")

\* What a step of a thread, or of an endpoint that creates a run, leaves alone.
elsewhere == <<canceller, recovering, promoting, stopped, evalHalts>>

\* create_eval_run: the row has the next id.
Create(r) ==
    /\ evalRow[r].status = "absent"
    /\ \A o \in EvalRuns : o < r => evalRow[o].status # "absent"
    /\ SetStatus(r, "queued")

\* trigger_eval_run, repeat_eval_run: the row and its thread.
Trigger(r) ==
    /\ Create(r) /\ Goes(r, "preflight")
    /\ UNCHANGED elsewhere

\* An unknown judge_mode is refused when the row is there: it stays queued for good.
TriggerRefused(r) ==
    /\ Create(r) /\ UNCHANGED <<session, elsewhere>>

\* judge_rerun_eval_run: a row for the old results, which are then copied ...
RerunJudge(r) ==
    /\ Create(r)
    /\ \E o \in EvalRuns : evalRow[o].status \in {"complete", "failed"}
    /\ Goes(r, "copying")
    /\ UNCHANGED elsewhere

\* ... and judged by a thread.
RerunStarts(r) ==
    /\ session[r] = "copying"
    /\ SetStatus(r, "judging") /\ Goes(r, "targets")
    /\ UNCHANGED elsewhere

-----------------------------------------------------------------------------
(* The thread.  Whatever it writes, it writes without looking.                *)

\* A model that is not installed, no items, no judge, the error budget, a proxy that is
\* down, or an exception.
SessionFails(r) ==
    /\ session[r] \notin {"none", "copying", "after"}
    /\ SetStatus(r, "failed") /\ Leaves(r)
    /\ UNCHANGED elsewhere

\* run_eval_generate begins.
BeginGenerate(r) ==
    /\ session[r] = "preflight"
    /\ SetStatus(r, "generating") /\ Goes(r, "generate")
    /\ UNCHANGED elsewhere

\* A look that finds the run stopped ends the thread.
LookStops(r) ==
    /\ session[r] \in {"generate", "between", "judge"}
    /\ evalRow[r].status \in Stopped
    /\ Leaves(r)
    /\ UNCHANGED <<evalRow, elsewhere>>

\* After a look: a call for the next item, or what comes after the loop.
After(place) ==
    CASE place = "generate" -> {"answer", "hand"}
      [] place = "between" -> {"targets"}
      [] place = "judge" -> {"verdict", "score"}
      [] OTHER -> {}

\* Mutant: a cancelled run is not one that stops.
LookGoesOnCancelled(r) ==
    /\ evalRow[r].status # "failed"
    /\ \E place \in After(session[r]) : Goes(r, place)
    /\ UNCHANGED <<evalRow, elsewhere>>

\* A look that finds it going on.
LookGoesOn(r) ==
    /\ evalRow[r].status \notin Stopped
    /\ \E place \in After(session[r]) : Goes(r, place)
    /\ UNCHANGED <<evalRow, elsewhere>>

\* The proxy has answered.
ModelAnswers(r) ==
    /\ session[r] \in {"answer", "verdict"}
    /\ Goes(r, IF session[r] = "answer" THEN "generate" ELSE "judge")
    /\ UNCHANGED <<evalRow, elsewhere>>

\* The end of run_eval_generate.
HandToJudge(r) ==
    /\ session[r] = "hand"
    /\ SetStatus(r, "judging") /\ Goes(r, "between")
    /\ UNCHANGED elsewhere

\* run_eval_judge has its targets; without results there is nothing to look between.
BeginJudge(r) ==
    /\ session[r] = "targets"
    /\ \E place \in {"judge", "score"} : Goes(r, place)
    /\ UNCHANGED <<evalRow, elsewhere>>

\* The metrics, the winner and the status in one update.
Complete(r) ==
    /\ session[r] = "score"
    /\ \E w \in EvalVariants \union {NoVariant} :
         evalRow' = [evalRow EXCEPT ![r] = [status |-> "complete", winner |-> w]]
    /\ Goes(r, "after")
    /\ UNCHANGED elsewhere

\* The analysis, and no promotion (the gates of check_auto_promote, or a run that is no
\* longer complete).
NotPromoted(r) ==
    /\ session[r] = "after" /\ Leaves(r)
    /\ UNCHANGED <<evalRow, elsewhere>>

-----------------------------------------------------------------------------
\* cancel_eval_run looks ...
LookToCancel(r) ==
    /\ canceller = NoEval /\ evalRow[r].status \notin Terminal \union {"absent"}
    /\ canceller' = r
    /\ UNCHANGED <<evalRow, session, recovering, promoting, stopped, evalHalts>>

\* ... and writes.
CancelRun ==
    /\ canceller # NoEval /\ SetStatus(canceller, "cancelled")
    /\ canceller' = NoEval
    /\ stopped' = stopped \union {r \in {canceller} : session[r] \in InLoop}
    /\ UNCHANGED <<session, recovering, promoting, evalHalts>>

\* Mutant: runs that were being judged are forgotten.
RecoverRunsOnlyGenerating ==
    /\ recovering /\ recovering' = FALSE
    /\ evalRow' = [r \in EvalRuns |-> [evalRow[r] EXCEPT
                     !.status = IF @ = "generating" THEN "failed" ELSE @]]
    /\ UNCHANGED <<session, canceller, promoting, stopped, evalHalts>>

\* _recover_orphans, in one transaction: it knows nothing of threads begun since.
RecoverRuns ==
    /\ recovering /\ recovering' = FALSE
    /\ LET abandoned == {r \in EvalRuns : evalRow[r].status \in {"generating", "judging"}} IN
         /\ evalRow' = [r \in EvalRuns |-> [evalRow[r] EXCEPT
                          !.status = IF r \in abandoned THEN "failed" ELSE @]]
         /\ stopped' = stopped \union {r \in abandoned : session[r] \in InLoop}
    /\ UNCHANGED <<session, canceller, promoting, evalHalts>>

\* Threads and calls end with the process.
SessionsLost ==
    /\ evalHalts < MaxEvalHalts /\ evalHalts' = evalHalts + 1
    /\ session' = [r \in EvalRuns |-> "none"]
    /\ canceller' = NoEval /\ recovering' = TRUE /\ promotions' = {}
    /\ astray' = (astray \/ \E p \in promotions : p.at = "told")
    /\ UNCHANGED <<evalRow, catalog, production, lessonsDb, stopped>>

-----------------------------------------------------------------------------
(* do_promote_eval_run, called by the endpoint and by check_auto_promote.      *)

Begun(r) == [run |-> r, winner |-> evalRow[r].winner, at |-> "looked"]

LookToPromote(r) ==
    /\ evalRow[r].status = "complete" /\ evalRow[r].winner \in catalog
    /\ Cardinality(promotions) < 2 /\ Begun(r) \notin promotions
    /\ promotions' = promotions \union {Begun(r)}
    /\ astray' = (astray \/ \E p \in promotions : p.winner # evalRow[r].winner)
    /\ UNCHANGED <<catalog, production, lessonsDb>>

\* POST /api/eval/runs/{id}/promote.
Promote(r) ==
    /\ LookToPromote(r)
    /\ UNCHANGED <<evalRow, session, canceller, recovering, stopped, evalHalts>>

\* The thread of a run that passed the gates; they ask for a production variant.  (The
\* thread of a rerun does not: there it stands for a promotion by the endpoint.)
AutoPromote(r) ==
    /\ session[r] = "after" /\ production # {}
    /\ LookToPromote(r) /\ Leaves(r)
    /\ UNCHANGED <<evalRow, canceller, recovering, stopped, evalHalts>>

\* What a promotion leaves alone.
notPromoting == <<evalRow, session, canceller, recovering, stopped, evalHalts>>

LessonsTold(p) ==
    /\ p.at = "looked" /\ lessonsDb' = p.winner
    /\ promotions' = (promotions \ {p}) \union {[p EXCEPT !.at = "told"]}
    /\ UNCHANGED <<notPromoting, catalog, production, astray>>

\* It refuses, or it is told and its answer is lost: the call ends with 502.
LessonsFail(p) ==
    /\ p.at = "looked" /\ promotions' = promotions \ {p}
    /\ \/ UNCHANGED <<lessonsDb, astray>>
       \/ lessonsDb' = p.winner /\ astray' = TRUE
    /\ UNCHANGED <<notPromoting, catalog, production>>

\* Mutant: the flags of the others stay.
SetFlagsKeepOthers(p) ==
    /\ p.at = "told" /\ promotions' = promotions \ {p}
    /\ production' = production \union ({p.winner} \intersect catalog)
    /\ UNCHANGED <<notPromoting, catalog, lessonsDb, astray>>

\* Both updates of eval_variants in one transaction.
SetFlags(p) ==
    /\ p.at = "told" /\ promotions' = promotions \ {p}
    /\ production' = {p.winner} \intersect catalog
    /\ UNCHANGED <<notPromoting, catalog, lessonsDb, astray>>

\* delete_eval_variant does not ask whether the variant is in production.  The first variant
\* of a run is kept by a foreign key; the other winners are not.
DeleteVariant(v) ==
    /\ v \in catalog \ SystemVariants /\ catalog' = catalog \ {v} /\ production' = production \ {v}
    /\ UNCHANGED <<notPromoting, promotions, lessonsDb, astray>>

-----------------------------------------------------------------------------
SessionStep(r) ==
    \/ RerunStarts(r) \/ SessionFails(r) \/ BeginGenerate(r) \/ LookStops(r) \/ LookGoesOn(r)
    \/ ModelAnswers(r) \/ HandToJudge(r) \/ BeginJudge(r) \/ Complete(r) \/ NotPromoted(r)
    \/ AutoPromote(r)

SessionNext ==
    \/ \E r \in EvalRuns :
         \/ Trigger(r) \/ TriggerRefused(r) \/ RerunJudge(r) \/ SessionStep(r)
         \/ LookToCancel(r) \/ Promote(r)
    \/ \E p \in promotions : LessonsTold(p) \/ LessonsFail(p) \/ SetFlags(p)
    \/ \E v \in EvalVariants : DeleteVariant(v)
    \/ CancelRun \/ RecoverRuns \/ SessionsLost

SessionSpec == SessionInit /\ [][SessionNext]_sessionVars

-----------------------------------------------------------------------------
SessionTypeOK ==
    /\ evalRow \in [EvalRuns ->
         [status : {"absent", "queued", "generating", "judging"} \union Terminal,
          winner : EvalVariants \union {NoVariant}]]
    /\ session \in [EvalRuns -> InLoop \union
         {"none", "copying", "preflight", "hand", "targets", "score", "after"}]
    /\ canceller \in EvalRuns \union {NoEval} /\ recovering \in BOOLEAN
    /\ catalog \subseteq EvalVariants /\ production \subseteq catalog
    /\ lessonsDb \in EvalVariants \union {NoVariant}
    /\ stopped \subseteq EvalRuns /\ astray \in BOOLEAN /\ evalHalts \in 0..MaxEvalHalts

\* A run that was stopped while its thread generated or judged stays stopped: it never
\* goes on to be judged or completes, whatever the thread was doing when it happened.
StopHeeded == \A r \in stopped : evalRow[r].status \in Stopped

\* A row that says it is generating or judging has a thread, or recovery is to come.
WorkingHasSession ==
    \A r \in EvalRuns :
        evalRow[r].status \in {"generating", "judging"} =>
            session[r] \notin {"none", "after"} \/ recovering

\* When nobody is promoting, the one variant in production is the one lessons-db has, if
\* it was not deleted.  Not if promotions crossed or one stopped half-way.
ProductionAgrees ==
    promotions = {} /\ ~astray /\ lessonsDb \in catalog => production = {lessonsDb}

EvalSound == StopHeeded /\ WorkingHasSession /\ ProductionAgrees
=============================================================================
