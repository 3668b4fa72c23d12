----------------------------- MODULE SettingsForm -----------------------------
(* The Settings page (pages/Settings.jsx, components/SettingsForm): a number   *)
(* is saved when its field is left, an option when it is chosen, one key at a  *)
(* time; the poll of everything (stores/index.js) replaces the settings, and   *)
(* every poll draws the form again.  The endpoint is api/settings.py.          *)
EXTENDS Naturals, FiniteSets

CONSTANTS
    NumberKeys,     \* settings shown as number inputs
    OptionKeys,     \* settings shown as selects and check boxes
    Values,         \* values of a setting, 0 among them
    Options,        \* values of the options
    Missing,        \* undefined: the settings are not there yet
    Blank,          \* the empty string
    Text,           \* a text sent for a number
    MaxSaves,       \* bound: saves in flight
    MaxPolls        \* bound: polls in flight

SettingsAssumption ==
    /\ NumberKeys \intersect OptionKeys = {} /\ 0 \in Values
    /\ {Missing, Blank, Text} \intersect (Values \union Options) = {}
    /\ Missing # Text
    /\ MaxSaves \in Nat /\ MaxPolls \in Nat

VARIABLES
    stored,         \* the settings table
    settings,       \* the signal
    typed,          \* {} or {<<key, text>>}: a field that differs from its setting
    saves,          \* [key, value, stage, older]; two that are alike are one
    settingsPolls,  \* [stage, seen, older]
    untold          \* history: the table changed in a way no answer to come tells

formVars == <<stored, settings, typed, saves, settingsPolls, untold>>

Keys == NumberKeys \union OptionKeys
Kind(k) == IF k \in NumberKeys THEN Values ELSE Options
Tables == [Keys -> Values \union Options]
Poll(stage, seen) == [stage |-> stage, seen |-> seen, older |-> FALSE]
Age(calls, stale(_)) == {IF stale(c) THEN [c EXCEPT !.older = TRUE] ELSE c : c \in calls}

Init ==
    /\ \E n \in Values, o \in Options : stored = [k \in Keys |-> IF k \in NumberKeys THEN n ELSE o]
    /\ settings = [k \in Keys |-> Missing]
    /\ typed = {} /\ saves = {} /\ settingsPolls = {} /\ untold = TRUE

-----------------------------------------------------------------------------
\* A number is typed, or the field is emptied.
TypeNumber(k, text) ==
    /\ typed = {} /\ text # settings[k]
    /\ typed' = {<<k, text>>}
    /\ UNCHANGED <<stored, settings, saves, settingsPolls, untold>>

\* handleBlur: the text is read as the setting is; an emptied number is 0, and before
\* the settings are there a text stays a text.
Parsed(k, text) ==
    IF settings[k] = Missing THEN Text ELSE IF text = Blank THEN 0 ELSE text

BlurNumber(k, text) ==
    /\ <<k, text>> \in typed /\ Cardinality(saves) < MaxSaves
    /\ typed' = {}
    /\ saves' = IF Parsed(k, text) = settings[k] THEN saves
                ELSE saves \union {[key |-> k, value |-> Parsed(k, text), stage |-> "sent", older |-> FALSE]}
    /\ UNCHANGED <<stored, settings, settingsPolls, untold>>

\* A select or a check box changes: no parsing, and no field in between.
Choose(k, v) ==
    /\ v # settings[k] /\ Cardinality(saves) < MaxSaves
    /\ saves' = saves \union {[key |-> k, value |-> v, stage |-> "sent", older |-> FALSE]}
    /\ UNCHANGED <<stored, settings, typed, settingsPolls, untold>>

AcceptsAnything(k, v) == TRUE

\* put_settings: a number must stay a number, an option is not looked at.
Accepts(k, v) == k \in NumberKeys => v \in Values

SaveServed(s) ==
    /\ s \in saves /\ s.stage = "sent"
    /\ IF Accepts(s.key, s.value)
         THEN /\ stored' = [stored EXCEPT ![s.key] = s.value]
              /\ saves' = Age(saves \ {s}, LAMBDA o : o.stage = "stored" /\ o.key = s.key)
                            \union {[s EXCEPT !.stage = "stored"]}
              /\ settingsPolls' = Age(settingsPolls, LAMBDA p : p.stage = "read")
         ELSE saves' = saves \ {s} /\ UNCHANGED <<stored, settingsPolls>>
    /\ UNCHANGED <<settings, typed, untold>>

\* handleSave goes on: the key is merged into the signal, the form is drawn again.
SaveLanded(s) ==
    /\ s \in saves /\ s.stage = "stored"
    /\ settings' = [settings EXCEPT ![s.key] = s.value]
    /\ saves' = saves \ {s} /\ typed' = {}
    /\ untold' = (untold \/ s.older)
    /\ UNCHANGED <<stored, settingsPolls>>

\* A request or an answer is lost; the page only logs it.
SaveLost(s) ==
    /\ s \in saves
    /\ saves' = saves \ {s}
    /\ settingsPolls' = Age(settingsPolls, LAMBDA p : p.stage = "read")
    /\ untold' = (untold \/ s.stage = "stored")
    /\ UNCHANGED <<stored, settings, typed>>

-----------------------------------------------------------------------------
\* fetchAll: its answer replaces all of the settings, whatever was saved meanwhile.
PollSettings ==
    /\ Cardinality(settingsPolls) < MaxPolls
    /\ settingsPolls' = settingsPolls \union {Poll("sent", settings)}
    /\ UNCHANGED <<stored, settings, typed, saves, untold>>

PollRead(p) ==
    /\ p \in settingsPolls /\ p.stage = "sent"
    /\ settingsPolls' = Age(settingsPolls \ {p}, LAMBDA q : q.stage = "read") \union {Poll("read", stored)}
    /\ saves' = Age(saves, LAMBDA s : s.stage = "stored" /\ stored[s.key] # s.value)
    /\ UNCHANGED <<stored, settings, typed, untold>>

PollLanded(p) ==
    /\ p \in settingsPolls /\ p.stage = "read"
    /\ settings' = p.seen
    /\ settingsPolls' = settingsPolls \ {p} /\ typed' = {}
    /\ untold' = p.older
    /\ UNCHANGED <<stored, saves>>

PollLost(p) ==
    /\ p \in settingsPolls
    /\ settingsPolls' = settingsPolls \ {p}
    /\ UNCHANGED <<stored, settings, typed, saves, untold>>

\* Another poll draws the page again: what was typed and not yet left is gone.
Redrawn ==
    /\ typed # {} /\ typed' = {}
    /\ UNCHANGED <<stored, settings, saves, settingsPolls, untold>>

\* Another client saves.
OthersSave(k, v) ==
    /\ v \in Kind(k) \ {stored[k]}
    /\ stored' = [stored EXCEPT ![k] = v]
    /\ untold' = TRUE
    /\ saves' = Age(saves, LAMBDA s : s.stage = "stored" /\ s.key = k)
    /\ settingsPolls' = Age(settingsPolls, LAMBDA p : p.stage = "read")
    /\ UNCHANGED <<settings, typed>>

Next ==
    \/ \E k \in NumberKeys, text \in Values \union {Blank} : TypeNumber(k, text) \/ BlurNumber(k, text)
    \/ \E k \in OptionKeys, v \in Options : Choose(k, v)
    \/ \E s \in saves : SaveServed(s) \/ SaveLanded(s) \/ SaveLost(s)
    \/ \E p \in settingsPolls : PollRead(p) \/ PollLanded(p) \/ PollLost(p)
    \/ PollSettings \/ Redrawn
    \/ \E k \in Keys, v \in Values \union Options : OthersSave(k, v)

FormSpec == Init /\ [][Next]_formVars

-----------------------------------------------------------------------------
FormTypeOK ==
    /\ stored \in [Keys -> Values \union Options \union {Text}]
    /\ settings \in [Keys -> Values \union Options \union {Missing, Text}]
    /\ untold \in BOOLEAN
    /\ \A t \in typed : t[1] \in NumberKeys /\ t[2] \in Values \union {Blank}
    /\ \A s \in saves : s.key \in Keys /\ s.stage \in {"sent", "stored"} /\ s.older \in BOOLEAN
    /\ \A p \in settingsPolls : p.stage \in {"sent", "read"} /\ p.older \in BOOLEAN

\* Whatever field is left or emptied, before the settings have come or after, a
\* number in the table stays a number.
KindsKept == \A k \in Keys : stored[k] \in Kind(k)

\* When nothing is under way the form shows the table, unless another client saved,
\* the answer of a save was lost, or an older answer came last.
FormTruthful == saves = {} /\ settingsPolls = {} /\ ~untold => settings = stored

SettingsSound == KindsKept /\ FormTruthful
=============================================================================
