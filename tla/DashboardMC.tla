----------------------------- MODULE DashboardMC -----------------------------
EXTENDS Dashboard, Integers, TLC

AllWidgets == {"polling", "board", "undo", "submit", "mood", "plan", "actions", "chart",
               "hosts", "tail", "console", "pulls", "letters", "settings", "trigger",
               "history", "pairs", "consumers", "controls", "schedules", "deferrals", "sessions"}
LiveWidgets == {"polling", "mood", "plan", "tail", "console", "pulls", "deferrals"}

MCTag == <<"a", "b", "a">>
MCStarts == {-1, 1}
MCHosts == <<"here", "there">>
MCAddresses == ("here" :> "loopback") @@ ("there" :> "remote")
MCRows == ("all" :> 3) @@ ("fp" :> 2)

\* Two states of one widget differ in that widget's variables only: the others are parked.
ActiveView ==
    <<widget,
      CASE widget = "polling" -> pollingVars
        [] widget = "board" -> boardVars
        [] widget = "undo" -> undoVars
        [] widget = "submit" -> submitVars
        [] widget = "mood" -> moodVars
        [] widget = "plan" -> planVars
        [] widget = "actions" -> actionsVars
        [] widget = "chart" -> chartVars
        [] widget = "hosts" -> hostsVars
        [] widget = "tail" -> tailVars
        [] widget = "console" -> consoleVars
        [] widget = "pulls" -> pullsVars
        [] widget = "letters" -> lettersVars
        [] widget = "settings" -> settingsVars
        [] widget = "trigger" -> triggerVars
        [] widget = "history" -> historyVars
        [] widget = "pairs" -> pairsVars
        [] widget = "consumers" -> consumersVars
        [] widget = "controls" -> controlsVars
        [] widget = "schedules" -> recurringVars
        [] widget = "deferrals" -> deferralVars
        [] widget = "sessions" -> sessionsVars>>
=============================================================================
