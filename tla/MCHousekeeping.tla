--------------------------- MODULE MCHousekeeping ---------------------------
(* Instances of RepoSettings, IgnoreCache and LogFiles.  They share no     *)
(* variable: one of them moves in a behaviour, and the others rest.  A     *)
(* duration has 9 bits and a second 4 units: a number of seconds overflows *)
(* from 64 on.                                                             *)
EXTENDS RepoSettings, IgnoreCache, LogFiles

CONSTANTS c1, c2

VARIABLE part       \* the module that moves

TwoClients == {c1, c2}

\* Limits and what lies next to them, no number, and several keys at once.
SomeRequests ==
    {[pollInterval |-> Number(n)] : n \in {1, 20, 21}}
    \cup {[batchWindow |-> Number(n)] : n \in {-1, 20, 21}}
    \cup {[exec |-> Text, messagePrefix |-> Lines], [pollInterval |-> Text],
          [pollInterval |-> Unset, exec |-> Text],
          [batchWindow |-> Number(7), messagePrefix |-> Text, pollInterval |-> Number(3)]}

ByHand(name, numbers) == {[name |-> name, value |-> Number(n)] : n \in numbers}
                         \cup {[name |-> name, value |-> v] : v \in {Unset, Text}}

MCSettingsPlans ==
    [clients |->
        [requests |-> SomeRequests, faults |-> TRUE,
         edits |-> {[name |-> "pollInterval", value |-> Number(21)]}],
     numbers |->
        [requests |-> {}, faults |-> TRUE,
         edits |-> ByHand("pollInterval",
                          {-257, -256, -129, -128, -65, -64, -63} \cup (-1)..3 \cup 19..22
                          \cup 62..66 \cup 83..86 \cup 126..130 \cup {255, 256})],
     both |->
        [requests |-> {}, faults |-> FALSE,
         edits |-> ByHand("pollInterval", {-1, 1, 21, 63, 64})
                   \cup ByHand("batchWindow", {-64, -1, 0, 20, 21, 63, 64, 65, 128})]]

MCLogPlans ==
    {[faults |-> {"kill"}, racy |-> FALSE, lines |-> 6],
     [faults |-> {"rename", "kill"}, racy |-> TRUE, lines |-> 4]}

SomeFiles == {".gitignore", "g", "d/f"}
OneDir == {"d"}
SomeAbove == [f \in SomeFiles |-> IF f = "d/f" THEN OneDir ELSE {}]

mcVars == <<settingsVars, settingsPlan, cacheVars, logFilesVars, logPlan, part>>

MCInit ==
    /\ SettingsInit /\ CacheInit /\ LogFilesInit
    /\ part \in {"settings", "cache", "logs"}
    /\ part # "settings" => settingsPlan = "both"
    /\ part # "cache" => rules = {}
    /\ part # "logs" => logPlan.racy

MCNext ==
    /\ \/ part = "settings" /\ SettingsNext /\ UNCHANGED <<cacheVars, logFilesVars>>
       \/ part = "cache" /\ CacheNext /\ UNCHANGED <<settingsVars, logFilesVars>>
       \/ part = "logs" /\ LogFilesNext /\ UNCHANGED <<settingsVars, cacheVars>>
    /\ UNCHANGED <<settingsPlan, logPlan, part>>

MCSpec == MCInit /\ [][MCNext]_mcVars
=============================================================================
