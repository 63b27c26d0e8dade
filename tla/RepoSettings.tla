---------------------------- MODULE RepoSettings ----------------------------
(***************************************************************************)
(* The settings of a repository: values in its git configuration, written  *)
(* by the daemon for a client (writeRepoSettings in daemon/commands.go),   *)
(* key by key and with no lock, or by the user with git itself, and parsed *)
(* when a watcher starts (common/repoconfig.go, NewRepoConfig in watch.go).*)
(*                                                                         *)
(* A value is a number of seconds or some other text.  Durations are       *)
(* signed integers of a fixed width, in units of which a second has many.  *)
(***************************************************************************)
EXTENDS Integers, Sequences

CONSTANTS
    Clients,
    SettingsPlans,      \* what behaviours may have, by name: see settingsPlan
    Wide,               \* integers lie in -Wide .. Wide - 1
    Second,             \* units of duration in a second
    MinPollInterval, MaxPollInterval, DefaultPollInterval, MaxBatchWindow
                        \* in seconds

ASSUME WidthAssumption ==
    /\ {Wide, Second} \subseteq Nat \ {0} /\ {MinPollInterval, DefaultPollInterval} \subseteq Nat
    /\ MinPollInterval <= DefaultPollInterval /\ DefaultPollInterval <= MaxPollInterval
    /\ {MaxPollInterval, MaxBatchWindow} \subseteq {n \in Nat : n * Second < Wide}

VARIABLES
    file,               \* the auto-sync section of the git configuration
    live,               \* what the newest watcher runs with
    restart,            \* a watcher is to be started, or starting
    usable,             \* the executable that is named exists
    cmd,                \* where each client's writeRepoSettings is
    stale,              \* a write or the read failed, or something changed behind
                        \* the daemon's back, and nothing was read since
    settingsPlan        \* chosen at the start: names the set_settings requests of clients
                        \* (values by setting), the settings the user makes by hand,
                        \* and whether git config may fail

settingsVars == <<file, live, restart, usable, cmd, stale>>

Requests == SettingsPlans[settingsPlan].requests
Edits == SettingsPlans[settingsPlan].edits
Faults == SettingsPlans[settingsPlan].faults

SettingNames == <<"pollInterval", "batchWindow", "exec", "messagePrefix">>
Names == {SettingNames[i] : i \in 1..Len(SettingNames)}

Unset == [kind |-> "unset", n |-> 0]
Number(n) == [kind |-> "number", n |-> n]
Text == [kind |-> "text", n |-> 0]        \* a word: no number, perhaps a path
Lines == [kind |-> "lines", n |-> 0]      \* more than one line
Value == [kind : {"unset", "number", "text", "lines"}, n : Int]

ASSUME SettingsPlansAssumption ==
    \A p \in DOMAIN SettingsPlans :
        /\ \A r \in SettingsPlans[p].requests : \E names \in SUBSET Names : r \in [names -> Value]
        /\ SettingsPlans[p].edits \subseteq [name : Names, value : Value]
        /\ SettingsPlans[p].faults \in BOOLEAN

-----------------------------------------------------------------------------
(* common/repoconfig.go *)

\* Multiplication as the machine does it.
Duration(secs) == ((secs * Second + Wide) % (2 * Wide)) - Wide

\* A number too large for Atoi is no number.
IsNumber(v) == v.kind = "number" /\ v.n \in (-Wide)..(Wide - 1)

\* ParseRepoSettings
ParsePoll(v) ==
    IF ~IsNumber(v) THEN DefaultPollInterval * Second
    ELSE IF Duration(v.n) < MinPollInterval * Second THEN MinPollInterval * Second
    ELSE IF Duration(v.n) > MaxPollInterval * Second THEN MaxPollInterval * Second
    ELSE Duration(v.n)

ParseBatch(v) ==
    IF ~IsNumber(v) \/ v.n < 0 THEN 0
    ELSE IF Duration(v.n) > MaxBatchWindow * Second THEN MaxBatchWindow * Second
    ELSE Duration(v.n)

ParseRepoSettings(f) ==
    [pollInterval |-> ParsePoll(f["pollInterval"]),
     batchWindow |-> ParseBatch(f["batchWindow"]),
     exec |-> IF f["exec"] = Text /\ usable THEN Text ELSE Unset,
     messagePrefix |-> f["messagePrefix"]]

\* ValidateSetting: whether it accepts the value.
ValidateSetting(name, v) ==
    CASE name = "pollInterval"  -> v = Unset \/ (IsNumber(v) /\ v.n \in MinPollInterval..MaxPollInterval)
      [] name = "batchWindow"   -> v = Unset \/ (IsNumber(v) /\ v.n \in 0..MaxBatchWindow)
      [] name = "exec"          -> v = Unset \/ (v = Text /\ usable)
      [] name = "messagePrefix" -> v # Lines

-----------------------------------------------------------------------------
NoCommand == [settings |-> [n \in {} |-> Unset], left |-> {}, busy |-> FALSE]

SettingsInit ==
    /\ settingsPlan \in DOMAIN SettingsPlans
    /\ file = [n \in Names |-> Unset]
    /\ usable = TRUE
    /\ live = ParseRepoSettings(file)
    /\ restart = FALSE /\ stale = FALSE
    /\ cmd = [c \in Clients |-> NoCommand]

\* A request is validated as a whole before anything is written.
WriteRepoSettings(c) ==
    /\ ~cmd[c].busy
    /\ \E settings \in Requests :
          /\ \A n \in DOMAIN settings : ValidateSetting(n, settings[n])
          /\ cmd' = [cmd EXCEPT ![c] =
                [settings |-> settings, busy |-> TRUE, left |-> DOMAIN settings]]
    /\ UNCHANGED <<file, live, restart, usable, stale>>

\* The first of the settings, in the order of SettingNames.
FirstOf(names) ==
    SettingNames[CHOOSE i \in 1..Len(SettingNames) :
                     /\ SettingNames[i] \in names
                     /\ \A j \in 1..(i - 1) : SettingNames[j] \notin names]

\* The next key of the request is set or unset.
WriteKey(c) ==
    /\ cmd[c].left # {}
    /\ LET n == FirstOf(cmd[c].left)
       IN /\ file' = [file EXCEPT ![n] = cmd[c].settings[n]]
          /\ cmd' = [cmd EXCEPT ![c].left = @ \ {n}]
    /\ UNCHANGED <<live, restart, usable, stale>>

\* git config fails: the keys written so far stay, and nothing is restarted.
WriteKeyFails(c) ==
    /\ Faults /\ cmd[c].left # {}
    /\ stale' = TRUE
    /\ cmd' = [cmd EXCEPT ![c] = NoCommand]
    /\ UNCHANGED <<file, live, restart, usable>>

\* Mutant: the watcher is left as it is.
SavedOnly(c) ==
    /\ cmd[c].busy /\ cmd[c].left = {}
    /\ cmd' = [cmd EXCEPT ![c] = NoCommand]
    /\ UNCHANGED <<file, live, restart, usable, stale>>

\* set_settings replies, and restarts the watcher.
Saved(c) ==
    /\ cmd[c].busy /\ cmd[c].left = {}
    /\ restart' = TRUE
    /\ cmd' = [cmd EXCEPT ![c] = NoCommand]
    /\ UNCHANGED <<file, live, usable, stale>>

\* NewRepoConfig, in the watcher that is started: the defaults if the
\* configuration cannot be read.
NewRepoConfig ==
    /\ restart
    /\ restart' = FALSE
    /\ \/ live' = ParseRepoSettings(file) /\ stale' = FALSE
       \/ /\ Faults
          /\ live' = ParseRepoSettings([n \in Names |-> Unset]) /\ stale' = TRUE
    /\ UNCHANGED <<file, usable, cmd>>

\* The user edits the git configuration, or moves the executable; neither is
\* noticed until something restarts the watcher.
Edit ==
    /\ \E e \in Edits : file' = [file EXCEPT ![e.name] = e.value]
    /\ stale' = TRUE
    /\ UNCHANGED <<live, restart, usable, cmd>>

MoveExecutable ==
    /\ usable' = ~usable
    /\ stale' = TRUE
    /\ UNCHANGED <<file, live, restart, cmd>>

Restart ==
    /\ restart' = TRUE
    /\ UNCHANGED <<file, live, usable, cmd, stale>>

SettingsNext ==
    \/ \E c \in Clients : WriteRepoSettings(c) \/ WriteKey(c) \/ WriteKeyFails(c) \/ Saved(c)
    \/ NewRepoConfig \/ Edit \/ MoveExecutable \/ Restart

SettingsSpec == SettingsInit /\ [][SettingsNext /\ UNCHANGED settingsPlan]_<<settingsVars, settingsPlan>>

-----------------------------------------------------------------------------
(* Properties. *)

Settled == ~restart /\ \A c \in Clients : ~cmd[c].busy

SettingsTypeOK ==
    /\ DOMAIN file = Names
    /\ \A n \in Names : file[n].kind \in {"unset", "number", "text", "lines"}
    /\ live.pollInterval \in (-Wide)..(Wide - 1) /\ live.batchWindow \in (-Wide)..(Wide - 1)
    /\ {restart, usable, stale} \subseteq BOOLEAN
    /\ \A c \in Clients : cmd[c].left # {} => cmd[c].busy

\* However requests of several clients interleave, the watcher ends up with
\* the settings that are in the file, unless a write or the read failed or
\* the user had a hand in it.
LiveFollowsFile == Settled /\ ~stale => live = ParseRepoSettings(file)

\* The watcher polls within the limits, whatever is in the file.
PollWithinLimits ==
    live.pollInterval \in (MinPollInterval * Second)..(MaxPollInterval * Second)

\* What a client may save is what the watcher then runs with: no value that
\* ValidateSetting accepts is changed by ParseRepoSettings.
ValidIsKept ==
    \A c \in Clients :
        LET s == cmd[c].settings
        IN /\ "batchWindow" \in DOMAIN s /\ s["batchWindow"] # Unset
                => ParseBatch(s["batchWindow"]) = s["batchWindow"].n * Second
           /\ "pollInterval" \in DOMAIN s /\ s["pollInterval"] # Unset
                => ParsePoll(s["pollInterval"]) = s["pollInterval"].n * Second

Clamp(n, low, high) == IF n < low THEN low ELSE IF n > high THEN high ELSE n

\* A number whose duration does not overflow.
Fits(v) == IsNumber(v) /\ v.n * Second \in (-Wide)..(Wide - 1)

\* A number outside the limits is brought to the nearer one.  A number that
\* overflows is outside this promise: it is taken for whatever duration comes
\* out, a batch window even for a negative one.
SettingsClamped ==
    Settled /\ ~stale =>
        /\ Fits(file["pollInterval"]) =>
             live.pollInterval
               = Clamp(file["pollInterval"].n, MinPollInterval, MaxPollInterval) * Second
        /\ Fits(file["batchWindow"]) =>
             live.batchWindow = Clamp(file["batchWindow"].n, 0, MaxBatchWindow) * Second

\* What is in the file, however it got there, is what the watcher runs with:
\* unchanged if it is within the limits, and brought to the nearer one if its
\* duration does not overflow.  If it does, the poll interval still ends within
\* its limits, but the batch window need not, nor be positive
\* (writeRepoSettings, ValidateSetting, ParseRepoSettings, restartWatcher).
SettingsInv ==
    /\ SettingsTypeOK
    /\ LiveFollowsFile
    /\ PollWithinLimits
    /\ ValidIsKept
    /\ SettingsClamped
=============================================================================
