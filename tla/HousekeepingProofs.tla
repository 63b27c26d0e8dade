------------------------- MODULE HousekeepingProofs -------------------------
(***************************************************************************)
(* A watcher runs with the settings that are in the file, brought within   *)
(* the limits where the duration does not overflow, for any number of      *)
(* clients, any requests and edits and any width of integers; the answers  *)
(* of git about ignored files are right or not older than TTL, for any     *)
(* files, directories and rules; and rotated logs keep the newest lines in *)
(* order and are followed without a hole, for any limits and lines.        *)
(***************************************************************************)
EXTENDS RepoSettings, IgnoreCache, LogFiles, Iteration, FiniteSetTheorems, SequenceTheorems, TLAPS

-----------------------------------------------------------------------------
(* Durations. *)

LEMMA Widths ==
    /\ Wide \in Nat /\ Wide > 0 /\ Second \in Nat /\ Second > 0
    /\ MinPollInterval \in Nat /\ MaxPollInterval \in Nat /\ DefaultPollInterval \in Nat
    /\ MaxBatchWindow \in Nat
    /\ MinPollInterval <= DefaultPollInterval /\ DefaultPollInterval <= MaxPollInterval
    /\ MaxPollInterval * Second < Wide /\ MaxBatchWindow * Second < Wide
BY WidthAssumption

\* Multiplying keeps the order.
LEMMA Scale ==
    ASSUME NEW a \in Int, NEW b \in Int, NEW s \in Nat, s > 0
    PROVE  /\ a * s \in Int /\ b * s \in Int
           /\ a <= b => a * s <= b * s
           /\ a < b => a * s < b * s
<1>1. a * s \in Int /\ b * s \in Int
  OBVIOUS
<1>2. b * s - a * s = (b - a) * s
  OBVIOUS
<1>3. ASSUME a <= b PROVE (b - a) * s >= 0
  BY <1>3
<1>4. ASSUME a < b PROVE (b - a) * s > 0
  BY <1>4
<1>. QED
  BY <1>1, <1>2, <1>3, <1>4

\* A duration is an integer of the machine, and the product unless it overflows.
LEMMA DurationIs ==
    ASSUME NEW n \in Int
    PROVE  /\ Duration(n) \in (-Wide)..(Wide - 1)
           /\ n * Second \in (-Wide)..(Wide - 1) => Duration(n) = n * Second
<1>. DEFINE x == n * Second + Wide
            m == 2 * Wide
<1>1. x \in Int /\ m \in Int /\ m > 0 /\ Wide \in Int
  BY Widths
<1>2. Duration(n) = (x % m) - Wide
  BY DEF Duration
<1>3. n * Second = x - Wide /\ m = 2 * Wide
  BY Widths
<1>. HIDE DEF x, m
<1>4. x % m \in 0..(m - 1) /\ (x \in 0..(m - 1) => x % m = x)
  BY <1>1
<1>. QED
  BY <1>1, <1>2, <1>3, <1>4

LEMMA PollIs ==
    ASSUME NEW v \in Value
    PROVE  /\ ParsePoll(v) \in (MinPollInterval * Second)..(MaxPollInterval * Second)
           /\ Fits(v) => ParsePoll(v) = Clamp(v.n, MinPollInterval, MaxPollInterval) * Second
<1>1. v.n \in Int
  BY DEF Value
<1>2. /\ MinPollInterval * Second <= DefaultPollInterval * Second
      /\ DefaultPollInterval * Second <= MaxPollInterval * Second
      /\ MinPollInterval * Second \in Int /\ DefaultPollInterval * Second \in Int
      /\ MaxPollInterval * Second \in Int
  BY Widths, Scale
<1>3. Duration(v.n) \in Int
  BY <1>1, DurationIs, Widths
<1>4. ParsePoll(v) \in (MinPollInterval * Second)..(MaxPollInterval * Second)
  BY <1>2, <1>3 DEF ParsePoll
<1>5. ASSUME Fits(v) PROVE ParsePoll(v) = Clamp(v.n, MinPollInterval, MaxPollInterval) * Second
  <2>1. Duration(v.n) = v.n * Second /\ IsNumber(v)
    BY <1>1, <1>5, DurationIs DEF Fits
  <2>2. /\ v.n < MinPollInterval <=> v.n * Second < MinPollInterval * Second
        /\ v.n > MaxPollInterval <=> v.n * Second > MaxPollInterval * Second
    <3>1. /\ v.n < MinPollInterval => v.n * Second < MinPollInterval * Second
          /\ MinPollInterval <= v.n => MinPollInterval * Second <= v.n * Second
          /\ v.n * Second \in Int
      BY <1>1, Widths, Scale
    <3>2. /\ MaxPollInterval < v.n => MaxPollInterval * Second < v.n * Second
          /\ v.n <= MaxPollInterval => v.n * Second <= MaxPollInterval * Second
      BY <1>1, Widths, Scale
    <3>. QED
      BY <1>1, <1>2, <3>1, <3>2, Widths
  <2>. QED
    BY <2>1, <2>2 DEF ParsePoll, Clamp
<1>. QED
  BY <1>4, <1>5

LEMMA BatchIs ==
    ASSUME NEW v \in Value
    PROVE  /\ ParseBatch(v) \in (-Wide)..(Wide - 1)
           /\ Fits(v) => ParseBatch(v) = Clamp(v.n, 0, MaxBatchWindow) * Second
<1>1. v.n \in Int
  BY DEF Value
<1>2. /\ 0 * Second = 0 /\ 0 * Second <= MaxBatchWindow * Second
      /\ MaxBatchWindow * Second \in Int /\ MaxBatchWindow * Second < Wide
  BY Widths, Scale
<1>3. Duration(v.n) \in (-Wide)..(Wide - 1)
  BY <1>1, DurationIs
<1>4. ParseBatch(v) \in (-Wide)..(Wide - 1)
  BY <1>2, <1>3, Widths DEF ParseBatch
<1>5. ASSUME Fits(v) PROVE ParseBatch(v) = Clamp(v.n, 0, MaxBatchWindow) * Second
  <2>1. Duration(v.n) = v.n * Second /\ IsNumber(v)
    BY <1>1, <1>5, DurationIs DEF Fits
  <2>2. v.n > MaxBatchWindow <=> v.n * Second > MaxBatchWindow * Second
    <3>1. /\ MaxBatchWindow < v.n => MaxBatchWindow * Second < v.n * Second
          /\ v.n <= MaxBatchWindow => v.n * Second <= MaxBatchWindow * Second
          /\ v.n * Second \in Int
      BY <1>1, Widths, Scale
    <3>. QED
      BY <1>1, <1>2, <3>1, Widths
  <2>. QED
    BY <1>2, <2>1, <2>2 DEF ParseBatch, Clamp
<1>. QED
  BY <1>4, <1>5

\* What is valid lies within the limits, and its duration does not overflow.
LEMMA ValidIs ==
    ASSUME NEW v \in Value, v # Unset
    PROVE  /\ ValidateSetting("pollInterval", v) => ParsePoll(v) = v.n * Second
           /\ ValidateSetting("batchWindow", v) => ParseBatch(v) = v.n * Second
<1>1. v.n \in Int
  BY Widths DEF Value
<1>2. ASSUME ValidateSetting("pollInterval", v) PROVE ParsePoll(v) = v.n * Second
  <2>1. IsNumber(v) /\ v.n \in MinPollInterval..MaxPollInterval
    BY <1>2 DEF ValidateSetting
  <2>2. 0 * Second <= v.n * Second /\ v.n * Second <= MaxPollInterval * Second /\ v.n * Second \in Int
    BY <1>1, <2>1, Widths, Scale
  <2>3. Fits(v)
    BY <2>1, <2>2, Widths DEF Fits
  <2>4. Clamp(v.n, MinPollInterval, MaxPollInterval) = v.n
    BY <1>1, <2>1, Widths DEF Clamp
  <2>. QED
    BY <2>3, <2>4, PollIs
<1>3. ASSUME ValidateSetting("batchWindow", v) PROVE ParseBatch(v) = v.n * Second
  <2>1. IsNumber(v) /\ v.n \in 0..MaxBatchWindow
    BY <1>3 DEF ValidateSetting
  <2>2. 0 * Second <= v.n * Second /\ v.n * Second <= MaxBatchWindow * Second /\ v.n * Second \in Int
    BY <1>1, <2>1, Widths, Scale
  <2>3. Fits(v)
    BY <2>1, <2>2, Widths DEF Fits
  <2>4. Clamp(v.n, 0, MaxBatchWindow) = v.n
    BY <1>1, <2>1, Widths DEF Clamp
  <2>. QED
    BY <2>3, <2>4, BatchIs
<1>. QED
  BY <1>2, <1>3

-----------------------------------------------------------------------------
(* Settings. *)

Settings == UNION {[names -> Value] : names \in SUBSET Names}

Command == [settings : Settings, left : SUBSET Names, busy : BOOLEAN]

\* While the watcher runs with something else than the file says, it is known to
\* be so, a watcher is to be started, or a client is not done; every key that is
\* still to be written is in the request.
FollowInv ==
    live = ParseRepoSettings(file) \/ restart \/ stale \/ \E c \in Clients : cmd[c].busy

SettingsTypes ==
    /\ settingsPlan \in DOMAIN SettingsPlans
    /\ file \in [Names -> Value]
    /\ restart \in BOOLEAN /\ usable \in BOOLEAN /\ stale \in BOOLEAN
    /\ cmd \in [Clients -> Command]
    /\ \A c \in Clients : /\ cmd[c].left \subseteq DOMAIN cmd[c].settings
                          /\ cmd[c].left # {} => cmd[c].busy

LiveInv ==
    PollWithinLimits /\ live.batchWindow \in (-Wide)..(Wide - 1)

FileInv == SettingsTypes /\ LiveInv /\ FollowInv /\ ValidIsKept

LEMMA Keys ==
    /\ Names = {"pollInterval", "batchWindow", "exec", "messagePrefix"}
    /\ \A names \in SUBSET Names : names # {} => FirstOf(names) \in names
<1>1. /\ Len(SettingNames) = 4 /\ SettingNames[1] = "pollInterval" /\ SettingNames[2] = "batchWindow"
      /\ SettingNames[3] = "exec" /\ SettingNames[4] = "messagePrefix"
  BY DEF SettingNames
<1>2. Names = {"pollInterval", "batchWindow", "exec", "messagePrefix"}
  BY <1>1 DEF Names
<1>3. ASSUME NEW names \in SUBSET Names, names # {} PROVE FirstOf(names) \in names
  <2>1. \E i \in 1..Len(SettingNames) : /\ SettingNames[i] \in names
                                        /\ \A j \in 1..(i - 1) : SettingNames[j] \notin names
    <3>1. CASE SettingNames[1] \in names
      BY <1>1, <3>1
    <3>2. CASE SettingNames[1] \notin names /\ SettingNames[2] \in names
      BY <1>1, <3>2
    <3>3. CASE /\ SettingNames[1] \notin names /\ SettingNames[2] \notin names
               /\ SettingNames[3] \in names
      BY <1>1, <3>3
    <3>4. CASE /\ SettingNames[1] \notin names /\ SettingNames[2] \notin names
               /\ SettingNames[3] \notin names
      <4>1. SettingNames[4] \in names
        BY <1>1, <1>2, <1>3, <3>4
      <4>2. \A j \in 1..(4 - 1) : SettingNames[j] \notin names
        BY <3>4
      <4>3. 4 \in 1..Len(SettingNames)
        BY <1>1
      <4>. QED
        BY <4>1, <4>2, <4>3
    <3>. QED
      BY <3>1, <3>2, <3>3, <3>4
  <2>. QED
    BY <2>1 DEF FirstOf
<1>. QED
  BY <1>2, <1>3

LEMMA UnsetIs == Unset \in Value /\ [n \in Names |-> Unset] \in [Names -> Value]
BY DEF Unset, Value

LEMMA ParsedIs ==
    ASSUME NEW f \in [Names -> Value]
    PROVE  /\ ParseRepoSettings(f).pollInterval
                 \in (MinPollInterval * Second)..(MaxPollInterval * Second)
           /\ ParseRepoSettings(f).batchWindow \in (-Wide)..(Wide - 1)
           /\ Fits(f["pollInterval"]) =>
                 ParseRepoSettings(f).pollInterval
                    = Clamp(f["pollInterval"].n, MinPollInterval, MaxPollInterval) * Second
           /\ Fits(f["batchWindow"]) =>
                 ParseRepoSettings(f).batchWindow = Clamp(f["batchWindow"].n, 0, MaxBatchWindow) * Second
<1>1. f["pollInterval"] \in Value /\ f["batchWindow"] \in Value
  BY Keys
<1>2. /\ ParseRepoSettings(f).pollInterval = ParsePoll(f["pollInterval"])
      /\ ParseRepoSettings(f).batchWindow = ParseBatch(f["batchWindow"])
  BY DEF ParseRepoSettings
<1>. QED
  BY <1>1, <1>2, PollIs, BatchIs

LEMMA NoCommandIs ==
    /\ NoCommand \in Command /\ NoCommand.left = {} /\ ~NoCommand.busy
    /\ DOMAIN NoCommand.settings = {}
<1>1. [n \in {} |-> Unset] \in [{} -> Value]
  OBVIOUS
<1>2. [n \in {} |-> Unset] \in Settings
  BY <1>1 DEF Settings
<1>. QED
  BY <1>2 DEF NoCommand, Command

LEMMA FileInit == SettingsInit => FileInv
<1>. SUFFICES ASSUME SettingsInit PROVE FileInv
  OBVIOUS
<1>1. SettingsTypes
  BY UnsetIs, NoCommandIs DEF SettingsInit, SettingsTypes
<1>2. LiveInv
  <2>1. file \in [Names -> Value] /\ live = ParseRepoSettings(file)
    BY UnsetIs DEF SettingsInit
  <2>. QED
    BY <2>1, ParsedIs DEF LiveInv, PollWithinLimits
<1>3. FollowInv
  BY DEF SettingsInit, FollowInv
<1>4. ValidIsKept
  BY NoCommandIs DEF SettingsInit, ValidIsKept
<1>. QED
  BY <1>1, <1>2, <1>3, <1>4 DEF FileInv

\* A client's command takes a step; what it has written stays with its restart.
LEMMA CommandsKeep ==
    ASSUME FileInv, UNCHANGED settingsPlan, NEW c \in Clients,
           WriteRepoSettings(c) \/ WriteKey(c) \/ WriteKeyFails(c) \/ Saved(c)
    PROVE  FileInv'
<1>. USE DEF FileInv
<1>. HIDE DEF Value, Command, Names
<1>0. cmd \in [Clients -> Command] /\ cmd[c] \in Command
  BY DEF SettingsTypes
<1>1. CASE WriteRepoSettings(c)
  <2>1. PICK s \in Requests :
          /\ \A n \in DOMAIN s : ValidateSetting(n, s[n])
          /\ cmd' = [cmd EXCEPT ![c] = [settings |-> s, busy |-> TRUE, left |-> DOMAIN s]]
    BY <1>1 DEF WriteRepoSettings
  <2>2. UNCHANGED <<file, live, restart, usable, stale>>
    BY <1>1 DEF WriteRepoSettings
  <2>3. s \in Settings
    <3>1. PICK names \in SUBSET Names : s \in [names -> Value]
      BY SettingsPlansAssumption DEF SettingsTypes, Requests
    <3>. QED
      BY <3>1 DEF Settings
  <2>4. DOMAIN s \subseteq Names /\ \A n \in DOMAIN s : s[n] \in Value
    BY <2>3 DEF Settings
  <2>. DEFINE k == [settings |-> s, busy |-> TRUE, left |-> DOMAIN s]
  <2>5. k \in Command /\ k.settings = s /\ k.busy /\ k.left = DOMAIN s
    BY <2>3, <2>4 DEF Command
  <2>. HIDE DEF k
  <2>6. /\ cmd' \in [Clients -> Command] /\ cmd'[c] = k
        /\ \A e \in Clients : e # c => cmd'[e] = cmd[e]
    BY <1>0, <2>1, <2>5 DEF k
  <2>7. SettingsTypes'
    BY <2>2, <2>5, <2>6 DEF SettingsTypes
  <2>8. LiveInv' /\ FollowInv'
    BY <2>2, <2>5, <2>6 DEF LiveInv, PollWithinLimits, FollowInv
  <2>9. ValidIsKept'
    <3>1. /\ "batchWindow" \in DOMAIN s /\ s["batchWindow"] # Unset
                => ParseBatch(s["batchWindow"]) = s["batchWindow"].n * Second
          /\ "pollInterval" \in DOMAIN s /\ s["pollInterval"] # Unset
                => ParsePoll(s["pollInterval"]) = s["pollInterval"].n * Second
      BY <2>1, <2>4, ValidIs
    <3>. QED
      BY <2>5, <2>6, <3>1 DEF ValidIsKept
  <2>. QED
    BY <2>7, <2>8, <2>9
<1>2. CASE WriteKey(c)
  <2>. DEFINE n == FirstOf(cmd[c].left)
              k == [cmd[c] EXCEPT !.left = @ \ {n}]
  <2>1. /\ cmd[c].left # {} /\ file' = [file EXCEPT ![n] = cmd[c].settings[n]]
        /\ cmd' = [cmd EXCEPT ![c].left = @ \ {n}]
        /\ UNCHANGED <<live, restart, usable, stale>>
    BY <1>2 DEF WriteKey
  <2>2. /\ cmd[c].left \in SUBSET Names /\ cmd[c].settings \in Settings /\ cmd[c].busy
        /\ cmd[c].left \subseteq DOMAIN cmd[c].settings
    BY <1>0, <2>1 DEF Command, SettingsTypes
  <2>3. n \in cmd[c].left /\ n \in Names
    BY <2>1, <2>2, Keys
  <2>4. cmd[c].settings[n] \in Value
    BY <2>2, <2>3 DEF Settings
  <2>5. file' \in [Names -> Value]
    BY <2>1, <2>3, <2>4 DEF SettingsTypes
  <2>6. /\ k \in Command /\ k.settings = cmd[c].settings /\ k.busy = cmd[c].busy
        /\ k.left = cmd[c].left \ {n}
    BY <1>0 DEF Command
  <2>7. cmd' = [cmd EXCEPT ![c] = k]
    BY <1>0, <2>1
  <2>. HIDE DEF k, n
  <2>8. /\ cmd' \in [Clients -> Command] /\ cmd'[c] = k
        /\ \A e \in Clients : e # c => cmd'[e] = cmd[e]
    BY <1>0, <2>6, <2>7
  <2>9. SettingsTypes'
    BY <2>1, <2>2, <2>5, <2>6, <2>8 DEF SettingsTypes
  <2>10. LiveInv' /\ FollowInv'
    BY <2>1, <2>2, <2>6, <2>8 DEF LiveInv, PollWithinLimits, FollowInv
  <2>11. ValidIsKept'
    BY <2>6, <2>8 DEF ValidIsKept
  <2>. QED
    BY <2>9, <2>10, <2>11
<1>3. CASE WriteKeyFails(c) \/ Saved(c)
  <2>1. /\ cmd' = [cmd EXCEPT ![c] = NoCommand] /\ UNCHANGED <<file, live, usable>>
        /\ \/ stale' = TRUE /\ restart' = restart
           \/ restart' = TRUE /\ stale' = stale
    BY <1>3 DEF WriteKeyFails, Saved
  <2>2. /\ cmd' \in [Clients -> Command] /\ cmd'[c] = NoCommand
        /\ \A e \in Clients : e # c => cmd'[e] = cmd[e]
    BY <1>0, <2>1, NoCommandIs
  <2>3. SettingsTypes'
    BY <2>1, <2>2, NoCommandIs DEF SettingsTypes
  <2>4. LiveInv' /\ FollowInv'
    BY <2>1 DEF LiveInv, PollWithinLimits, FollowInv
  <2>5. ValidIsKept'
    BY <2>2, NoCommandIs DEF ValidIsKept
  <2>. QED
    BY <2>3, <2>4, <2>5
<1>. QED
  BY <1>1, <1>2, <1>3

LEMMA RestKeeps ==
    ASSUME FileInv, UNCHANGED settingsPlan, NewRepoConfig \/ Edit \/ MoveExecutable \/ Restart
    PROVE  FileInv'
<1>. USE DEF FileInv
<1>. HIDE DEF Value, Command, Names
<1>1. cmd' = cmd
  BY DEF NewRepoConfig, Edit, MoveExecutable, Restart
<1>2. ValidIsKept'
  BY <1>1 DEF ValidIsKept
<1>3. CASE NewRepoConfig
  <2>1. PICK f \in [Names -> Value] :
            live' = ParseRepoSettings(f) /\ ((stale' = FALSE /\ f = file) \/ stale' = TRUE)
    BY <1>3, UnsetIs DEF NewRepoConfig, SettingsTypes
  <2>2. restart' = FALSE /\ UNCHANGED <<file, usable>>
    BY <1>3 DEF NewRepoConfig
  <2>3. SettingsTypes'
    BY <1>1, <2>1, <2>2 DEF SettingsTypes
  <2>4. LiveInv'
    BY <2>1, ParsedIs DEF LiveInv, PollWithinLimits
  <2>5. FollowInv'
    BY <2>1, <2>2 DEF FollowInv, ParseRepoSettings
  <2>. QED
    BY <1>2, <2>3, <2>4, <2>5
<1>4. CASE Edit
  <2>1. PICK e \in Edits : file' = [file EXCEPT ![e.name] = e.value]
    BY <1>4 DEF Edit
  <2>2. e.name \in Names /\ e.value \in Value
    BY SettingsPlansAssumption DEF SettingsTypes, Edits
  <2>3. stale' = TRUE /\ UNCHANGED <<live, restart, usable>>
    BY <1>4 DEF Edit
  <2>4. SettingsTypes'
    BY <1>1, <2>1, <2>2, <2>3 DEF SettingsTypes
  <2>5. LiveInv' /\ FollowInv'
    BY <2>3 DEF LiveInv, PollWithinLimits, FollowInv
  <2>. QED
    BY <1>2, <2>4, <2>5
<1>5. CASE MoveExecutable
  <2>1. usable' \in BOOLEAN
    BY <1>5, Zenon DEF MoveExecutable
  <2>2. stale' = TRUE /\ UNCHANGED <<file, live, restart>>
    BY <1>5 DEF MoveExecutable
  <2>3. SettingsTypes'
    BY <1>1, <2>1, <2>2 DEF SettingsTypes
  <2>4. LiveInv' /\ FollowInv'
    BY <2>2 DEF LiveInv, PollWithinLimits, FollowInv
  <2>. QED
    BY <1>2, <2>3, <2>4
<1>6. CASE Restart
  <2>1. restart' = TRUE /\ UNCHANGED <<file, live, usable, stale>>
    BY <1>6 DEF Restart
  <2>2. SettingsTypes'
    BY <1>1, <2>1 DEF SettingsTypes
  <2>3. LiveInv' /\ FollowInv'
    BY <2>1 DEF LiveInv, PollWithinLimits, FollowInv
  <2>. QED
    BY <1>2, <2>2, <2>3
<1>. QED
  BY <1>3, <1>4, <1>5, <1>6

LEMMA FileNext ==
    FileInv /\ [SettingsNext /\ UNCHANGED settingsPlan]_<<settingsVars, settingsPlan>> => FileInv'
<1>1. ASSUME FileInv, SettingsNext, UNCHANGED settingsPlan PROVE FileInv'
  BY <1>1, CommandsKeep, RestKeeps DEF SettingsNext
<1>2. ASSUME FileInv, UNCHANGED <<settingsVars, settingsPlan>> PROVE FileInv'
  BY <1>2 DEF FileInv, settingsVars, SettingsTypes, LiveInv, PollWithinLimits, FollowInv,
         ParseRepoSettings, ValidIsKept
<1>. QED
  BY <1>1, <1>2

LEMMA FileSafe == FileInv => SettingsInv
<1>. SUFFICES ASSUME FileInv PROVE SettingsInv
  OBVIOUS
<1>1. SettingsTypes /\ LiveInv /\ FollowInv /\ ValidIsKept /\ PollWithinLimits
  BY DEF FileInv, LiveInv
<1>2. SettingsTypeOK
  <2>1. live.pollInterval \in (-Wide)..(Wide - 1)
    <3>1. 0 * Second <= MinPollInterval * Second /\ MinPollInterval * Second \in Int
      BY Widths, Scale
    <3>2. MaxPollInterval * Second \in Int
      BY Widths
    <3>. QED
      BY <1>1, <3>1, <3>2, Widths DEF PollWithinLimits
  <2>2. \A n \in Names : file[n].kind \in {"unset", "number", "text", "lines"}
    <3>1. \A v \in Value : v.kind \in {"unset", "number", "text", "lines"}
      BY DEF Value
    <3>. QED
      BY <1>1, <3>1 DEF SettingsTypes
  <2>3. DOMAIN file = Names
    BY <1>1 DEF SettingsTypes
  <2>4. {restart, usable, stale} \subseteq BOOLEAN
    BY <1>1 DEF SettingsTypes
  <2>. QED
    BY <1>1, <2>1, <2>2, <2>3, <2>4 DEF SettingsTypeOK, SettingsTypes, LiveInv
<1>3. LiveFollowsFile
  BY <1>1 DEF FollowInv, LiveFollowsFile, Settled
<1>4. SettingsClamped
  <2>1. file \in [Names -> Value]
    BY <1>1 DEF SettingsTypes
  <2>. QED
    BY <1>3, <2>1, ParsedIs DEF SettingsClamped, LiveFollowsFile
<1>. QED
  BY <1>1, <1>2, <1>3, <1>4 DEF SettingsInv

\* However the requests of clients interleave, fail half-way or meet edits by
\* hand, the watcher ends up with what is in the file, brought within the limits
\* where its duration does not overflow, and never polls outside them; what a
\* client may save is what the watcher then runs with
\* (src/daemon/commands.go, writeRepoSettings; src/common/repoconfig.go,
\* ParseRepoSettings, ValidateSetting).
THEOREM SettingsHold == SettingsSpec => []SettingsInv
BY FileInit, FileNext, FileSafe, PTL DEF SettingsSpec

-----------------------------------------------------------------------------
(* Ignore rules. *)

Answer == [ignored : BOOLEAN, at : Nat]

CacheTypes ==
    /\ rules \in Rules
    /\ clock \in Nat /\ changed \in Nat /\ changed <= clock
    /\ unseen \in BOOLEAN /\ answer \in BOOLEAN
    /\ queue \in Seq(Files) /\ Len(queue) <= MaxEvents

KeptTypes ==
    /\ cache \in [DOMAIN cache -> Answer]
    /\ DOMAIN cache \subseteq Files \cup Dirs
    /\ IsFiniteSet(DOMAIN cache) /\ Cardinality(DOMAIN cache) <= MaxEntries
    /\ \A q \in DOMAIN cache : cache[q].at <= clock

WalkInv ==
    /\ pc \in {"wait", "look", "git", "store"}
    /\ (pc # "wait" => path \in Files)
    /\ (pc \in {"git", "store"} => path \in query /\ query \subseteq Above[path] \cup {path})
    /\ asked \in Nat /\ asked <= clock
    /\ found \subseteq query /\ (pc # "store" => found = {})

\* Answers that were asked after the last change are right, and so are all when
\* nothing has changed that will not be told.
KeptRight ==
    \A q \in DOMAIN cache : 
        (cache[q].at > changed \/ (~unseen /\ ~Pending)) => cache[q].ignored = (q \in rules)

FoundRight ==
    pc = "store" /\ (asked > changed \/ (~unseen /\ ~Pending)) => found = query \cap rules

IgnoreInv == CacheTypes /\ KeptTypes /\ WalkInv /\ KeptRight /\ FoundRight

LEMMA CacheIs ==
    /\ ".gitignore" \in Files /\ IsFiniteSet(Dirs) /\ Above \in [Files -> SUBSET Dirs]
    /\ TTL \in Nat /\ TTL > 0 /\ MaxEntries \in Nat /\ MaxEntries > 0
    /\ Cardinality(Dirs) \in Nat /\ MaxEntries > Cardinality(Dirs)
    /\ MaxEvents \in Nat /\ MaxTime \in Nat
BY CacheAssumption, FS_CardinalityType

LEMMA EmptyIs ==
    /\ [q \in {} |-> 0] \in [{} -> Answer] /\ DOMAIN [q \in {} |-> 0] = {}
    /\ IsFiniteSet({}) /\ Cardinality({}) = 0
BY FS_EmptySet

\* Which events wait after one was added or taken.
LEMMA Waiting ==
    ASSUME queue \in Seq(Files), NEW f \in Files
    PROVE  /\ Append(queue, f) \in Seq(Files) /\ Len(Append(queue, f)) = Len(queue) + 1
           /\ Range(Append(queue, f)) = Range(queue) \cup {f}
           /\ queue # <<>> =>
                 /\ Head(queue) \in Files /\ Tail(queue) \in Seq(Files)
                 /\ Len(Tail(queue)) < Len(queue)
                 /\ Range(queue) = Range(Tail(queue)) \cup {Head(queue)}
<1>1. Append(queue, f) \in Seq(Files) /\ Len(Append(queue, f)) = Len(queue) + 1
  OBVIOUS
<1>2. Range(Append(queue, f)) = Range(queue) \cup {f}
  <2>1. ASSUME NEW x \in Range(Append(queue, f)) PROVE x \in Range(queue) \cup {f}
    <3>1. PICK i \in 1..Len(Append(queue, f)) : x = Append(queue, f)[i]
      BY <1>1, <2>1 DEF Range
    <3>2. i \in 1..Len(queue) \/ i = Len(queue) + 1
      BY <1>1
    <3>. QED
      BY <3>1, <3>2 DEF Range
  <2>2. ASSUME NEW x \in Range(queue) PROVE x \in Range(Append(queue, f))
    <3>1. PICK i \in 1..Len(queue) : x = queue[i]
      BY <2>2 DEF Range
    <3>2. i \in DOMAIN Append(queue, f) /\ Append(queue, f)[i] = x
      BY <1>1, <3>1
    <3>. QED
      BY <3>2 DEF Range
  <2>3. f \in Range(Append(queue, f))
    <3>1. Len(queue) + 1 \in DOMAIN Append(queue, f) /\ Append(queue, f)[Len(queue) + 1] = f
      BY <1>1
    <3>. QED
      BY <3>1 DEF Range
  <2>. QED
    BY <2>1, <2>2, <2>3
<1>3. ASSUME queue # <<>>
      PROVE /\ Head(queue) \in Files /\ Tail(queue) \in Seq(Files)
            /\ Len(Tail(queue)) < Len(queue)
            /\ Range(queue) = Range(Tail(queue)) \cup {Head(queue)}
  <2>1. /\ Head(queue) \in Files /\ Tail(queue) \in Seq(Files) /\ Len(Tail(queue)) = Len(queue) - 1
        /\ Len(queue) > 0 /\ Head(queue) = queue[1]
        /\ \A i \in 1..Len(Tail(queue)) : Tail(queue)[i] = queue[i + 1]
    BY <1>3
  <2>2. ASSUME NEW x \in Range(queue) PROVE x \in Range(Tail(queue)) \cup {Head(queue)}
    <3>1. PICK i \in 1..Len(queue) : x = queue[i]
      BY <2>2 DEF Range
    <3>2. CASE i = 1
      BY <2>1, <3>1, <3>2
    <3>3. CASE i # 1
      <4>1. i - 1 \in 1..Len(Tail(queue)) /\ Tail(queue)[i - 1] = queue[(i - 1) + 1]
        BY <2>1, <3>1, <3>3
      <4>2. i - 1 \in DOMAIN Tail(queue) /\ Tail(queue)[i - 1] = x
        BY <2>1, <3>1, <4>1
      <4>. QED
        BY <4>2 DEF Range
    <3>. QED
      BY <3>2, <3>3
  <2>3. ASSUME NEW x \in Range(Tail(queue)) PROVE x \in Range(queue)
    <3>1. PICK i \in 1..Len(Tail(queue)) : x = Tail(queue)[i]
      BY <2>1, <2>3 DEF Range
    <3>2. i + 1 \in 1..Len(queue) /\ x = queue[i + 1]
      BY <2>1, <3>1
    <3>. QED
      BY <3>2 DEF Range
  <2>4. Head(queue) \in Range(queue)
    BY <2>1 DEF Range
  <2>. QED
    BY <2>1, <2>2, <2>3, <2>4
<1>. QED
  BY <1>1, <1>2, <1>3

LEMMA IgnoreInit == CacheInit => IgnoreInv
<1>. SUFFICES ASSUME CacheInit PROVE IgnoreInv
  OBVIOUS
<1>1. CacheTypes
  <2>1. unseen \in BOOLEAN /\ answer \in BOOLEAN
    BY DEF CacheInit
  <2>2. queue \in Seq(Files) /\ Len(queue) <= MaxEvents
    BY CacheIs DEF CacheInit
  <2>. QED
    BY <2>1, <2>2 DEF CacheInit, CacheTypes
<1>2. KeptTypes /\ KeptRight
  BY EmptyIs, CacheIs DEF CacheInit, KeptTypes, KeptRight
<1>3. WalkInv /\ FoundRight
  BY DEF CacheInit, WalkInv, FoundRight
<1>. QED
  BY <1>1, <1>2, <1>3 DEF IgnoreInv

\* An event is taken up; that of a .gitignore empties the cache.
LEMMA TakingKeeps == IgnoreInv /\ ShouldIgnoreFile => IgnoreInv'
<1>. SUFFICES ASSUME IgnoreInv, ShouldIgnoreFile PROVE IgnoreInv'
  OBVIOUS
<1>1. CacheTypes /\ KeptTypes /\ WalkInv /\ KeptRight /\ FoundRight
  BY DEF IgnoreInv
<1>2. /\ pc = "wait" /\ queue # <<>> /\ path' = Head(queue) /\ queue' = Tail(queue) /\ pc' = "look"
      /\ UNCHANGED <<rules, changed, clock, asked, query, found, answer>>
  BY DEF ShouldIgnoreFile
<1>3. /\ Head(queue) \in Files /\ Tail(queue) \in Seq(Files) /\ Len(Tail(queue)) < Len(queue)
      /\ Range(queue) = Range(Tail(queue)) \cup {Head(queue)}
  BY <1>1, <1>2, CacheIs, Waiting DEF CacheTypes
<1>4. /\ Head(queue) = ".gitignore" => cache' = [q \in {} |-> 0] /\ unseen' = FALSE
      /\ Head(queue) # ".gitignore" => UNCHANGED <<cache, unseen>>
  BY DEF ShouldIgnoreFile
<1>5. CacheTypes'
  <2>1. unseen' \in BOOLEAN
    BY <1>1, <1>4 DEF CacheTypes
  <2>2. Len(Tail(queue)) <= MaxEvents
    BY <1>1, <1>3, CacheIs DEF CacheTypes
  <2>. QED
    BY <1>1, <1>2, <1>3, <2>1, <2>2 DEF CacheTypes
<1>6. WalkInv' /\ FoundRight'
  BY <1>1, <1>2, <1>3 DEF WalkInv, FoundRight
<1>7. KeptTypes' /\ KeptRight'
  <2>1. CASE Head(queue) = ".gitignore"
    <3>. DEFINE none == [q \in {} |-> 0]
    <3>1. cache' = none
      BY <1>4, <2>1
    <3>2. none \in [{} -> Answer] /\ DOMAIN none = {} /\ Cardinality({}) = 0 /\ IsFiniteSet({})
      BY EmptyIs
    <3>. HIDE DEF none
    <3>. QED
      BY <3>1, <3>2, CacheIs DEF KeptTypes, KeptRight
  <2>2. CASE Head(queue) # ".gitignore"
    <3>1. Pending' = Pending
      BY <1>2, <1>3, <2>2 DEF Pending
    <3>. QED
      BY <1>1, <1>2, <1>4, <2>2, <3>1 DEF KeptTypes, KeptRight
  <2>. QED
    BY <2>1, <2>2
<1>. QED
  BY <1>5, <1>6, <1>7 DEF IgnoreInv

\* A step that touches neither the rules, the events nor the cache.
LEMMA WalkingKeeps ==
    IgnoreInv /\ UNCHANGED <<rules, changed, unseen, clock, cache, queue>> /\ answer' \in BOOLEAN
        => CacheTypes' /\ KeptTypes' /\ KeptRight' /\ Pending' = Pending
BY DEF IgnoreInv, CacheTypes, KeptTypes, KeptRight, Pending

LEMMA ReturnKeeps ==
    IgnoreInv /\ Return /\ UNCHANGED clock => WalkInv' /\ FoundRight'
BY DEF IgnoreInv, CacheTypes, Return, WalkInv, FoundRight

LEMMA LookingKeeps == IgnoreInv /\ LookUp => IgnoreInv'
<1>. SUFFICES ASSUME IgnoreInv, LookUp PROVE IgnoreInv'
  OBVIOUS
<1>1. CacheTypes /\ KeptTypes /\ WalkInv /\ path \in Files
  BY DEF IgnoreInv, WalkInv, LookUp
<1>2. UNCHANGED <<rules, changed, unseen, clock, cache, queue>>
  BY DEF LookUp
<1>. DEFINE known == {q \in Above[path] \cup {path} : Fresh(q)}
            inIgnored == \E d \in known \cap Above[path] : cache[d].ignored
<1>3. CASE inIgnored \/ path \in known
  <2>1. Decide(inIgnored \/ cache[path].ignored)
    BY <1>3 DEF LookUp
  <2>2. answer' \in BOOLEAN /\ Return
    BY <2>1 DEF Decide
  <2>3. WalkInv' /\ FoundRight'
    BY <1>2, <2>2, ReturnKeeps
  <2>. QED
    BY <1>2, <2>2, <2>3, WalkingKeeps DEF IgnoreInv
<1>4. CASE ~(inIgnored \/ path \in known)
  <2>1. /\ query' = (Above[path] \cup {path}) \ known /\ asked' = clock
        /\ pc' = "git" /\ UNCHANGED <<path, answer>> /\ found' = found
    BY <1>4 DEF LookUp
  <2>2. found' = {} /\ path \in query' /\ query' \subseteq Above[path] \cup {path}
    BY <1>1, <1>4, <2>1 DEF WalkInv, LookUp
  <2>3. answer' \in BOOLEAN
    BY <1>1, <2>1 DEF CacheTypes
  <2>4. WalkInv' /\ FoundRight'
    BY <1>1, <1>2, <2>1, <2>2 DEF WalkInv, FoundRight, CacheTypes
  <2>. QED
    BY <1>2, <2>3, <2>4, WalkingKeeps DEF IgnoreInv
<1>. QED
  BY <1>3, <1>4

LEMMA AskingKeeps == IgnoreInv /\ (CheckIgnore \/ CheckIgnoreFails) => IgnoreInv'
<1>. SUFFICES ASSUME IgnoreInv, CheckIgnore \/ CheckIgnoreFails PROVE IgnoreInv'
  OBVIOUS
<1>1. CacheTypes /\ WalkInv
  BY DEF IgnoreInv
<1>2. UNCHANGED <<rules, changed, unseen, clock, cache, queue, answer>> /\ answer' \in BOOLEAN
  BY <1>1 DEF CheckIgnore, CheckIgnoreFails, CacheTypes
<1>3. WalkInv' /\ FoundRight'
  <2>1. CASE CheckIgnoreFails
    BY <1>2, <2>1, ReturnKeeps DEF CheckIgnoreFails
  <2>2. CASE CheckIgnore
    <3>1. /\ pc = "git" /\ pc' = "store" /\ found' = query \cap rules
          /\ UNCHANGED <<path, asked, query>>
      BY <2>2 DEF CheckIgnore
    <3>. QED
      BY <1>1, <1>2, <3>1 DEF WalkInv, FoundRight
  <2>. QED
    BY <2>1, <2>2
<1>. QED
  BY <1>2, <1>3, WalkingKeeps DEF IgnoreInv

\* What one question to git is about fits in the cache.
LEMMA QueryFits ==
    ASSUME IgnoreInv, pc = "store"
    PROVE  /\ IsFiniteSet(query) /\ Cardinality(query) \in Nat /\ Cardinality(query) <= MaxEntries
           /\ query \subseteq Files \cup Dirs
<1>1. path \in Files /\ query \subseteq Above[path] \cup {path} /\ Above[path] \subseteq Dirs
  BY CacheIs DEF IgnoreInv, WalkInv
<1>2. IsFiniteSet(Dirs \cup {path}) /\ Cardinality(Dirs \cup {path}) <= Cardinality(Dirs) + 1
  BY CacheIs, FS_AddElement
<1>3. query \subseteq Dirs \cup {path}
  BY <1>1
<1>4. /\ IsFiniteSet(query) /\ Cardinality(query) <= Cardinality(Dirs \cup {path})
      /\ Cardinality(query) \in Nat /\ Cardinality(Dirs \cup {path}) \in Nat
  BY <1>2, <1>3, FS_Subset, FS_CardinalityType
<1>. QED
  BY <1>1, <1>2, <1>4, CacheIs

LEMMA StoringKeeps == IgnoreInv /\ Store => IgnoreInv'
<1>. SUFFICES ASSUME IgnoreInv, Store PROVE IgnoreInv'
  OBVIOUS
<1>1. CacheTypes /\ KeptTypes /\ WalkInv /\ KeptRight /\ FoundRight /\ pc = "store"
  BY DEF IgnoreInv, Store
<1>2. UNCHANGED <<rules, changed, unseen, clock, queue>> /\ Return /\ answer' \in BOOLEAN
  BY DEF Store, Decide
<1>3. /\ IsFiniteSet(query) /\ Cardinality(query) \in Nat /\ Cardinality(query) <= MaxEntries
      /\ query \subseteq Files \cup Dirs
  BY <1>1, QueryFits
<1>. DEFINE full == Cardinality(DOMAIN cache) + Cardinality(query) > MaxEntries
            before == IF full THEN [q \in {} |-> 0] ELSE cache
            known == DOMAIN before
<1>4. cache' = Extended(before, asked)
  BY DEF Store
<1>5. /\ known \subseteq DOMAIN cache /\ \A q \in known : before[q] = cache[q]
      /\ IsFiniteSet(known) /\ Cardinality(known) \in Nat
      /\ Cardinality(known) + Cardinality(query) <= MaxEntries
  <2>1. CASE full
    <3>1. known = {}
      BY <2>1
    <3>2. Cardinality({}) + Cardinality(query) <= MaxEntries
      BY <1>3, EmptyIs, CacheIs
    <3>. HIDE DEF known, before
    <3>. QED
      BY <3>1, <3>2, EmptyIs
  <2>2. CASE ~full
    <3>1. before = cache /\ IsFiniteSet(DOMAIN cache)
      BY <1>1, <2>2 DEF KeptTypes
    <3>2. Cardinality(DOMAIN cache) \in Nat
      BY <3>1, FS_CardinalityType
    <3>3. Cardinality(DOMAIN cache) + Cardinality(query) <= MaxEntries
      BY <1>3, <2>2, <3>2, CacheIs
    <3>4. known = DOMAIN cache
      BY <3>1
    <3>. HIDE DEF known, before
    <3>. QED
      BY <3>1, <3>2, <3>3, <3>4
  <2>. QED
    BY <2>1, <2>2
<1>. HIDE DEF before
<1>6. /\ DOMAIN cache' = known \cup query
      /\ \A q \in query : cache'[q] = [ignored |-> q \in found, at |-> asked]
      /\ \A q \in known \ query : cache'[q] = cache[q]
      /\ cache' = [q \in known \cup query |-> cache'[q]]
  BY <1>4, <1>5 DEF Extended
<1>. HIDE DEF known
<1>7. \A q \in known \cup query : cache'[q] \in Answer /\ cache'[q].at <= clock
  <2>1. ASSUME NEW q \in query PROVE cache'[q] \in Answer /\ cache'[q].at <= clock
    <3>1. asked \in Nat /\ asked <= clock /\ (q \in found) \in BOOLEAN
      BY <1>1 DEF WalkInv
    <3>. DEFINE said == q \in found
    <3>2. cache'[q] = [ignored |-> said, at |-> asked] /\ said \in BOOLEAN
      BY <1>6, <3>1
    <3>. HIDE DEF said
    <3>. QED
      BY <3>1, <3>2 DEF Answer
  <2>2. ASSUME NEW q \in known \ query PROVE cache'[q] \in Answer /\ cache'[q].at <= clock
    BY <1>1, <1>5, <1>6 DEF KeptTypes
  <2>. QED
    BY <2>1, <2>2
<1>8. IsFiniteSet(known \cup query) /\ Cardinality(known \cup query) <= MaxEntries
  <2>1. /\ IsFiniteSet(known \cup query) /\ IsFiniteSet(known \cap query)
        /\ Cardinality(known \cup query)
              = Cardinality(known) + Cardinality(query) - Cardinality(known \cap query)
    BY <1>3, <1>5, FS_Union, FS_Intersection
  <2>2. Cardinality(known \cap query) \in Nat
    BY <2>1, FS_CardinalityType
  <2>. QED
    BY <1>3, <1>5, <2>1, <2>2, CacheIs
<1>9. KeptTypes'
  <2>1. cache' \in [DOMAIN cache' -> Answer]
    BY <1>6, <1>7
  <2>2. DOMAIN cache' \subseteq Files \cup Dirs
    BY <1>1, <1>3, <1>5, <1>6 DEF KeptTypes
  <2>3. \A q \in DOMAIN cache' : cache'[q].at <= clock'
    BY <1>2, <1>6, <1>7
  <2>. QED
    BY <1>6, <1>8, <2>1, <2>2, <2>3 DEF KeptTypes
<1>10. KeptRight'
  <2>1. Pending' = Pending
    BY <1>2 DEF Pending
  <2>2. ASSUME NEW q \in DOMAIN cache', cache'[q].at > changed \/ (~unseen /\ ~Pending)
        PROVE  cache'[q].ignored = (q \in rules)
    <3>1. CASE q \in query
      <4>1. cache'[q].at = asked /\ cache'[q].ignored = (q \in found)
        BY <1>6, <3>1
      <4>2. found = query \cap rules
        BY <1>1, <2>2, <4>1 DEF FoundRight
      <4>. QED
        BY <3>1, <4>1, <4>2
    <3>2. CASE q \notin query
      <4>1. q \in known /\ q \in DOMAIN cache /\ cache'[q] = cache[q]
        BY <1>5, <1>6, <3>2
      <4>. QED
        BY <1>1, <2>2, <4>1 DEF KeptRight
    <3>. QED
      BY <3>1, <3>2
  <2>. QED
    BY <1>2, <2>1, <2>2 DEF KeptRight
<1>11. CacheTypes'
  BY <1>1, <1>2 DEF CacheTypes
<1>12. WalkInv' /\ FoundRight'
  BY <1>2, ReturnKeeps
<1>. QED
  BY <1>9, <1>10, <1>11, <1>12 DEF IgnoreInv

\* The user edits a file, the rules or time passes.
LEMMA UserKeeps ==
    IgnoreInv /\ (EditGitignore \/ ChangeOtherRules \/ Tick \/ \E f \in Files : EditFile(f))
        => IgnoreInv'
<1>. SUFFICES ASSUME IgnoreInv PROVE
        EditGitignore \/ ChangeOtherRules \/ Tick \/ (\E f \in Files : EditFile(f)) => IgnoreInv'
  OBVIOUS
<1>1. CacheTypes /\ KeptTypes /\ WalkInv /\ KeptRight /\ FoundRight
  BY DEF IgnoreInv
<1>2. ASSUME NEW f \in Files, Len(queue) < MaxEvents, Raise(f)
      PROVE  /\ queue' \in Seq(Files) /\ Len(queue') <= MaxEvents
             /\ Pending' = (Pending \/ f = ".gitignore")
  <2>1. /\ queue' = Append(queue, f) /\ queue' \in Seq(Files) /\ Len(queue') = Len(queue) + 1
        /\ Range(queue') = Range(queue) \cup {f} /\ Len(queue) \in Nat
    BY <1>1, <1>2, Waiting DEF CacheTypes, Raise
  <2>. QED
    BY <1>2, <2>1, CacheIs DEF Pending
<1>3. ASSUME rules' \in Rules, changed' = clock, unseen' \/ Pending', unseen' \in BOOLEAN,
             queue' \in Seq(Files), Len(queue') <= MaxEvents, UNCHANGED <<clock, cache, pc, walk>>
      PROVE  IgnoreInv'
  <2>1. CacheTypes'
    BY <1>1, <1>3 DEF CacheTypes, walk
  <2>2. KeptTypes' /\ WalkInv'
    BY <1>1, <1>3 DEF KeptTypes, WalkInv, walk
  <2>3. KeptRight'
    <3>1. \A q \in DOMAIN cache : cache[q].at \in Nat /\ cache[q].at <= clock
      BY <1>1 DEF KeptTypes, Answer
    <3>. QED
      BY <1>1, <1>3, <3>1 DEF KeptRight, CacheTypes
  <2>4. FoundRight'
    BY <1>1, <1>3 DEF FoundRight, CacheTypes, WalkInv, walk
  <2>. QED
    BY <2>1, <2>2, <2>3, <2>4 DEF IgnoreInv
<1>4. ASSUME EditGitignore PROVE IgnoreInv'
  <2>1. /\ rules' \in Rules /\ changed' = clock /\ Raise(".gitignore")
        /\ unseen' = (unseen \/ Len(queue) = MaxEvents)
        /\ UNCHANGED <<clock, cache, pc, walk>>
    BY <1>4 DEF EditGitignore
  <2>2. unseen' \in BOOLEAN
    BY <1>1, <2>1 DEF CacheTypes
  <2>3. CASE Len(queue) < MaxEvents
    <3>1. queue' \in Seq(Files) /\ Len(queue') <= MaxEvents /\ Pending'
      BY <1>2, <2>1, <2>3, CacheIs
    <3>. QED
      BY <1>3, <2>1, <2>2, <3>1
  <2>4. CASE ~(Len(queue) < MaxEvents)
    <3>1. Len(queue) = MaxEvents /\ queue' = queue
      BY <1>1, <2>1, <2>4, CacheIs DEF CacheTypes, Raise
    <3>2. queue' \in Seq(Files) /\ Len(queue') <= MaxEvents
      BY <1>1, <3>1 DEF CacheTypes
    <3>3. unseen'
      BY <2>1, <3>1
    <3>. QED
      BY <1>3, <2>1, <2>2, <3>2, <3>3
  <2>. QED
    BY <2>3, <2>4
<1>5. ASSUME ChangeOtherRules PROVE IgnoreInv'
  <2>1. /\ rules' \in Rules /\ changed' = clock /\ unseen' = TRUE /\ queue' = queue
        /\ UNCHANGED <<clock, cache, pc, walk>>
    BY <1>5 DEF ChangeOtherRules
  <2>2. queue' \in Seq(Files) /\ Len(queue') <= MaxEvents
    BY <1>1, <2>1 DEF CacheTypes
  <2>. QED
    BY <1>3, <2>1, <2>2
<1>6. ASSUME Tick PROVE IgnoreInv'
  <2>1. clock' = clock + 1 /\ UNCHANGED <<rules, changed, unseen, cache, queue, pc, walk>>
    BY <1>6 DEF Tick
  <2>2. CacheTypes'
    BY <1>1, <2>1 DEF CacheTypes, walk
  <2>3. KeptTypes'
    <3>1. \A q \in DOMAIN cache : cache[q].at \in Nat /\ cache[q].at <= clock
      BY <1>1 DEF KeptTypes, Answer
    <3>. QED
      BY <1>1, <2>1, <3>1 DEF KeptTypes, CacheTypes
  <2>4. WalkInv'
    BY <1>1, <2>1 DEF WalkInv, CacheTypes, walk
  <2>5. KeptRight' /\ FoundRight'
    BY <1>1, <2>1 DEF KeptRight, FoundRight, Pending, walk
  <2>. QED
    BY <2>2, <2>3, <2>4, <2>5 DEF IgnoreInv
<1>7. ASSUME NEW f \in Files, EditFile(f) PROVE IgnoreInv'
  <2>1. /\ f # ".gitignore" /\ Len(queue) < MaxEvents /\ Raise(f)
        /\ UNCHANGED <<rules, changed, unseen, clock, cache, pc, walk>>
    BY <1>7 DEF EditFile
  <2>2. queue' \in Seq(Files) /\ Len(queue') <= MaxEvents /\ Pending' = Pending
    BY <1>2, <2>1 DEF Pending
  <2>3. CacheTypes'
    BY <1>1, <2>1, <2>2 DEF CacheTypes, walk
  <2>4. KeptTypes' /\ WalkInv'
    BY <1>1, <2>1 DEF KeptTypes, WalkInv, walk
  <2>5. KeptRight' /\ FoundRight'
    BY <1>1, <2>1, <2>2 DEF KeptRight, FoundRight, walk
  <2>. QED
    BY <2>3, <2>4, <2>5 DEF IgnoreInv
<1>. QED
  BY <1>4, <1>5, <1>6, <1>7

LEMMA IgnoreNext == IgnoreInv /\ [CacheNext]_cacheVars => IgnoreInv'
<1>1. ASSUME IgnoreInv, CacheNext PROVE IgnoreInv'
  BY <1>1, TakingKeeps, LookingKeeps, AskingKeeps, StoringKeeps, UserKeeps DEF CacheNext
<1>2. ASSUME IgnoreInv, UNCHANGED cacheVars PROVE IgnoreInv'
  BY <1>2 DEF IgnoreInv, cacheVars, CacheTypes, KeptTypes, WalkInv, KeptRight, FoundRight, Pending
<1>. QED
  BY <1>1, <1>2

LEMMA IgnoreSafe == IgnoreInv => CacheInv
<1>. SUFFICES ASSUME IgnoreInv PROVE CacheInv
  OBVIOUS
<1>1. CacheTypes /\ KeptTypes /\ WalkInv /\ KeptRight
  BY DEF IgnoreInv
<1>2. CacheTypeOK
  BY <1>1 DEF CacheTypes, KeptTypes, WalkInv, CacheTypeOK
<1>3. NoAnswerOutlivesGitignore
  BY <1>1 DEF KeptRight, NoAnswerOutlivesGitignore
<1>. QED
  BY <1>2, <1>3 DEF CacheInv

\* The cache of git's answers stays within its limit however deep the
\* directories are, and once the event of a changed .gitignore is handled it
\* holds nothing decided by the old rules, even by a check that was under way
\* (src/common/ignore.go, isFileIgnoredByGit, ShouldIgnoreFile).
THEOREM CacheHolds == CacheSpec => []CacheInv
BY IgnoreInit, IgnoreNext, IgnoreSafe, PTL DEF CacheSpec

\* What the rules say of a file follows from what they say of any part of its path.
LEMMA PathDecides ==
    ASSUME IgnoreInv, NEW f \in Files, NEW q \in Above[f] \cup {f}, q \in rules
    PROVE  f \in rules
BY DEF IgnoreInv, CacheTypes, Rules

LEMMA Right ==
    ASSUME IgnoreInv, LookUp \/ Store, pc' = "wait",
           ~(clock - changed < TTL), ~(pc = "store" /\ changed >= asked)
    PROVE  answer' = (path \in rules)
<1>1. CacheTypes /\ KeptTypes /\ WalkInv /\ KeptRight /\ FoundRight
  BY DEF IgnoreInv
<1>2. CASE Store
  <2>1. pc = "store" /\ answer' = (found # {})
    BY <1>2 DEF Store, Decide
  <2>2. found = query \cap rules /\ path \in query /\ query \subseteq Above[path] \cup {path}
        /\ path \in Files
    BY <1>1, <2>1 DEF FoundRight, WalkInv, CacheTypes
  <2>3. found # {} <=> path \in rules
    BY <2>2, PathDecides
  <2>. QED
    BY <2>1, <2>3
<1>3. CASE LookUp
  <2>. DEFINE known == {q \in Above[path] \cup {path} : Fresh(q)}
              inIgnored == \E d \in known \cap Above[path] : cache[d].ignored
  <2>1. pc = "look" /\ path \in Files
    BY <1>1, <1>3 DEF LookUp, WalkInv
  <2>2. (inIgnored \/ path \in known) /\ answer' = (inIgnored \/ cache[path].ignored)
    BY <1>3 DEF LookUp, Decide
  <2>3. \A q \in known : q \in DOMAIN cache /\ cache[q].ignored = (q \in rules)
    <3>1. ASSUME NEW q \in known PROVE q \in DOMAIN cache /\ cache[q].ignored = (q \in rules)
      <4>1. q \in DOMAIN cache /\ clock - cache[q].at < TTL
        BY DEF Fresh
      <4>2. cache[q].at \in Nat
        BY <1>1, <4>1 DEF KeptTypes, Answer
      <4>3. cache[q].at > changed
        BY <1>1, <4>1, <4>2, CacheIs DEF CacheTypes
      <4>. QED
        BY <1>1, <4>1, <4>3 DEF KeptRight
    <3>. QED
      BY <3>1
  <2>4. CASE inIgnored
    <3>1. path \in rules
      BY <2>1, <2>3, <2>4, PathDecides
    <3>. QED
      BY <2>2, <2>4, <3>1
  <2>5. CASE ~inIgnored
    <3>1. cache[path].ignored = (path \in rules)
      BY <2>2, <2>3, <2>5
    <3>2. answer' = (inIgnored \/ (path \in rules))
      BY <2>2, <3>1
    <3>. HIDE DEF inIgnored
    <3>. QED
      BY <2>5, <3>2
  <2>. QED
    BY <2>4, <2>5
<1>. QED
  BY <1>2, <1>3

\* A decision that the present rules would not make is made at most TTL after
\* they changed, or while git was being asked, for any files and any changes of
\* the rules, told or not (src/common/ignore.go, isFileIgnoredByGit).
THEOREM WrongOnlyBriefly == CacheSpec => WrongNoLongerThanTTL
<1>1. IgnoreInv /\ [CacheNext]_cacheVars =>
        [(LookUp \/ Store) /\ pc' = "wait" /\ answer' # (path \in rules)
            => clock - changed < TTL \/ (pc = "store" /\ changed >= asked)]_cacheVars
  BY Right
<1>. QED
  BY <1>1, IgnoreInit, IgnoreNext, PTL DEF CacheSpec, WrongNoLongerThanTTL

-----------------------------------------------------------------------------
(* The log files. *)

Line == [number : Nat \ {0}, size : Nat \ {0}]
File == [node : Nat, lines : Seq(Line)]

Backups == 0..(MaxFiles - 1)

\* s is what all has after its first a, up to b.
Part(s, all, a, b) ==
    /\ s \in Seq(Line) /\ Len(s) = b - a
    /\ \A k \in 1..(b - a) : s[k] = all[a + k]

LinesFit ==
    /\ logged \in Seq(Line) /\ lines \in Nat
    /\ \A i, j \in 1..Len(logged) : i < j => logged[i].number < logged[j].number
    /\ \A i \in 1..Len(logged) : logged[i].number <= lines

\* No rename fails.
Gapless == "rename" \notin logPlan.faults

\* A rotation is on: its line has still to be written.
RotationFits ==
    /\ step \in 0..MaxFiles
    /\ step = MaxFiles => line = NoLine
    /\ step # MaxFiles => /\ line \in Line /\ line.number <= lines
                          /\ \A i \in 1..Len(logged) : logged[i].number < line.number
    /\ step \in 1..(MaxFiles - 1) => Exists(0)
    /\ Gapless /\ step \in 0..(MaxFiles - 2) /\ Exists(0) => ~Exists(step + 1)

FilesFit ==
    /\ files \in [Backups -> File] /\ nodes \in Nat
    /\ \A i \in Backups : files[i].node <= nodes /\ (files[i].node = 0 <=> files[i].lines = <<>>)
    /\ \A i, j \in Backups : Exists(i) /\ files[i].node = files[j].node => i = j
    /\ \A i \in Backups : Bytes(files[i].lines) <= MaxBytes \/ Len(files[i].lines) <= 1

\* File i holds what was logged after the first a[i] lines, up to b[i].
LaidOut(g, all, gapless, a, b) ==
    /\ \A i \in Backups : a[i] <= b[i] /\ b[i] <= Len(all) /\ Part(g[i].lines, all, a[i], b[i])
    /\ \A i, j \in Backups : j < i => b[i] <= a[j]
    /\ g[0].node # 0 => b[0] = Len(all)
    /\ g[0].node = 0 => b[1] = Len(all) /\ (all # <<>> => g[1].node # 0)
    /\ gapless => b[0] = Len(all) /\ \A i \in 0..(MaxFiles - 2) : a[i] = b[i + 1]

Layout(g, all, gapless) == \E a, b \in [Backups -> Nat] : LaidOut(g, all, gapless, a, b)

SomeLayout == Layout(files, logged, Gapless)

FollowerFits ==
    /\ follower \in {"start", "first", "idle", "read"}
    /\ prev \in 0..nodes /\ offset \in Nat /\ from \in 0..Len(logged)

\* Of a log file s that ends what was logged, all: what was logged before it.
Base(s, all) == Len(all) - Len(s)

\* A follower that was started after f lines has printed up to p, and its
\* offset o in the file is there.
At(s, all, out, f, o, p) ==
    /\ f <= p /\ Base(s, all) <= p /\ p <= Len(all)
    /\ Part(out, all, f, p)
    /\ o = Start(s, p - Base(s, all) + 1)

Placed(s, all, out, f, o) == \E p \in Nat : At(s, all, out, f, o, p)

\* It has printed all that was logged before the file.
Before(s, all, out, f) == f <= Base(s, all) /\ Part(out, all, f, Base(s, all))

SomePlace == Placed(files[0].lines, logged, printed, from, offset)

IdleIs ==
    /\ prev # 0
    /\ Exists(0) /\ prev = files[0].node =>
          SomePlace /\ (step # MaxFiles => offset = Bytes(files[0].lines))
    /\ Exists(0) /\ prev # files[0].node =>
          step = MaxFiles /\ Before(files[0].lines, logged, printed, from)
    /\ ~Exists(0) => Part(printed, logged, from, Len(logged))

\* What a follower that no rotation overtakes has printed.
FollowIs ==
    /\ follower = "start" => printed = <<>>
    /\ follower \in {"first", "read"} => step = MaxFiles /\ Exists(0) /\ SomePlace
    /\ follower = "read" => prev = files[0].node
    /\ follower = "idle" => IdleIs

LogFilesIInv ==
    /\ LinesFit /\ RotationFits /\ FilesFit /\ SomeLayout /\ FollowerFits
    /\ ~logPlan.racy => FollowIs

-----------------------------------------------------------------------------
(* Lengths of lines. *)

LEMMA Limits == MaxFiles \in Nat /\ MaxFiles >= 2 /\ MaxBytes \in Nat /\ MaxBytes > 0
BY LimitsAssumption

LEMMA LineIs ==
    /\ \A l \in Line : l.number \in Nat \ {0} /\ l.size \in Nat /\ l.size > 0
    /\ \A n \in Nat \ {0}, z \in Nat \ {0} : [number |-> n, size |-> z] \in Line
    /\ NoLine \notin Line
BY DEF Line, NoLine

LEMMA LinesOf ==
    ASSUME NEW s \in Seq(Line)
    PROVE  /\ Len(s) \in Nat /\ DOMAIN s = 1..Len(s)
           /\ \A i \in 1..Len(s) : /\ s[i] \in Line /\ s[i].size \in Nat /\ s[i].size > 0
                                   /\ s[i].number \in Nat \ {0}
<1>1. \A i \in 1..Len(s) : s[i] \in Line
  OBVIOUS
<1>. QED BY <1>1, LineIs

\* Where the lines of a sequence start.
Starts(s) ==
    /\ Start(s, 1) = 0
    /\ \A i \in 1..(Len(s) + 1) : Start(s, i) \in Nat
    /\ \A i \in 1..Len(s) : Start(s, i + 1) = Start(s, i) + s[i].size

LEMMA StartUnfolds ==
    ASSUME NEW s \in Seq(Line)
    PROVE  Starts(s)
<1>. DEFINE n == Len(s)
            F(f) == [k \in 0..n |-> IF k = 0 THEN 0 ELSE f[k - 1] + s[k].size]
            end == CHOOSE f : f = F(f)
            st == [i \in 1..n |-> [v \in Nat |-> v + s[i].size]]
<1>0. n \in Nat /\ 0 \in Nat
  OBVIOUS
<1>1. \A i \in 1..n : s[i].size \in Nat
  BY LinesOf
<1>2. st \in [1..n -> [Nat -> Nat]]
  BY <1>1
<1>3. Iterates(n, Nat, 0, st)
  <2>. HIDE DEF st, n
  <2>. QED BY <1>0, <1>2, Iterated
<1>4. PICK f \in [0..n -> Nat] : f[0] = 0 /\ \A i \in 1..n : f[i] = st[i][f[i - 1]]
  BY <1>3 DEF Iterates
<1>5. ASSUME NEW i \in 1..n PROVE f[i] = f[i - 1] + s[i].size
  <2>1. f[i - 1] \in Nat
    OBVIOUS
  <2>2. st[i] = [v \in Nat |-> v + s[i].size]
    OBVIOUS
  <2>. HIDE DEF st
  <2>. QED BY <1>4, <2>1, <2>2
<1>6. ASSUME NEW g PROVE \A i \in 1..n : F(g)[i] = g[i - 1] + s[i].size
  OBVIOUS
<1>7. ASSUME NEW g PROVE F(g)[0] = 0 /\ DOMAIN F(g) = 0..n /\ F(g) = [i \in 0..n |-> F(g)[i]]
  OBVIOUS
<1>. HIDE DEF F, st
<1>8. f = F(f)
  <2>1. f = [i \in 0..n |-> f[i]]
    OBVIOUS
  <2>2. ASSUME NEW i \in 0..n PROVE f[i] = F(f)[i]
    <3>1. CASE i = 0
      BY <1>4, <1>7, <3>1
    <3>2. CASE i \in 1..n
      BY <1>5, <1>6, <3>2
    <3>. QED BY <1>0, <3>1, <3>2
  <2>3. F(f) = [i \in 0..n |-> F(f)[i]]
    BY <1>7
  <2>. QED BY <2>1, <2>2, <2>3
<1>9. end = F(end)
  BY <1>8
<1>10. \A i : Start(s, i) = end[i - 1]
  BY DEF Start, end, F
<1>. HIDE DEF end
<1>11. end[0] = 0 /\ \A i \in 1..n : end[i] = end[i - 1] + s[i].size
  BY <1>6, <1>7, <1>9
<1>12. \A i \in 0..n : end[i] \in Nat
  <2>. DEFINE S == {i \in 0..n : end[i] \in Nat}
  <2>1. 0 \in S
    BY <1>0, <1>11
  <2>2. \A i \in 1..n : i - 1 \in S => i \in S
    <3>. SUFFICES ASSUME NEW i \in 1..n, end[i - 1] \in Nat PROVE end[i] \in Nat
      BY <1>0
    <3>1. s[i].size \in Nat /\ end[i] = end[i - 1] + s[i].size
      BY <1>1, <1>11
    <3>. DEFINE x == end[i - 1]
                y == s[i].size
                z == end[i]
    <3>2. x \in Nat /\ y \in Nat /\ z = x + y
      BY <3>1
    <3>. HIDE DEF x, y, z
    <3>3. z \in Nat
      BY <3>2
    <3>. QED BY <3>3 DEF z
  <2>. HIDE DEF S
  <2>3. \A i \in 0..n : i \in S
    BY <1>0, <2>1, <2>2, Climb
  <2>. QED BY <2>3 DEF S
<1>13. /\ 1 - 1 = 0
       /\ \A i \in 1..(n + 1) : i - 1 \in 0..n
       /\ \A i \in 1..n : (i + 1) - 1 = i
  BY <1>0
<1>14. Start(s, 1) = 0
  BY <1>10, <1>11, <1>13
<1>15. \A i \in 1..(n + 1) : Start(s, i) \in Nat
  BY <1>10, <1>12, <1>13
<1>16. \A i \in 1..n : Start(s, i + 1) = Start(s, i) + s[i].size
  BY <1>10, <1>11, <1>13
<1>. QED
  BY <1>14, <1>15, <1>16 DEF Starts, n

\* A line starts after the ones before it.
LEMMA StartGrows ==
    ASSUME NEW s \in Seq(Line), NEW i \in 1..(Len(s) + 1), NEW j \in 1..(Len(s) + 1), i < j
    PROVE  Start(s, i) < Start(s, j)
<1>. DEFINE n == Len(s)
            S == {k \in 0..n : k + 1 > i => Start(s, i) < Start(s, k + 1)}
<1>1. n \in Nat /\ \A k \in 1..n : s[k].size \in Nat /\ s[k].size > 0
  BY LinesOf
<1>2. /\ \A k \in 1..(n + 1) : Start(s, k) \in Nat
      /\ \A k \in 1..n : Start(s, k + 1) = Start(s, k) + s[k].size
  BY StartUnfolds DEF Starts
<1>3. 0 \in S
  BY <1>1
<1>4. \A k \in 1..n : k - 1 \in S => k \in S
  <2>. SUFFICES ASSUME NEW k \in 1..n, k - 1 \in S, k + 1 > i PROVE Start(s, i) < Start(s, k + 1)
    BY <1>1
  <2>1. (k - 1) + 1 = k /\ k \in 1..(n + 1) /\ (k > i \/ k = i)
    BY <1>1
  <2>2. k > i => Start(s, i) < Start(s, k)
    BY <2>1
  <2>. HIDE DEF S
  <2>3. Start(s, k) < Start(s, k + 1) /\ Start(s, k) \in Nat /\ Start(s, i) \in Nat /\ Start(s, k + 1) \in Nat
    <3>1. Start(s, k + 1) = Start(s, k) + s[k].size /\ s[k].size \in Nat /\ s[k].size > 0
      BY <1>1, <1>2
    <3>2. Start(s, k) \in Nat /\ Start(s, i) \in Nat
      BY <1>2, <2>1
    <3>. QED BY <3>1, <3>2
  <2>. QED BY <2>1, <2>2, <2>3
<1>. HIDE DEF S
<1>5. \A k \in 0..n : k \in S
  BY <1>1, <1>3, <1>4, Climb
<1>6. j - 1 \in 0..n /\ (j - 1) + 1 = j
  BY <1>1
<1>. QED BY <1>5, <1>6 DEF S

\* Where a line starts does not depend on what follows.
LEMMA StartPrefix ==
    ASSUME NEW s \in Seq(Line), NEW t \in Seq(Line), Len(s) <= Len(t),
           \A k \in 1..Len(s) : t[k] = s[k]
    PROVE  \A i \in 1..(Len(s) + 1) : Start(t, i) = Start(s, i)
<1>. DEFINE n == Len(s)
            S == {k \in 0..n : Start(t, k + 1) = Start(s, k + 1)}
<1>1. n \in Nat /\ Len(t) \in Nat
  OBVIOUS
<1>2. /\ Start(s, 1) = 0 /\ Start(t, 1) = 0
      /\ \A k \in 1..n : Start(s, k + 1) = Start(s, k) + s[k].size
      /\ \A k \in 1..Len(t) : Start(t, k + 1) = Start(t, k) + t[k].size
  BY StartUnfolds DEF Starts
<1>3. 0 \in S
  BY <1>1, <1>2
<1>4. \A k \in 1..n : k - 1 \in S => k \in S
  <2>. SUFFICES ASSUME NEW k \in 1..n, k - 1 \in S PROVE Start(t, k + 1) = Start(s, k + 1)
    BY <1>1
  <2>1. (k - 1) + 1 = k /\ k \in 1..Len(t)
    BY <1>1
  <2>2. Start(t, k) = Start(s, k) /\ t[k] = s[k]
    BY <2>1
  <2>. QED BY <1>2, <2>1, <2>2
<1>. HIDE DEF S
<1>5. \A k \in 0..n : k \in S
  BY <1>1, <1>3, <1>4, Climb
<1>6. \A i \in 1..(n + 1) : i - 1 \in 0..n /\ (i - 1) + 1 = i
  BY <1>1
<1>. QED BY <1>5, <1>6 DEF S

LEMMA AppendLine ==
    ASSUME NEW s \in Seq(Line), NEW l \in Line
    PROVE  /\ Append(s, l) \in Seq(Line) /\ Len(Append(s, l)) = Len(s) + 1 /\ Len(s) \in Nat
           /\ Append(s, l)[Len(s) + 1] = l /\ \A k \in 1..Len(s) : Append(s, l)[k] = s[k]
OBVIOUS

LEMMA BytesFacts ==
    ASSUME NEW s \in Seq(Line)
    PROVE  /\ Bytes(s) \in Nat /\ (s = <<>> => Bytes(s) = 0) /\ (s # <<>> => Bytes(s) > 0)
           /\ Bytes(s) = Start(s, Len(s) + 1)
           /\ \A i \in 1..(Len(s) + 1) : Start(s, i) = Bytes(s) => i = Len(s) + 1
<1>. DEFINE n == Len(s)
<1>1. n \in Nat /\ (s = <<>> <=> n = 0)
  OBVIOUS
<1>2. Start(s, 1) = 0 /\ \A i \in 1..(n + 1) : Start(s, i) \in Nat
  BY StartUnfolds DEF Starts
<1>3. Bytes(s) = Start(s, n + 1) /\ n + 1 \in 1..(n + 1) /\ 1 \in 1..(n + 1)
  BY <1>1 DEF Bytes
<1>4. \A i \in 1..(n + 1) : i < n + 1 => Start(s, i) < Start(s, n + 1)
  BY <1>3, StartGrows
<1>. HIDE DEF n
<1>5. \A i \in 1..(n + 1) : Start(s, i) = Bytes(s) => i = n + 1
  <2>. SUFFICES ASSUME NEW i \in 1..(n + 1), Start(s, i) = Bytes(s) PROVE i = n + 1
    OBVIOUS
  <2>1. ~(i < n + 1)
    BY <1>2, <1>3, <1>4
  <2>. QED BY <1>1, <2>1
<1>6. s # <<>> => Bytes(s) > 0
  <2>1. s # <<>> => 1 < n + 1
    BY <1>1
  <2>. QED BY <1>2, <1>3, <1>4, <2>1
<1>7. s = <<>> => Bytes(s) = 0
  BY <1>1, <1>2, <1>3
<1>. QED BY <1>2, <1>3, <1>5, <1>6, <1>7 DEF n

LEMMA BytesAppend ==
    ASSUME NEW s \in Seq(Line), NEW l \in Line
    PROVE  /\ Bytes(Append(s, l)) = Bytes(s) + l.size
           /\ \A i \in 1..(Len(s) + 1) : Start(Append(s, l), i) = Start(s, i)
<1>. DEFINE t == Append(s, l)
            n == Len(s)
<1>1. t \in Seq(Line) /\ Len(t) = n + 1 /\ n \in Nat /\ t[n + 1] = l /\ \A k \in 1..n : t[k] = s[k]
  BY AppendLine
<1>. HIDE DEF t
<1>2. n <= Len(t) /\ n + 1 \in 1..Len(t) /\ n + 1 \in 1..(n + 1)
  BY <1>1
<1>3. \A i \in 1..(n + 1) : Start(t, i) = Start(s, i)
  BY <1>1, <1>2, StartPrefix
<1>4. Start(t, n + 1 + 1) = Start(t, n + 1) + t[n + 1].size
  BY <1>1, <1>2, StartUnfolds DEF Starts
<1>5. Bytes(t) = Start(t, n + 1 + 1) /\ Bytes(s) = Start(s, n + 1)
  BY <1>1 DEF Bytes
<1>. QED BY <1>1, <1>2, <1>3, <1>4, <1>5 DEF t

\* Reading from where a line starts gives it and what follows.
LEMMA FromStart ==
    ASSUME NEW s \in Seq(Line), NEW i \in 1..(Len(s) + 1)
    PROVE  FromByte(s, Start(s, i)) = SubSeq(s, i, Len(s))
<1>. DEFINE n == Len(s)
            b == Start(s, i)
            S == {k \in 1..(n + 1) : k > n \/ Start(s, k) >= b}
<1>1. n \in Nat /\ \A k \in 1..(n + 1) : Start(s, k) \in Nat
  BY StartUnfolds DEF Starts
<1>2. i \in S
  BY <1>1
<1>3. \A k \in S : ~(k < i)
  <2>. SUFFICES ASSUME NEW k \in S, k < i PROVE FALSE
    OBVIOUS
  <2>1. k \in 1..(n + 1) /\ k <= n /\ Start(s, k) >= b
    BY <1>1
  <2>2. Start(s, k) < b
    BY <2>1, StartGrows
  <2>. QED BY <1>1, <2>1, <2>2
<1>4. \A k \in S : i <= k /\ k \in Nat
  <2>1. \A k \in S : k \in Nat
    BY <1>1
  <2>. QED BY <1>3, <2>1
<1>5. FromByte(s, b) = SubSeq(s, Min(S), n)
  BY DEF FromByte
<1>. HIDE DEF S, b
<1>6. Min(S) = i
  <2>1. \A k \in S : (\A j \in S : k <= j) => k = i
    BY <1>2, <1>4
  <2>2. Min(S) = CHOOSE k \in S : \A j \in S : k <= j
    BY DEF Min
  <2>3. (CHOOSE k \in S : \A j \in S : k <= j) \in S /\ \A j \in S : (CHOOSE k \in S : \A m \in S : k <= m) <= j
    BY <1>2, <1>4
  <2>. QED BY <2>1, <2>2, <2>3
<1>. QED BY <1>5, <1>6 DEF b, n

-----------------------------------------------------------------------------
(* Parts of what was logged. *)

LEMMA SameLines ==
    ASSUME NEW s \in Seq(Line), NEW t \in Seq(Line), Len(s) = Len(t), \A k \in 1..Len(s) : s[k] = t[k]
    PROVE  s = t
OBVIOUS

LEMMA SeqJoined ==
    ASSUME NEW a \in Seq(Line), NEW c \in Seq(Line)
    PROVE  /\ a \o c \in Seq(Line) /\ Len(a \o c) = Len(a) + Len(c)
           /\ \A i \in 1..Len(a) : (a \o c)[i] = a[i]
           /\ \A i \in 1..Len(c) : (a \o c)[Len(a) + i] = c[i]
<1>1. a \o c \in Seq(Line) /\ Len(a \o c) = Len(a) + Len(c)
  OBVIOUS
<1>2. \A i \in 1..Len(a) : (a \o c)[i] = a[i]
  OBVIOUS
<1>3. ASSUME NEW i \in 1..Len(c) PROVE (a \o c)[Len(a) + i] = c[i]
  <2>1. Len(a) + i \in 1..(Len(a) + Len(c)) /\ ~(Len(a) + i <= Len(a)) /\ Len(a) + i - Len(a) = i
    OBVIOUS
  <2>. QED BY <2>1
<1>. QED
  BY <1>1, <1>2, <1>3

LEMMA PartEmpty ==
    ASSUME NEW all, NEW a \in Nat
    PROVE  Part(<<>>, all, a, a)
<1>1. a - a = 0
  OBVIOUS
<1>. QED BY <1>1 DEF Part

LEMMA PartGrows ==
    ASSUME NEW all \in Seq(Line), NEW l \in Line, NEW a \in Nat, NEW b \in Nat, b <= Len(all), NEW s,
           Part(s, all, a, b)
    PROVE  Part(s, Append(all, l), a, b)
<1>1. \A k \in 1..Len(all) : Append(all, l)[k] = all[k]
  BY AppendLine
<1>2. Len(all) \in Nat /\ \A k \in 1..(b - a) : a + k \in 1..Len(all)
  OBVIOUS
<1>. QED BY <1>1, <1>2 DEF Part

LEMMA PartAppend ==
    ASSUME NEW all \in Seq(Line), NEW l \in Line, NEW a \in Nat, a <= Len(all), NEW s,
           Part(s, all, a, Len(all))
    PROVE  Part(Append(s, l), Append(all, l), a, Len(all) + 1)
<1>. DEFINE n == Len(all)
            t == Append(s, l)
            u == Append(all, l)
            m == Len(all) + 1
<1>1. s \in Seq(Line) /\ Len(s) = n - a /\ \A k \in 1..(n - a) : s[k] = all[a + k]
  BY DEF Part
<1>2. /\ t \in Seq(Line) /\ Len(t) = Len(s) + 1 /\ t[Len(s) + 1] = l
      /\ \A k \in 1..Len(s) : t[k] = s[k]
      /\ u[m] = l /\ n \in Nat /\ \A k \in 1..n : u[k] = all[k]
  BY <1>1, AppendLine
<1>0. m = n + 1 /\ m \in Nat
  BY <1>2
<1>. HIDE DEF n, t, u, m
<1>3. Len(t) = m - a
  BY <1>0, <1>1, <1>2
<1>4. \A k \in 1..(m - a) : t[k] = u[a + k]
  <2>. SUFFICES ASSUME NEW k \in 1..(m - a) PROVE t[k] = u[a + k]
    OBVIOUS
  <2>1. CASE k \in 1..(n - a)
    <3>1. a + k \in 1..n /\ k \in 1..Len(s)
      BY <1>1, <1>2, <2>1
    <3>. QED BY <1>1, <1>2, <2>1, <3>1
  <2>2. CASE k = m - a
    <3>1. k = Len(s) + 1 /\ a + k = m
      BY <1>0, <1>1, <1>2, <2>2
    <3>. QED BY <1>2, <3>1
  <2>3. k \in 1..(n - a) \/ k = m - a
    <3>1. n \in Nat /\ m = n + 1
      BY <1>0, <1>2
    <3>. QED BY ONLY <3>1, a \in Nat, k \in 1..(m - a)
  <2>. QED BY <2>1, <2>2, <2>3
<1>5. Part(t, u, a, m)
  BY <1>2, <1>3, <1>4 DEF Part
<1>. QED BY <1>5 DEF m, n, t, u

LEMMA PartTail ==
    ASSUME NEW all, NEW a \in Nat, NEW b \in Nat, NEW p \in Nat, a <= p, p <= b, NEW s, Part(s, all, a, b)
    PROVE  Part(SubSeq(s, p - a + 1, Len(s)), all, p, b)
<1>. DEFINE t == SubSeq(s, p - a + 1, Len(s))
            m == p - a + 1
<1>1. s \in Seq(Line) /\ Len(s) = b - a /\ \A k \in 1..(b - a) : s[k] = all[a + k]
  BY DEF Part
<1>2. m \in Nat /\ m >= 1 /\ Len(s) \in Nat /\ Len(s) - m + 1 = b - p /\ b - p \in Nat
  BY <1>1
<1>3. \A k \in 1..(b - p) : m + k - 1 \in 1..Len(s) /\ m + k - 1 \in 1..(b - a) /\ a + (m + k - 1) = p + k
  BY <1>1
<1>. HIDE DEF m
<1>4. SubSeq(s, m, Len(s)) \in Seq(Line)
  <2>1. \A k \in m..Len(s) : k \in 1..Len(s)
    BY <1>2
  <2>. QED BY <1>1, <1>2, <2>1
<1>5. Len(SubSeq(s, m, Len(s))) = b - p /\ \A k \in 1..(b - p) : SubSeq(s, m, Len(s))[k] = s[m + k - 1]
  BY <1>1, <1>2
<1>. QED BY <1>1, <1>3, <1>4, <1>5 DEF Part, m

LEMMA PartJoin ==
    ASSUME NEW all, NEW a \in Nat, NEW b \in Nat, NEW c \in Nat, a <= b, b <= c, NEW s, NEW t,
           Part(s, all, a, b), Part(t, all, b, c)
    PROVE  Part(s \o t, all, a, c)
<1>1. s \in Seq(Line) /\ Len(s) = b - a /\ \A k \in 1..(b - a) : s[k] = all[a + k]
  BY DEF Part
<1>2. t \in Seq(Line) /\ Len(t) = c - b /\ \A k \in 1..(c - b) : t[k] = all[b + k]
  BY DEF Part
<1>. DEFINE u == s \o t
<1>3. /\ u \in Seq(Line) /\ Len(u) = Len(s) + Len(t)
      /\ \A k \in 1..Len(s) : u[k] = s[k]
      /\ \A k \in 1..Len(t) : u[Len(s) + k] = t[k]
  BY <1>1, <1>2, SeqJoined
<1>. HIDE DEF u
<1>4. Len(u) = c - a
  BY <1>1, <1>2, <1>3
<1>5. \A k \in 1..(c - a) : u[k] = all[a + k]
  <2>. SUFFICES ASSUME NEW k \in 1..(c - a) PROVE u[k] = all[a + k]
    OBVIOUS
  <2>1. CASE k <= b - a
    <3>1. k \in 1..(b - a) /\ k \in 1..Len(s)
      BY <1>1, <2>1
    <3>. QED BY <1>1, <1>3, <3>1
  <2>2. CASE ~(k <= b - a)
    <3>. DEFINE j == k - (b - a)
    <3>1. j \in 1..(c - b) /\ j \in 1..Len(t) /\ b + j = a + k /\ Len(s) + j = k
      BY <1>1, <1>2, <2>2
    <3>. HIDE DEF j
    <3>. QED BY <1>2, <1>3, <3>1
  <2>. QED BY <2>1, <2>2
<1>. QED BY <1>3, <1>4, <1>5 DEF Part, u

LEMMA PartIs ==
    ASSUME NEW all \in Seq(Line), NEW a \in 0..Len(all), NEW s, Part(s, all, a, Len(all))
    PROVE  s = SubSeq(all, a + 1, Len(all))
<1>. DEFINE n == Len(all)
            m == a + 1
            t == SubSeq(all, m, n)
<1>1. s \in Seq(Line) /\ Len(s) = n - a /\ \A k \in 1..(n - a) : s[k] = all[a + k]
  BY DEF Part
<1>2. n \in Nat /\ m \in Nat /\ m >= 1 /\ n - m + 1 = n - a /\ n - a \in Nat
  OBVIOUS
<1>3. \A k \in 1..(n - a) : m + k - 1 = a + k
  BY <1>2
<1>. HIDE DEF m
<1>4. t \in Seq(Line)
  <2>1. \A k \in m..n : k \in 1..n
    BY <1>2
  <2>. QED BY <1>2, <2>1
<1>5. Len(t) = n - a /\ \A k \in 1..(n - a) : t[k] = all[m + k - 1]
  BY <1>2
<1>6. \A k \in 1..(n - a) : t[k] = s[k]
  BY <1>1, <1>3, <1>5
<1>. HIDE DEF t
<1>7. s = t
  <2>1. Len(s) = Len(t) /\ \A k \in 1..Len(s) : s[k] = t[k]
    BY <1>1, <1>5, <1>6
  <2>. QED BY <1>1, <1>4, <2>1, SameLines
<1>. QED BY <1>7 DEF t, m

-----------------------------------------------------------------------------
(* What the writer does to the files. *)

LEMMA FileFacts ==
    ASSUME FilesFit
    PROVE  /\ DOMAIN files = Backups /\ 0 \in Backups /\ 1 \in Backups /\ nodes \in Nat
           /\ \A i \in Backups : files[i] \in File /\ files[i].node \in Nat /\ files[i].lines \in Seq(Line)
<1>1. files \in [Backups -> File] /\ nodes \in Nat
  BY DEF FilesFit
<1>2. 0 \in Backups /\ 1 \in Backups
  BY Limits DEF Backups
<1>3. \A f \in File : f.node \in Nat /\ f.lines \in Seq(Line)
  BY DEF File
<1>. HIDE DEF Backups
<1>. QED BY <1>1, <1>2, <1>3

LEMMA FileOf ==
    ASSUME NEW n \in Nat, NEW s \in Seq(Line)
    PROVE  LET f == [node |-> n, lines |-> s] IN f \in File /\ f.node = n /\ f.lines = s
BY DEF File

LEMMA NoFileIs == NoFile \in File /\ NoFile.node = 0 /\ NoFile.lines = <<>>
BY DEF NoFile, File

LEMMA AppendLines ==
    ASSUME LinesFit, NEW l \in Line, \A i \in 1..Len(logged) : logged[i].number < l.number,
           l.number <= lines', lines' \in Nat, lines <= lines', logged' = Append(logged, l)
    PROVE  LinesFit'
<1>. DEFINE n == Len(logged)
            t == Append(logged, l)
            m == lines'
<1>1. /\ logged \in Seq(Line) /\ lines \in Nat
      /\ \A i, j \in 1..n : i < j => logged[i].number < logged[j].number
      /\ \A i \in 1..n : logged[i].number <= lines
  BY DEF LinesFit
<1>2. t \in Seq(Line) /\ Len(t) = n + 1 /\ n \in Nat /\ t[n + 1] = l /\ \A k \in 1..n : t[k] = logged[k]
  BY <1>1, AppendLine
<1>3. \A i \in 1..n : logged[i].number \in Nat
  BY <1>1, LinesOf
<1>. HIDE DEF n, t, m
<1>4. \A i \in 1..Len(t) : i \in 1..n \/ i = n + 1
  BY <1>2
<1>5. \A i \in 1..n : t[i].number < l.number /\ t[i].number <= lines
  BY <1>1, <1>2 DEF n
<1>6. l.number \in Nat
  BY LineIs
<1>7. \A i, j \in 1..Len(t) : i < j => t[i].number < t[j].number
  <2>. SUFFICES ASSUME NEW i \in 1..Len(t), NEW j \in 1..Len(t), i < j PROVE t[i].number < t[j].number
    OBVIOUS
  <2>1. i \in 1..n
    BY <1>2
  <2>2. CASE j \in 1..n
    BY <1>1, <1>2, <2>1, <2>2
  <2>3. CASE j = n + 1
    BY <1>2, <1>5, <2>1, <2>3
  <2>. QED BY <1>4, <2>2, <2>3
<1>8. \A i \in 1..Len(t) : t[i].number <= m
  <2>. SUFFICES ASSUME NEW i \in 1..Len(t) PROVE t[i].number <= m
    OBVIOUS
  <2>1. CASE i \in 1..n
    BY <1>1, <1>2, <1>3, <1>5, <2>1 DEF m
  <2>2. CASE i = n + 1
    BY <1>2, <2>2 DEF m
  <2>. QED BY <1>4, <2>1, <2>2
<1>9. logged' = t /\ lines' = m
  BY DEF t, m
<1>. QED BY <1>2, <1>7, <1>8, <1>9 DEF LinesFit

\* The file that a line goes to, if there is one or not.
Current == IF Exists(0) THEN files[0] ELSE Created

LEMMA CurrentIs ==
    ASSUME FilesFit
    PROVE  /\ Current.node \in Nat /\ Current.node # 0 /\ Current.lines \in Seq(Line)
           /\ Exists(0) => Current = files[0] /\ Current.node <= nodes
           /\ ~Exists(0) => /\ Current.node = nodes + 1 /\ Current.lines = <<>>
                            /\ files[0].lines = <<>> /\ files[0].node = 0
           /\ \A j \in Backups : files[j].node = Current.node => j = 0
<1>1. /\ 0 \in Backups /\ nodes \in Nat
      /\ \A i \in Backups : files[i].node \in Nat /\ files[i].lines \in Seq(Line)
  BY FileFacts
<1>2. /\ \A i \in Backups : files[i].node <= nodes /\ (files[i].node = 0 <=> files[i].lines = <<>>)
      /\ \A i, j \in Backups : Exists(i) /\ files[i].node = files[j].node => i = j
  BY DEF FilesFit
<1>3. CASE Exists(0)
  <2>1. Current = files[0]
    BY <1>3 DEF Current
  <2>. QED BY <1>1, <1>2, <1>3, <2>1 DEF Exists
<1>4. CASE ~Exists(0)
  <2>1. Current.node = nodes + 1 /\ Current.lines = <<>>
    BY <1>4 DEF Current, Created
  <2>2. files[0].node = 0 /\ files[0].lines = <<>>
    BY <1>1, <1>2, <1>4 DEF Exists
  <2>3. \A j \in Backups : files[j].node # nodes + 1
    BY <1>1, <1>2
  <2>. QED BY <1>1, <1>4, <2>1, <2>2, <2>3
<1>. QED BY <1>3, <1>4

LEMMA AppendFiles ==
    ASSUME FilesFit, NEW l \in Line, AppendTo(Current, l),
           Bytes(Current.lines) = 0 \/ Bytes(Current.lines) + l.size <= MaxBytes
    PROVE  /\ FilesFit' /\ Exists(0)' /\ nodes <= nodes' /\ nodes' \in Nat
           /\ files'[0].node = Current.node /\ files'[0].lines = Append(Current.lines, l)
           /\ \A i \in Backups : i # 0 => files'[i] = files[i]
           /\ logged' = Append(logged, l)
<1>. DEFINE c == Current
            t == Append(c.lines, l)
            e == [node |-> c.node, lines |-> t]
            g == files'
            m == nodes'
<1>1. /\ c.node \in Nat /\ c.node # 0 /\ c.lines \in Seq(Line)
      /\ Exists(0) => c.node <= nodes
      /\ ~Exists(0) => c.node = nodes + 1
      /\ \A j \in Backups : files[j].node = c.node => j = 0
  BY CurrentIs
<1>2. /\ DOMAIN files = Backups /\ 0 \in Backups /\ nodes \in Nat
      /\ \A i \in Backups : files[i] \in File /\ files[i].node \in Nat /\ files[i].lines \in Seq(Line)
  BY FileFacts
<1>3. /\ \A i \in Backups : files[i].node <= nodes /\ (files[i].node = 0 <=> files[i].lines = <<>>)
      /\ \A i, j \in Backups : Exists(i) /\ files[i].node = files[j].node => i = j
      /\ \A i \in Backups : Bytes(files[i].lines) <= MaxBytes \/ Len(files[i].lines) <= 1
      /\ files \in [Backups -> File]
  BY DEF FilesFit
<1>4. g = [files EXCEPT ![0] = e] /\ m = (IF c.node > nodes THEN c.node ELSE nodes) /\ logged' = Append(logged, l)
  BY DEF AppendTo
<1>5. t \in Seq(Line) /\ Len(t) = Len(c.lines) + 1 /\ t # <<>> /\ Len(c.lines) \in Nat
  BY <1>1, AppendLine
<1>6. Bytes(t) <= MaxBytes \/ Len(t) <= 1
  <2>1. Bytes(t) = Bytes(c.lines) + l.size
    BY <1>1, BytesAppend
  <2>2. Bytes(c.lines) = 0 => c.lines = <<>>
    BY <1>1, BytesFacts
  <2>3. c.lines = <<>> => Len(t) = 1
    BY <1>5
  <2>. QED BY <2>1, <2>2, <2>3
<1>. HIDE DEF c, t
<1>7. e \in File /\ e.node = c.node /\ e.lines = t
  BY <1>1, <1>5, FileOf
<1>. HIDE DEF e, g, m, Backups
<1>8. g[0] = e /\ (\A i \in Backups : i # 0 => g[i] = files[i]) /\ g \in [Backups -> File]
  BY <1>2, <1>3, <1>4, <1>7
<1>9. m \in Nat /\ nodes <= m /\ c.node <= m
  BY <1>1, <1>2, <1>4
<1>10. \A i \in Backups : g[i].node <= m /\ (g[i].node = 0 <=> g[i].lines = <<>>)
  <2>. SUFFICES ASSUME NEW i \in Backups PROVE g[i].node <= m /\ (g[i].node = 0 <=> g[i].lines = <<>>)
    OBVIOUS
  <2>1. CASE i = 0
    BY <1>1, <1>5, <1>7, <1>8, <1>9, <2>1
  <2>2. CASE i # 0
    <3>1. files[i].node <= m
      BY <1>2, <1>3, <1>9
    <3>. QED BY <1>3, <1>8, <2>2, <3>1
  <2>. QED BY <2>1, <2>2
<1>11. \A i, j \in Backups : g[i].node # 0 /\ g[i].node = g[j].node => i = j
  <2>. SUFFICES ASSUME NEW i \in Backups, NEW j \in Backups, g[i].node # 0, g[i].node = g[j].node PROVE i = j
    OBVIOUS
  <2>1. CASE i = 0 \/ j = 0
    BY <1>1, <1>7, <1>8, <2>1
  <2>2. CASE i # 0 /\ j # 0
    BY <1>3, <1>8, <2>2 DEF Exists
  <2>. QED BY <2>1, <2>2
<1>12. \A i \in Backups : Bytes(g[i].lines) <= MaxBytes \/ Len(g[i].lines) <= 1
  BY <1>3, <1>6, <1>7, <1>8
<1>13. FilesFit'
  BY <1>8, <1>9, <1>10, <1>11, <1>12 DEF FilesFit, Exists, g, m
<1>. QED
  BY <1>1, <1>4, <1>7, <1>8, <1>9, <1>13 DEF Exists, g, m, c, t

LEMMA LaidOutIs ==
    ASSUME NEW g, NEW all, NEW gapless, NEW a \in [Backups -> Nat], NEW b \in [Backups -> Nat],
           \A i \in Backups : a[i] <= b[i] /\ b[i] <= Len(all) /\ Part(g[i].lines, all, a[i], b[i]),
           \A i, j \in Backups : j < i => b[i] <= a[j],
           g[0].node # 0 => b[0] = Len(all),
           g[0].node = 0 => b[1] = Len(all) /\ (all # <<>> => g[1].node # 0),
           gapless => b[0] = Len(all) /\ \A i \in 0..(MaxFiles - 2) : a[i] = b[i + 1]
    PROVE  Layout(g, all, gapless)
<1>1. LaidOut(g, all, gapless, a, b)
  BY DEF LaidOut
<1>. QED BY <1>1 DEF Layout

\* Places among the files.
LEMMA Places ==
    /\ 0 \in Backups /\ 1 \in Backups /\ MaxFiles - 1 \in Backups /\ MaxFiles - 1 >= 1
    /\ \A i \in Backups : i \in Nat
    /\ \A i \in 0..(MaxFiles - 2) : i \in Backups /\ i + 1 \in Backups /\ i + 1 # i /\ i \in Nat /\ i + 1 # 0
BY Limits DEF Backups

\* A line is added to the log file, or to a new one.
LEMMA LayoutAppends ==
    ASSUME NEW g, NEW h, NEW all \in Seq(Line), NEW gapless, NEW l \in Line, NEW s \in Seq(Line),
           Layout(g, all, gapless),
           h[0].node # 0, h[0].lines = Append(s, l), \A i \in Backups : i # 0 => h[i] = g[i],
           g[0].node # 0 => s = g[0].lines,
           g[0].node = 0 => s = <<>> /\ g[0].lines = <<>>
    PROVE  Layout(h, Append(all, l), gapless)
<1>. DEFINE n == Len(all)
            t == Append(all, l)
<1>1. PICK a \in [Backups -> Nat], b \in [Backups -> Nat] : LaidOut(g, all, gapless, a, b)
  BY DEF Layout
<1>2. /\ \A i \in Backups : a[i] <= b[i] /\ b[i] <= n /\ Part(g[i].lines, all, a[i], b[i])
      /\ \A i, j \in Backups : j < i => b[i] <= a[j]
      /\ g[0].node # 0 => b[0] = n
      /\ g[0].node = 0 => b[1] = n
      /\ gapless => b[0] = n /\ \A i \in 0..(MaxFiles - 2) : a[i] = b[i + 1]
  BY <1>1 DEF LaidOut
<1>3. n \in Nat /\ Len(t) = n + 1 /\ 0 \in Backups /\ \A i \in Backups : i \in Nat
  BY AppendLine, Places
<1>. DEFINE z == IF g[0].node # 0 THEN a[0] ELSE n
            m == n + 1
            c == [i \in Backups |-> IF i = 0 THEN z ELSE a[i]]
            d == [i \in Backups |-> IF i = 0 THEN m ELSE b[i]]
<1>. HIDE DEF Backups, n, t
<1>4. z \in Nat /\ m \in Nat /\ z <= n /\ z <= m /\ a[0] \in Nat /\ b[0] \in Nat
  BY <1>2, <1>3
<1>5. c \in [Backups -> Nat] /\ d \in [Backups -> Nat]
  BY <1>4
<1>6. /\ c[0] = z /\ d[0] = m
      /\ \A i \in Backups : i # 0 => c[i] = a[i] /\ d[i] = b[i] /\ a[i] \in Nat /\ b[i] \in Nat
  BY <1>3
<1>. HIDE DEF c, d
<1>7. Part(Append(s, l), t, z, m)
  <2>1. Part(s, all, z, n)
    <3>1. CASE g[0].node # 0
      BY <1>2, <1>3, <3>1
    <3>2. CASE g[0].node = 0
      BY <1>3, <3>2, PartEmpty
    <3>. QED BY <3>1, <3>2
  <2>. QED BY <1>4, <2>1, PartAppend DEF n, t
<1>8. \A i \in Backups : i # 0 => Part(g[i].lines, t, a[i], b[i])
  BY <1>2, <1>6, PartGrows DEF n, t
<1>9. \A i \in Backups : i # 0 => b[i] <= z
  <2>. SUFFICES ASSUME NEW i \in Backups, i # 0 PROVE b[i] <= z
    OBVIOUS
  <2>1. 0 < i
    BY <1>3
  <2>. QED BY <1>2, <1>3, <2>1
<1>. HIDE DEF z
<1>10. \A i \in Backups : c[i] <= d[i] /\ d[i] <= Len(t) /\ Part(h[i].lines, t, c[i], d[i])
  <2>. SUFFICES ASSUME NEW i \in Backups PROVE c[i] <= d[i] /\ d[i] <= Len(t) /\ Part(h[i].lines, t, c[i], d[i])
    OBVIOUS
  <2>0. m \in Nat /\ m = n + 1 /\ m = Len(t) /\ n \in Nat
    BY <1>3, <1>4
  <2>. HIDE DEF m
  <2>1. CASE i = 0
    <3>1. m <= m /\ m <= Len(t)
      BY <2>0
    <3>2. h[i].lines = Append(s, l)
      BY <2>1
    <3>. QED BY <1>4, <1>6, <1>7, <2>1, <3>1, <3>2
  <2>2. CASE i # 0
    <3>1. b[i] <= Len(t)
      <4>1. b[i] <= n /\ b[i] \in Nat
        BY <1>2, <1>6, <2>2
      <4>. QED BY <2>0, <4>1
    <3>2. h[i].lines = g[i].lines
      BY <2>2
    <3>3. a[i] <= b[i]
      BY <1>2
    <3>. QED BY <1>6, <1>8, <2>2, <3>1, <3>2, <3>3
  <2>. QED BY <2>1, <2>2
<1>11. \A i, j \in Backups : j < i => d[i] <= c[j]
  <2>. SUFFICES ASSUME NEW i \in Backups, NEW j \in Backups, j < i PROVE d[i] <= c[j]
    OBVIOUS
  <2>1. i # 0
    BY <1>3
  <2>2. CASE j = 0
    BY <1>6, <1>9, <2>1, <2>2
  <2>3. CASE j # 0
    BY <1>2, <1>6, <2>1, <2>3
  <2>. QED BY <2>2, <2>3
<1>12. d[0] = Len(t)
  BY <1>3, <1>6
<1>13. gapless => \A i \in 0..(MaxFiles - 2) : c[i] = d[i + 1]
  <2>. SUFFICES ASSUME gapless, NEW i \in 0..(MaxFiles - 2) PROVE c[i] = d[i + 1]
    OBVIOUS
  <2>1. i \in Backups /\ i + 1 \in Backups /\ i + 1 # 0
    BY Places
  <2>2. a[i] = b[i + 1] /\ b[0] = n
    BY <1>2
  <2>3. CASE i = 0
    <3>1. a[0] = z
      <4>1. CASE g[0].node # 0
        BY <4>1 DEF z
      <4>2. CASE g[0].node = 0
        <5>1. Part(<<>>, all, a[0], b[0])
          BY <1>2, <1>3, <4>2
        <5>2. Len(<<>>) = b[0] - a[0] /\ Len(<<>>) = 0
          BY <5>1 DEF Part
        <5>3. a[0] = n
          BY <1>4, <2>2, <5>2
        <5>. QED BY <4>2, <5>3 DEF z
      <4>. QED BY <4>1, <4>2
    <3>. QED BY <1>6, <2>1, <2>2, <2>3, <3>1
  <2>4. CASE i # 0
    BY <1>6, <2>1, <2>2, <2>4
  <2>. QED BY <2>3, <2>4
<1>14. Layout(h, t, gapless)
  BY <1>5, <1>10, <1>11, <1>12, <1>13, LaidOutIs
<1>. QED BY <1>14 DEF t

\* The last backup is removed.
LEMMA LayoutDrops ==
    ASSUME NEW g, NEW h, NEW all \in Seq(Line), NEW gapless, Layout(g, all, gapless),
           g[0].node # 0, h[MaxFiles - 1] = NoFile, \A i \in Backups : i # MaxFiles - 1 => h[i] = g[i]
    PROVE  Layout(h, all, gapless)
<1>. DEFINE n == Len(all)
            e == MaxFiles - 1
<1>1. PICK a \in [Backups -> Nat], b \in [Backups -> Nat] : LaidOut(g, all, gapless, a, b)
  BY DEF Layout
<1>2. /\ \A i \in Backups : a[i] <= b[i] /\ b[i] <= n /\ Part(g[i].lines, all, a[i], b[i])
      /\ \A i, j \in Backups : j < i => b[i] <= a[j]
      /\ b[0] = n
      /\ gapless => \A i \in 0..(MaxFiles - 2) : a[i] = b[i + 1]
  BY <1>1 DEF LaidOut
<1>3. 0 \in Backups /\ e \in Backups /\ e # 0 /\ \A i \in Backups : i \in Nat
  BY Places
<1>4. \A i \in 0..(MaxFiles - 2) : i \in Backups /\ i # e /\ i + 1 \in Backups
  BY Limits, Places
<1>5. \A i \in Backups : ~(e < i)
  BY Limits DEF Backups
<1>. HIDE DEF Backups, n, e
<1>. DEFINE c == [i \in Backups |-> IF i = e THEN b[e] ELSE a[i]]
<1>6. \A i \in Backups : a[i] \in Nat /\ b[i] \in Nat
  OBVIOUS
<1>7. c \in [Backups -> Nat] /\ c[e] = b[e] /\ \A i \in Backups : i # e => c[i] = a[i]
  BY <1>3, <1>6
<1>. HIDE DEF c
<1>8. Part(NoFile.lines, all, b[e], b[e])
  BY <1>3, <1>6, NoFileIs, PartEmpty
<1>9. \A i \in Backups : c[i] <= b[i] /\ b[i] <= n /\ Part(h[i].lines, all, c[i], b[i])
  <2>. SUFFICES ASSUME NEW i \in Backups PROVE c[i] <= b[i] /\ b[i] <= n /\ Part(h[i].lines, all, c[i], b[i])
    OBVIOUS
  <2>1. CASE i = e
    <3>1. h[i] = NoFile /\ b[e] <= b[e] /\ b[e] <= n
      BY <1>2, <1>3, <1>6, <2>1 DEF e
    <3>. QED BY <1>7, <1>8, <2>1, <3>1
  <2>2. CASE i # e
    <3>1. h[i] = g[i]
      BY <2>2 DEF e
    <3>. QED BY <1>2, <1>7, <2>2, <3>1
  <2>. QED BY <2>1, <2>2
<1>10. \A i, j \in Backups : j < i => b[i] <= c[j]
  BY <1>2, <1>5, <1>7
<1>11. gapless => \A i \in 0..(MaxFiles - 2) : c[i] = b[i + 1]
  BY <1>2, <1>4, <1>7
<1>12. h[0] = g[0]
  BY <1>3 DEF e
<1>. QED BY <1>2, <1>7, <1>9, <1>10, <1>11, <1>12, LaidOutIs DEF n

\* A file moves to the next place.
LEMMA LayoutMoves ==
    ASSUME NEW g, NEW h, NEW all \in Seq(Line), NEW gapless, Layout(g, all, gapless),
           NEW s \in 0..(MaxFiles - 2), g[0].node # 0, g[s].node # 0,
           gapless => g[s + 1].lines = <<>>,
           h[s + 1] = g[s], h[s] = NoFile,
           \A i \in Backups : i # s /\ i # s + 1 => h[i] = g[i]
    PROVE  Layout(h, all, gapless)
<1>. DEFINE n == Len(all)
            e == s + 1
<1>1. PICK a \in [Backups -> Nat], b \in [Backups -> Nat] : LaidOut(g, all, gapless, a, b)
  BY DEF Layout
<1>2. /\ \A i \in Backups : a[i] <= b[i] /\ b[i] <= n /\ Part(g[i].lines, all, a[i], b[i])
      /\ \A i, j \in Backups : j < i => b[i] <= a[j]
      /\ b[0] = n
      /\ gapless => \A i \in 0..(MaxFiles - 2) : a[i] = b[i + 1]
  BY <1>1 DEF LaidOut
<1>3. /\ 0 \in Backups /\ s \in Backups /\ e \in Backups /\ e # s /\ e # 0 /\ s < e /\ e = s + 1
      /\ s \in Nat /\ e \in Nat /\ \A i \in Backups : i \in Nat
  BY Places
<1>4. \A i \in 0..(MaxFiles - 2) : i \in Backups /\ i + 1 \in Backups /\ i \in Nat
  BY Places
<1>. DEFINE c == [i \in Backups |-> IF i = e THEN a[s] ELSE IF i = s THEN b[s] ELSE a[i]]
            d == [i \in Backups |-> IF i = e THEN b[s] ELSE b[i]]
<1>5. h[e] = g[s] /\ h[s] = NoFile /\ \A i \in Backups : i # s /\ i # e => h[i] = g[i]
  OBVIOUS
<1>. HIDE DEF Backups, n, e
<1>6. \A i \in Backups : a[i] \in Nat /\ b[i] \in Nat
  OBVIOUS
<1>7. /\ c \in [Backups -> Nat] /\ c[e] = a[s] /\ c[s] = b[s] /\ \A i \in Backups : i # e /\ i # s => c[i] = a[i]
      /\ d \in [Backups -> Nat] /\ d[e] = b[s] /\ \A i \in Backups : i # e => d[i] = b[i]
  BY <1>3, <1>6
<1>. HIDE DEF c, d
<1>8. Part(NoFile.lines, all, b[s], b[s])
  BY <1>3, <1>6, NoFileIs, PartEmpty
<1>9. \A i \in Backups : c[i] <= d[i] /\ d[i] <= n /\ Part(h[i].lines, all, c[i], d[i])
  <2>. SUFFICES ASSUME NEW i \in Backups PROVE c[i] <= d[i] /\ d[i] <= n /\ Part(h[i].lines, all, c[i], d[i])
    OBVIOUS
  <2>1. CASE i = e
    BY <1>2, <1>3, <1>5, <1>7, <2>1
  <2>2. CASE i = s
    <3>1. b[s] <= b[s] /\ b[s] <= n /\ d[s] = b[s] /\ h[i] = NoFile
      BY <1>2, <1>3, <1>5, <1>6, <1>7, <2>2
    <3>. QED BY <1>7, <1>8, <2>2, <3>1
  <2>3. CASE i # e /\ i # s
    <3>1. h[i] = g[i]
      BY <1>5, <2>3
    <3>. QED BY <1>2, <1>7, <2>3, <3>1
  <2>. QED BY <2>1, <2>2, <2>3
<1>10. \A i, j \in Backups : j < i => d[i] <= c[j]
  <2>. SUFFICES ASSUME NEW i \in Backups, NEW j \in Backups, j < i PROVE d[i] <= c[j]
    OBVIOUS
  <2>0. i \in Nat /\ j \in Nat /\ a[s] <= b[s] /\ a[s] \in Nat /\ b[s] \in Nat
    BY <1>2, <1>3, <1>6
  <2>1. CASE i = e
    <3>1. j = s \/ (j < s /\ j # e)
      BY <1>3, <2>0, <2>1
    <3>. QED BY <1>2, <1>3, <1>7, <2>0, <2>1, <3>1
  <2>2. CASE i = s
    <3>1. j # e /\ j # s
      BY <1>3, <2>0, <2>2
    <3>. QED BY <1>2, <1>3, <1>7, <2>2, <3>1
  <2>3. CASE i # e /\ i # s
    <3>0. d[i] = b[i] /\ b[i] \in Nat
      BY <1>6, <1>7, <2>3
    <3>1. CASE j = e \/ j = s
      <4>1. s < i
        BY <1>3, <2>0, <3>1
      <4>2. b[i] <= a[s]
        BY <1>2, <1>3, <4>1
      <4>3. c[j] = a[s] \/ c[j] = b[s]
        BY <1>7, <3>1
      <4>. QED BY <2>0, <3>0, <4>2, <4>3
    <3>2. CASE j # e /\ j # s
      BY <1>2, <1>7, <3>0, <3>2
    <3>. QED BY <3>1, <3>2
  <2>. QED BY <2>1, <2>2, <2>3
<1>11. gapless => d[0] = n /\ \A i \in 0..(MaxFiles - 2) : c[i] = d[i + 1]
  <2>. SUFFICES ASSUME gapless PROVE d[0] = n /\ \A i \in 0..(MaxFiles - 2) : c[i] = d[i + 1]
    OBVIOUS
  <2>1. a[e] = b[e]
    <3>1. Part(<<>>, all, a[e], b[e])
      BY <1>2, <1>3 DEF e
    <3>2. Len(<<>>) = b[e] - a[e] /\ Len(<<>>) = 0
      BY <3>1 DEF Part
    <3>. QED BY <1>3, <1>6, <3>2
  <2>2. ASSUME NEW i \in 0..(MaxFiles - 2) PROVE c[i] = d[i + 1]
    <3>0. i \in Backups /\ i + 1 \in Backups /\ a[i] = b[i + 1] /\ i \in Nat
      BY <1>2, <1>4
    <3>1. CASE i = e
      <4>1. i + 1 # e /\ a[s] = b[e] /\ s \in 0..(MaxFiles - 2)
        BY <1>2, <1>3, <3>0, <3>1
      <4>. QED BY <1>7, <2>1, <3>0, <3>1, <4>1
    <3>2. CASE i = s
      BY <1>3, <1>7, <3>2
    <3>3. CASE i # e /\ i # s
      <4>1. i + 1 # e
        BY <1>3, <3>0, <3>3
      <4>. QED BY <1>7, <3>0, <3>3, <4>1
    <3>. QED BY <3>1, <3>2, <3>3
  <2>3. d[0] = n
    BY <1>2, <1>3, <1>7
  <2>. QED BY <2>2, <2>3
<1>12. h[0].node # 0 => d[0] = n
  BY <1>2, <1>3, <1>7
<1>13. h[0].node = 0 => d[1] = n /\ h[1].node # 0
  <2>. SUFFICES ASSUME h[0].node = 0 PROVE d[1] = n /\ h[1].node # 0
    OBVIOUS
  <2>1. s = 0 /\ e = 1
    <3>1. 0 # s => h[0] = g[0]
      BY <1>3, <1>5
    <3>. QED BY <1>3, <3>1
  <2>. QED BY <1>2, <1>5, <1>7, <2>1
<1>. QED BY <1>7, <1>9, <1>10, <1>11, <1>12, <1>13, LaidOutIs DEF n

-----------------------------------------------------------------------------
(* Places of the follower. *)

\* A file that exists ends what was logged.
LEMMA FileEnds ==
    ASSUME NEW g, NEW all \in Seq(Line), NEW gapless, Layout(g, all, gapless), g[0].node # 0
    PROVE  LET s == g[0].lines
           IN /\ s \in Seq(Line) /\ Len(s) \in Nat /\ Len(s) <= Len(all) /\ Base(s, all) \in Nat
              /\ Base(s, all) <= Len(all) /\ Part(s, all, Base(s, all), Len(all))
<1>. DEFINE s == g[0].lines
            n == Len(all)
<1>1. PICK a \in [Backups -> Nat], b \in [Backups -> Nat] : LaidOut(g, all, gapless, a, b)
  BY DEF Layout
<1>2. 0 \in Backups
  BY Places
<1>3. a[0] <= b[0] /\ b[0] = n /\ Part(s, all, a[0], b[0]) /\ a[0] \in Nat
  BY <1>1, <1>2 DEF LaidOut
<1>4. s \in Seq(Line) /\ Len(s) = n - a[0] /\ n \in Nat
  BY <1>3 DEF Part
<1>. HIDE DEF s, n
<1>5. Len(s) \in Nat /\ Len(s) <= n /\ n - Len(s) = a[0]
  BY <1>3, <1>4
<1>6. Base(s, all) = a[0]
  BY <1>5 DEF Base, n
<1>. QED BY <1>3, <1>4, <1>5, <1>6 DEF s, n

LEMMA PlaceAppends ==
    ASSUME NEW s \in Seq(Line), NEW all \in Seq(Line), NEW l \in Line, Len(s) <= Len(all),
           NEW out, NEW f \in Nat, NEW o, Placed(s, all, out, f, o)
    PROVE  Placed(Append(s, l), Append(all, l), out, f, o)
<1>. DEFINE t == Append(s, l)
            u == Append(all, l)
            c == Base(s, all)
<1>1. PICK p \in Nat : At(s, all, out, f, o, p)
  BY DEF Placed
<1>2. f <= p /\ c <= p /\ p <= Len(all) /\ Part(out, all, f, p) /\ o = Start(s, p - c + 1)
  BY <1>1 DEF At
<1>3. Len(s) \in Nat /\ Len(all) \in Nat /\ Len(t) = Len(s) + 1 /\ Len(u) = Len(all) + 1 /\ c = Len(all) - Len(s)
  BY AppendLine DEF Base
<1>4. Part(out, u, f, p)
  BY <1>2, PartGrows
<1>. HIDE DEF t, u, c
<1>5. Base(t, u) = c
  BY <1>3 DEF Base
<1>6. p - c + 1 \in 1..(Len(s) + 1)
  BY <1>2, <1>3
<1>7. Start(t, p - c + 1) = Start(s, p - c + 1)
  BY <1>6, BytesAppend DEF t
<1>8. p <= Len(u)
  BY <1>2, <1>3
<1>9. At(t, u, out, f, o, p)
  BY <1>2, <1>4, <1>5, <1>7, <1>8 DEF At
<1>. QED BY <1>9 DEF Placed, t, u

LEMMA BeforeAppends ==
    ASSUME NEW s \in Seq(Line), NEW all \in Seq(Line), NEW l \in Line, Len(s) <= Len(all),
           NEW out, NEW f \in Nat, Before(s, all, out, f)
    PROVE  Before(Append(s, l), Append(all, l), out, f)
<1>. DEFINE t == Append(s, l)
            u == Append(all, l)
            c == Base(s, all)
<1>1. f <= c /\ Part(out, all, f, c)
  BY DEF Before
<1>2. Len(s) \in Nat /\ Len(all) \in Nat /\ Len(t) = Len(s) + 1 /\ Len(u) = Len(all) + 1 /\ c = Len(all) - Len(s)
  BY AppendLine DEF Base
<1>3. c \in Nat /\ c <= Len(all)
  BY <1>2
<1>. HIDE DEF c
<1>4. Part(out, u, f, c)
  BY <1>1, <1>3, PartGrows
<1>. HIDE DEF t, u
<1>5. Base(t, u) = c
  BY <1>2 DEF Base
<1>6. Before(t, u, out, f)
  BY <1>1, <1>4, <1>5 DEF Before
<1>. QED BY <1>6 DEF t, u

\* A new file begins after all that was logged.
LEMMA BeforeNew ==
    ASSUME NEW all \in Seq(Line), NEW l \in Line, NEW out, NEW f \in Nat, f <= Len(all),
           Part(out, all, f, Len(all))
    PROVE  Before(Append(<<>>, l), Append(all, l), out, f)
<1>. DEFINE e == <<>>
<1>1. e \in Seq(Line) /\ Len(e) = 0 /\ Len(all) \in Nat
  OBVIOUS
<1>. HIDE DEF e
<1>2. Base(e, all) = Len(all) /\ Len(e) <= Len(all)
  BY <1>1 DEF Base
<1>3. Before(e, all, out, f)
  BY <1>2 DEF Before
<1>4. Before(Append(e, l), Append(all, l), out, f)
  BY <1>1, <1>2, <1>3, BeforeAppends
<1>. QED BY <1>4 DEF e

LEMMA PlaceFacts ==
    ASSUME NEW s \in Seq(Line), NEW all \in Seq(Line), Len(s) <= Len(all),
           NEW out, NEW f \in Nat, NEW o, Placed(s, all, out, f, o)
    PROVE  /\ o \in Nat /\ o <= Bytes(s) /\ Bytes(s) \in Nat
           /\ o = Bytes(s) => Part(out, all, f, Len(all))
<1>. DEFINE c == Base(s, all)
            n == Len(s)
<1>1. PICK p \in Nat : At(s, all, out, f, o, p)
  BY DEF Placed
<1>2. f <= p /\ c <= p /\ p <= Len(all) /\ Part(out, all, f, p) /\ o = Start(s, p - c + 1)
  BY <1>1 DEF At
<1>3. n \in Nat /\ Len(all) \in Nat /\ c = Len(all) - n /\ n <= Len(all)
  BY DEF Base
<1>. HIDE DEF c
<1>. DEFINE i == p - c + 1
<1>4. i \in 1..(n + 1) /\ n + 1 \in 1..(n + 1) /\ (i < n + 1 \/ i = n + 1) /\ (i = n + 1 => p = Len(all))
  BY <1>2, <1>3
<1>5. o = Start(s, i)
  BY <1>2
<1>. HIDE DEF i, n
<1>6. /\ Bytes(s) \in Nat /\ Bytes(s) = Start(s, n + 1)
      /\ \A j \in 1..(n + 1) : Start(s, j) = Bytes(s) => j = n + 1
  BY BytesFacts DEF n
<1>7. \A j \in 1..(n + 1) : Start(s, j) \in Nat
  BY StartUnfolds DEF Starts, n
<1>8. i < n + 1 => Start(s, i) < Start(s, n + 1)
  BY <1>4, StartGrows DEF n
<1>9. o \in Nat /\ o <= Bytes(s)
  BY <1>4, <1>5, <1>6, <1>7, <1>8
<1>10. o = Bytes(s) => p = Len(all)
  BY <1>4, <1>5, <1>6
<1>. QED BY <1>2, <1>6, <1>9, <1>10

LEMMA PlaceOfEnd ==
    ASSUME NEW s \in Seq(Line), NEW all \in Seq(Line), Len(s) <= Len(all),
           NEW out, NEW f \in Nat, f <= Len(all), Part(out, all, f, Len(all))
    PROVE  Placed(s, all, out, f, Bytes(s))
<1>. DEFINE c == Base(s, all)
            n == Len(s)
            m == Len(all)
<1>1. n \in Nat /\ m \in Nat /\ c = m - n /\ n <= m
  BY DEF Base
<1>. HIDE DEF c, n, m
<1>2. m - c + 1 = n + 1 /\ c <= m /\ m <= m
  BY <1>1
<1>3. Bytes(s) = Start(s, n + 1)
  BY BytesFacts DEF n
<1>4. At(s, all, out, f, Bytes(s), m)
  BY <1>2, <1>3 DEF At, c, m
<1>. QED BY <1>1, <1>4 DEF Placed

LEMMA PlaceOfBegin ==
    ASSUME NEW s \in Seq(Line), NEW all \in Seq(Line), Len(s) <= Len(all),
           NEW out, NEW f \in Nat, Before(s, all, out, f)
    PROVE  Placed(s, all, out, f, 0)
<1>. DEFINE c == Base(s, all)
<1>1. f <= c /\ Part(out, all, f, c)
  BY DEF Before
<1>2. c \in Nat /\ c <= Len(all) /\ c - c + 1 = 1
  BY DEF Base
<1>3. Start(s, 1) = 0
  BY StartUnfolds DEF Starts
<1>. HIDE DEF c
<1>4. c <= c
  BY <1>2
<1>5. At(s, all, out, f, 0, c)
  BY <1>1, <1>2, <1>3, <1>4 DEF At, c
<1>. QED BY <1>2, <1>5 DEF Placed

\* Reading on from the place prints the rest.
LEMMA PlaceReads ==
    ASSUME NEW s \in Seq(Line), NEW all \in Seq(Line), Len(s) <= Len(all),
           Part(s, all, Base(s, all), Len(all)),
           NEW out, NEW f \in Nat, NEW o, Placed(s, all, out, f, o)
    PROVE  Placed(s, all, out \o FromByte(s, o), f, Bytes(s))
<1>. DEFINE c == Base(s, all)
            m == Len(all)
<1>1. PICK p \in Nat : At(s, all, out, f, o, p)
  BY DEF Placed
<1>2. f <= p /\ c <= p /\ p <= m /\ Part(out, all, f, p) /\ o = Start(s, p - c + 1)
  BY <1>1 DEF At
<1>3. c \in Nat /\ m \in Nat /\ p - c + 1 \in 1..(Len(s) + 1)
  BY <1>2 DEF Base
<1>4. FromByte(s, o) = SubSeq(s, p - c + 1, Len(s))
  BY <1>2, <1>3, FromStart
<1>5. Part(s, all, c, m)
  OBVIOUS
<1>. HIDE DEF c
<1>6. Part(SubSeq(s, p - c + 1, Len(s)), all, p, m)
  BY <1>2, <1>3, <1>5, PartTail
<1>7. Part(out \o FromByte(s, o), all, f, m)
  BY <1>2, <1>3, <1>4, <1>6, PartJoin
<1>8. f <= m
  BY <1>2, <1>3
<1>. HIDE DEF m
<1>. QED BY <1>7, <1>8, PlaceOfEnd DEF m

-----------------------------------------------------------------------------
(* A rotation. *)

\* Files that are removed or change places remain what they are.
LEMMA FilesMoved ==
    ASSUME FilesFit, nodes' = nodes, files' \in [Backups -> File], NEW w \in [Backups -> Backups],
           \A i \in Backups : files'[i] = NoFile \/ files'[i] = files[w[i]],
           \A i, j \in Backups : files'[i] # NoFile /\ files'[j] # NoFile /\ w[i] = w[j] => i = j
    PROVE  FilesFit'
<1>. DEFINE g == files'
<1>1. /\ \A i \in Backups : files[i].node <= nodes /\ (files[i].node = 0 <=> files[i].lines = <<>>)
      /\ \A i, j \in Backups : Exists(i) /\ files[i].node = files[j].node => i = j
      /\ \A i \in Backups : Bytes(files[i].lines) <= MaxBytes \/ Len(files[i].lines) <= 1
      /\ nodes \in Nat
  BY DEF FilesFit
<1>2. NoFile.node = 0 /\ NoFile.lines = <<>> /\ 0 <= nodes /\ Len(NoFile.lines) <= 1
  BY <1>1, NoFileIs
<1>3. g \in [Backups -> File]
  OBVIOUS
<1>. HIDE DEF g, Backups
<1>4. \A i \in Backups : g[i] = NoFile \/ (g[i] = files[w[i]] /\ w[i] \in Backups)
  BY DEF g
<1>5. \A i \in Backups : g[i].node <= nodes /\ (g[i].node = 0 <=> g[i].lines = <<>>)
  BY <1>1, <1>2, <1>4
<1>6. \A i, j \in Backups : g[i].node # 0 /\ g[i].node = g[j].node => i = j
  <2>. SUFFICES ASSUME NEW i \in Backups, NEW j \in Backups, g[i].node # 0, g[i].node = g[j].node PROVE i = j
    OBVIOUS
  <2>1. g[i] # NoFile /\ g[j] # NoFile
    BY <1>2
  <2>2. w[i] = w[j]
    BY <1>1, <1>4, <2>1 DEF Exists
  <2>. QED BY <2>1, <2>2 DEF g
<1>7. \A i \in Backups : Bytes(g[i].lines) <= MaxBytes \/ Len(g[i].lines) <= 1
  BY <1>1, <1>2, <1>4
<1>. QED BY <1>1, <1>3, <1>5, <1>6, <1>7 DEF FilesFit, Exists, g

LEMMA FilesDropped ==
    ASSUME FilesFit, nodes' = nodes, files' = [files EXCEPT ![MaxFiles - 1] = NoFile]
    PROVE  /\ FilesFit' /\ files'[MaxFiles - 1] = NoFile
           /\ \A i \in Backups : i # MaxFiles - 1 => files'[i] = files[i]
<1>. DEFINE e == MaxFiles - 1
            w == [i \in Backups |-> i]
<1>1. files \in [Backups -> File] /\ e \in Backups /\ NoFile \in File
  BY Places, NoFileIs DEF FilesFit
<1>2. files' = [files EXCEPT ![e] = NoFile]
  OBVIOUS
<1>. HIDE DEF Backups, e
<1>3. files' \in [Backups -> File] /\ files'[e] = NoFile /\ \A i \in Backups : i # e => files'[i] = files[i]
  BY <1>1, <1>2
<1>4. w \in [Backups -> Backups] /\ \A i \in Backups : w[i] = i
  OBVIOUS
<1>. HIDE DEF w
<1>5. \A i \in Backups : files'[i] = NoFile \/ files'[i] = files[w[i]]
  BY <1>3, <1>4
<1>6. FilesFit'
  BY <1>3, <1>4, <1>5, FilesMoved
<1>. QED BY <1>3, <1>6 DEF e

LEMMA FilesShifted ==
    ASSUME FilesFit, nodes' = nodes, NEW s \in 0..(MaxFiles - 2),
           files' = [files EXCEPT ![s + 1] = files[s], ![s] = NoFile]
    PROVE  /\ FilesFit' /\ files'[s + 1] = files[s] /\ files'[s] = NoFile
           /\ \A i \in Backups : i # s /\ i # s + 1 => files'[i] = files[i]
<1>. DEFINE e == s + 1
            w == [i \in Backups |-> IF i = e THEN s ELSE i]
<1>1. files \in [Backups -> File] /\ e \in Backups /\ s \in Backups /\ e # s /\ NoFile \in File
  BY Places, NoFileIs DEF FilesFit
<1>2. files' = [files EXCEPT ![e] = files[s], ![s] = NoFile]
  OBVIOUS
<1>. HIDE DEF Backups, e
<1>3. /\ files' \in [Backups -> File] /\ files'[e] = files[s] /\ files'[s] = NoFile
      /\ \A i \in Backups : i # s /\ i # e => files'[i] = files[i]
  BY <1>1, <1>2
<1>4. w \in [Backups -> Backups] /\ w[e] = s /\ \A i \in Backups : i # e => w[i] = i
  BY <1>1
<1>. HIDE DEF w
<1>5. \A i \in Backups : files'[i] = NoFile \/ files'[i] = files[w[i]]
  BY <1>3, <1>4
<1>6. \A i, j \in Backups : files'[i] # NoFile /\ files'[j] # NoFile /\ w[i] = w[j] => i = j
  BY <1>3, <1>4
<1>7. FilesFit'
  BY <1>3, <1>4, <1>5, <1>6, FilesMoved
<1>. QED BY <1>3, <1>7 DEF e

\* What a step of the writer leaves alone.
LEMMA Facts ==
    ASSUME LogFilesIInv
    PROVE  /\ LinesFit /\ RotationFits /\ FilesFit /\ SomeLayout /\ FollowerFits
           /\ ~logPlan.racy => FollowIs
           /\ step \in 0..MaxFiles /\ logged \in Seq(Line) /\ Len(logged) \in Nat /\ from \in Nat
           /\ from <= Len(logged)
<1>1. LinesFit /\ RotationFits /\ FilesFit /\ SomeLayout /\ FollowerFits /\ (~logPlan.racy => FollowIs)
  BY DEF LogFilesIInv
<1>2. step \in 0..MaxFiles
  BY <1>1 DEF RotationFits
<1>3. logged \in Seq(Line)
  BY <1>1 DEF LinesFit
<1>4. from \in 0..Len(logged) /\ Len(logged) \in Nat
  BY <1>1, <1>3 DEF FollowerFits
<1>. QED BY <1>1, <1>2, <1>3, <1>4

\* Of the log file, if it exists.
LEMMA LogFileIs ==
    ASSUME FilesFit, SomeLayout, logged \in Seq(Line), Exists(0)
    PROVE  LET s == files[0].lines
           IN /\ s \in Seq(Line) /\ Len(s) \in Nat /\ Len(s) <= Len(logged)
              /\ Part(s, logged, Base(s, logged), Len(logged))
<1>1. files[0].node # 0 /\ Layout(files, logged, Gapless)
  BY DEF Exists, SomeLayout
<1>. QED BY <1>1, FileEnds

LEMMA ShiftFiles ==
    ASSUME LogFilesIInv, Shift, UNCHANGED logPlan
    PROVE  FilesFit' /\ SomeLayout' /\ files'[0] = files[0] /\ (Gapless => files'[step].node = 0)
<1>0. /\ RotationFits /\ FilesFit /\ SomeLayout /\ logged \in Seq(Line) /\ Layout(files, logged, Gapless)
      /\ nodes' = nodes /\ logged' = logged /\ Gapless' = Gapless
      /\ step \in 1..(MaxFiles - 1) /\ MaxFiles \in Nat /\ MaxFiles >= 2
  BY Facts, Limits DEF Shift, SomeLayout, Gapless
<1>1. files[0].node # 0
  BY <1>0 DEF RotationFits, Exists
<1>2. Layout(files', logged, Gapless) => SomeLayout'
  BY <1>0 DEF SomeLayout
<1>3. 0 # step /\ 0 \in Backups /\ step \in Backups
  BY <1>0, Places DEF Backups
<1>4. CASE step = MaxFiles - 1 /\ files' = [files EXCEPT ![step] = NoFile]
  <2>1. /\ FilesFit' /\ files'[MaxFiles - 1] = NoFile
        /\ \A i \in Backups : i # MaxFiles - 1 => files'[i] = files[i]
    BY <1>0, <1>4, FilesDropped
  <2>. DEFINE h == files'
  <2>. HIDE DEF h
  <2>2. Layout(h, logged, Gapless)
    <3>1. h[MaxFiles - 1] = NoFile /\ \A i \in Backups : i # MaxFiles - 1 => h[i] = files[i]
      BY <2>1 DEF h
    <3>. QED BY <1>0, <1>1, <3>1, LayoutDrops
  <2>. QED BY <1>2, <1>3, <1>4, <2>1, <2>2, NoFileIs DEF h
<1>5. CASE step # MaxFiles - 1 /\ Exists(step) /\ files' = [files EXCEPT ![step + 1] = files[step], ![step] = NoFile]
  <2>0. step \in 0..(MaxFiles - 2) /\ 0 # step + 1 /\ step + 1 \in Backups
    BY <1>0, <1>5, Places
  <2>1. /\ FilesFit' /\ files'[step + 1] = files[step] /\ files'[step] = NoFile
        /\ \A i \in Backups : i # step /\ i # step + 1 => files'[i] = files[i]
    BY <1>0, <1>5, <2>0, FilesShifted
  <2>2. Gapless => files[step + 1].lines = <<>>
    <3>1. Gapless => files[step + 1].node = 0
      BY <1>0, <1>1, <2>0 DEF RotationFits, Exists
    <3>. QED BY <1>0, <2>0, <3>1 DEF FilesFit
  <2>. DEFINE h == files'
  <2>. HIDE DEF h
  <2>3. Layout(h, logged, Gapless)
    <3>1. /\ h[step + 1] = files[step] /\ h[step] = NoFile
          /\ \A i \in Backups : i # step /\ i # step + 1 => h[i] = files[i]
      BY <2>1 DEF h
    <3>2. files[step].node # 0
      BY <1>5 DEF Exists
    <3>. QED BY <1>0, <1>1, <2>0, <2>2, <3>1, <3>2, LayoutMoves
  <2>. QED BY <1>2, <1>3, <2>0, <2>1, <2>3, NoFileIs DEF h
<1>6. CASE files' = files /\ (Gapless => files[step].node = 0)
  <2>1. FilesFit'
    BY <1>0, <1>6 DEF FilesFit, Exists
  <2>. QED BY <1>0, <1>2, <1>6, <2>1
<1>7. \/ step = MaxFiles - 1 /\ files' = [files EXCEPT ![step] = NoFile]
      \/ step # MaxFiles - 1 /\ Exists(step) /\ files' = [files EXCEPT ![step + 1] = files[step], ![step] = NoFile]
      \/ files' = files /\ (Gapless => files[step].node = 0)
  BY DEF Shift, Exists, Gapless
<1>. QED BY <1>4, <1>5, <1>6, <1>7

LEMMA MoveAwayFiles ==
    ASSUME LogFilesIInv, MoveAway, UNCHANGED logPlan
    PROVE  FilesFit' /\ SomeLayout' /\ files'[0].node = 0 /\ files'[0].lines = <<>>
<1>0. /\ RotationFits /\ FilesFit /\ SomeLayout /\ logged \in Seq(Line) /\ Layout(files, logged, Gapless)
      /\ nodes' = nodes /\ logged' = logged /\ Gapless' = Gapless
      /\ step = 0 /\ Exists(0)
  BY Facts DEF MoveAway, SomeLayout, Gapless
<1>1. files[0].node # 0
  BY <1>0 DEF Exists
<1>2. 0 \in 0..(MaxFiles - 2) /\ 0 + 1 = 1 /\ 1 \in Backups
  BY Limits, Places
<1>. DEFINE s == 0
<1>3. files' = [files EXCEPT ![s + 1] = files[s], ![s] = NoFile]
  BY <1>2 DEF MoveAway
<1>. HIDE DEF s
<1>4. s \in 0..(MaxFiles - 2) /\ s + 1 \in Backups /\ step = s
  BY <1>0, <1>2 DEF s
<1>5. /\ FilesFit' /\ files'[s + 1] = files[s] /\ files'[s] = NoFile
      /\ \A i \in Backups : i # s /\ i # s + 1 => files'[i] = files[i]
  BY <1>0, <1>3, <1>4, FilesShifted
<1>6. Gapless => files[s + 1].lines = <<>>
  <2>1. Gapless => files[s + 1].node = 0
    BY <1>0, <1>1, <1>4 DEF RotationFits, Exists
  <2>. QED BY <1>0, <1>4, <2>1 DEF FilesFit
<1>7. Layout(files', logged, Gapless)
  <2>1. files[s].node # 0
    BY <1>1 DEF s
  <2>. QED BY <1>0, <1>1, <1>4, <1>5, <1>6, <2>1, LayoutMoves
<1>8. SomeLayout'
  BY <1>0, <1>7 DEF SomeLayout
<1>. QED BY <1>5, <1>8, NoFileIs DEF s

-----------------------------------------------------------------------------
(* The steps of the writer. *)

LEMMA NoRotation ==
    ASSUME step' = MaxFiles, line' = NoLine
    PROVE  RotationFits'
<1>1. MaxFiles \in 0..MaxFiles /\ MaxFiles \notin 1..(MaxFiles - 1) /\ MaxFiles \notin 0..(MaxFiles - 2)
  BY Limits
<1>. QED BY <1>1 DEF RotationFits

\* The follower does not notice what is added to the log file, or to a new one.
LEMMA FollowAppends ==
    ASSUME LogFilesIInv, ~logPlan.racy, UNCHANGED followerVars, NEW l \in Line, FilesFit', Exists(0)',
           step' = MaxFiles, step = MaxFiles \/ ~Exists(0),
           files'[0].node = Current.node, files'[0].lines = Append(Current.lines, l),
           logged' = Append(logged, l)
    PROVE  FollowIs'
<1>. DEFINE h == files'
            t == logged'
<1>0. FilesFit /\ SomeLayout /\ FollowerFits /\ FollowIs /\ logged \in Seq(Line) /\ from \in Nat /\ from <= Len(logged)
  BY Facts
<1>1. follower' = follower /\ prev' = prev /\ offset' = offset /\ printed' = printed /\ from' = from
  BY DEF followerVars
<1>2. h[0].lines = Append(Current.lines, l) /\ t = Append(logged, l) /\ h[0].node = Current.node /\ h[0].node # 0
  BY DEF Exists
<1>3. CASE Exists(0)
  <2>1. Current = files[0] /\ step = MaxFiles
    BY <1>0, <1>3, CurrentIs
  <2>. DEFINE s == files[0].lines
  <2>2. s \in Seq(Line) /\ Len(s) <= Len(logged)
    BY <1>0, <1>3, LogFileIs
  <2>3. h[0].lines = Append(s, l) /\ h[0].node = files[0].node
    BY <1>2, <2>1
  <2>. HIDE DEF s, h, t
  <2>4. SomePlace => Placed(h[0].lines, t, printed, from, offset)
    BY <1>0, <1>2, <2>2, <2>3, PlaceAppends DEF SomePlace, s
  <2>5. SomePlace => SomePlace'
    BY <1>1, <2>4 DEF SomePlace, h, t
  <2>6. Before(s, logged, printed, from) => Before(h[0].lines, t, printed, from)
    BY <1>0, <1>2, <2>2, <2>3, BeforeAppends
  <2>7. IdleIs => IdleIs'
    BY <1>1, <1>3, <2>3, <2>5, <2>6 DEF IdleIs, Exists, s, h, t
  <2>. QED BY <1>0, <1>1, <1>3, <2>3, <2>5, <2>7 DEF FollowIs, Exists, h
<1>4. CASE ~Exists(0)
  <2>1. Current.node = nodes + 1 /\ Current.lines = <<>> /\ nodes \in Nat
    BY <1>0, <1>4, CurrentIs, FileFacts
  <2>2. h[0].node # prev
    BY <1>0, <1>2, <2>1 DEF FollowerFits
  <2>. HIDE DEF h, t
  <2>3. Part(printed, logged, from, Len(logged)) => Before(h[0].lines, t, printed, from)
    <3>1. h[0].lines = Append(<<>>, l)
      BY <1>2, <2>1
    <3>. QED BY <1>0, <1>2, <3>1, BeforeNew
  <2>4. IdleIs => IdleIs'
    BY <1>1, <1>4, <2>2, <2>3 DEF IdleIs, Exists, h, t
  <2>. QED BY <1>0, <1>1, <1>4, <2>4 DEF FollowIs
<1>. QED BY <1>3, <1>4

LEMMA AppendKeeps ==
    ASSUME LogFilesIInv, UNCHANGED <<logPlan, followerVars>>, NEW l \in Line, AppendTo(Current, l),
           Bytes(Current.lines) = 0 \/ Bytes(Current.lines) + l.size <= MaxBytes,
           \A i \in 1..Len(logged) : logged[i].number < l.number,
           l.number <= lines', lines' \in Nat, lines <= lines',
           step' = MaxFiles, line' = NoLine, step = MaxFiles \/ ~Exists(0)
    PROVE  LogFilesIInv'
<1>0. /\ LinesFit /\ FilesFit /\ SomeLayout /\ FollowerFits /\ logged \in Seq(Line) /\ Len(logged) \in Nat
      /\ from \in Nat /\ from <= Len(logged) /\ Gapless' = Gapless /\ Layout(files, logged, Gapless)
  BY Facts DEF Gapless, SomeLayout
<1>1. /\ FilesFit' /\ Exists(0)' /\ nodes <= nodes' /\ nodes' \in Nat
      /\ files'[0].node = Current.node /\ files'[0].lines = Append(Current.lines, l)
      /\ \A i \in Backups : i # 0 => files'[i] = files[i]
      /\ logged' = Append(logged, l)
  BY <1>0, AppendFiles
<1>2. LinesFit'
  BY <1>0, <1>1, AppendLines
<1>3. RotationFits'
  BY NoRotation
<1>4. SomeLayout'
  <2>. DEFINE h == files'
              s == Current.lines
  <2>1. h[0].node # 0 /\ h[0].lines = Append(s, l) /\ \A i \in Backups : i # 0 => h[i] = files[i]
    BY <1>1 DEF Exists
  <2>2. s \in Seq(Line)
    BY <1>0, CurrentIs
  <2>3. /\ files[0].node # 0 => s = files[0].lines
        /\ files[0].node = 0 => s = <<>> /\ files[0].lines = <<>>
    BY <1>0, CurrentIs DEF Exists
  <2>. HIDE DEF h, s
  <2>4. Layout(h, Append(logged, l), Gapless)
    BY <1>0, <2>1, <2>2, <2>3, LayoutAppends
  <2>. QED BY <1>0, <1>1, <2>4 DEF SomeLayout, h
<1>5. FollowerFits'
  <2>. DEFINE t == logged'
              m == nodes'
  <2>1. Len(t) = Len(logged) + 1
    BY <1>0, <1>1, AppendLine
  <2>2. follower \in {"start", "first", "idle", "read"} /\ prev \in 0..nodes /\ offset \in Nat /\ nodes \in Nat
    BY <1>0 DEF FollowerFits, FilesFit
  <2>3. m \in Nat /\ nodes <= m
    BY <1>1
  <2>. HIDE DEF t, m
  <2>4. prev \in 0..m
    BY <2>2, <2>3
  <2>5. from \in 0..Len(t)
    BY <1>0, <2>1
  <2>. QED BY <2>2, <2>4, <2>5 DEF FollowerFits, followerVars, t, m
<1>6. ~logPlan'.racy => FollowIs'
  BY <1>1, FollowAppends
<1>. QED BY <1>1, <1>2, <1>3, <1>4, <1>5, <1>6 DEF LogFilesIInv

LEMMA WriteKeeps ==
    ASSUME LogFilesIInv, UNCHANGED logPlan, NEW z \in Sizes, Write([number |-> lines + 1, size |-> z])
    PROVE  LogFilesIInv'
<1>. DEFINE l == [number |-> lines + 1, size |-> z]
<1>0. /\ LinesFit /\ RotationFits /\ FilesFit /\ SomeLayout /\ FollowerFits /\ logged \in Seq(Line)
      /\ lines \in Nat /\ (~logPlan.racy => FollowIs)
      /\ \A i \in 1..Len(logged) : logged[i].number <= lines /\ logged[i].number \in Nat
  BY Facts, LinesOf DEF LinesFit
<1>1. l \in Line /\ l.number = lines + 1
  <2>1. lines + 1 \in Nat \ {0} /\ z \in Nat \ {0}
    BY <1>0, SizesAssumption
  <2>. QED BY <2>1, LineIs
<1>2. Write(l)
  OBVIOUS
<1>. HIDE DEF l
<1>. DEFINE size == Bytes(Current.lines)
            over == size > 0 /\ size + l.size > MaxBytes
<1>3. /\ step = MaxFiles /\ lines' = lines + 1
      /\ UNCHANGED followerVars
      /\ over => /\ logPlan.racy \/ follower = "start" \/ CaughtUp
                 /\ step' = MaxFiles - 1 /\ line' = l
                 /\ UNCHANGED <<files, nodes, logged>>
      /\ ~over => AppendTo(Current, l) /\ UNCHANGED <<step, line>>
  BY <1>2 DEF Write, Current
<1>4. lines' \in Nat /\ lines <= lines' /\ l.number <= lines' /\ l.number = lines'
  BY <1>0, <1>1, <1>3
<1>5. \A i \in 1..Len(logged) : logged[i].number < l.number
  BY <1>0, <1>1
<1>6. CASE ~over
  <2>1. size \in Nat /\ l.size \in Nat /\ MaxBytes \in Nat
    BY <1>0, <1>1, CurrentIs, BytesFacts, LineIs, Limits
  <2>2. size = 0 \/ size + l.size <= MaxBytes
    BY <1>6, <2>1
  <2>3. step' = MaxFiles /\ line' = NoLine
    BY <1>0, <1>3, <1>6 DEF RotationFits
  <2>. QED BY <1>1, <1>3, <1>4, <1>5, <1>6, <2>2, <2>3, AppendKeeps
<1>7. CASE over
  <2>0. step' = MaxFiles - 1 /\ line' = l /\ UNCHANGED <<files, nodes, logged>>
    BY <1>3, <1>7
  <2>1. Exists(0)
    <3>1. ~Exists(0) => size = 0
      BY <1>0, CurrentIs, BytesFacts
    <3>. QED BY <1>7, <3>1
  <2>2. LinesFit'
    <3>. DEFINE m == lines'
    <3>1. \A i \in 1..Len(logged) : logged[i].number <= m
      BY <1>0, <1>3
    <3>. QED BY <1>0, <1>4, <2>0, <3>1 DEF LinesFit
  <2>3. RotationFits'
    <3>1. MaxFiles - 1 \in 0..MaxFiles /\ MaxFiles - 1 # MaxFiles /\ MaxFiles - 1 \notin 0..(MaxFiles - 2)
      BY Limits
    <3>. QED BY <1>1, <1>4, <1>5, <2>0, <2>1, <3>1 DEF RotationFits, Exists
  <2>4. FilesFit' /\ SomeLayout' /\ FollowerFits'
    BY <1>0, <1>3, <2>0 DEF FilesFit, SomeLayout, FollowerFits, Exists, Gapless, followerVars
  <2>5. ASSUME ~logPlan.racy PROVE FollowIs'
    <3>1. follower = "start" \/ CaughtUp
      BY <1>3, <1>7, <2>5
    <3>2. follower = "start" => FollowIs'
      BY <1>0, <1>3, <2>5 DEF FollowIs, followerVars
    <3>3. CaughtUp => FollowIs'
      <4>. SUFFICES ASSUME CaughtUp PROVE FollowIs'
        OBVIOUS
      <4>1. follower = "idle" /\ prev = files[0].node /\ offset = Bytes(files[0].lines) /\ IdleIs
        BY <1>0, <2>5 DEF CaughtUp, FollowIs
      <4>2. IdleIs'
        BY <1>3, <2>0, <2>1, <4>1 DEF IdleIs, Exists, SomePlace, followerVars
      <4>. QED BY <1>3, <4>1, <4>2 DEF FollowIs, followerVars
    <3>. QED BY <3>1, <3>2, <3>3
  <2>. QED BY <2>2, <2>3, <2>4, <2>5 DEF LogFilesIInv
<1>. QED BY <1>6, <1>7

LEMMA ReopenKeeps ==
    ASSUME LogFilesIInv, UNCHANGED logPlan, Reopen
    PROVE  LogFilesIInv'
<1>0. /\ LinesFit /\ RotationFits /\ FilesFit /\ lines \in Nat
  BY Facts DEF LinesFit
<1>1. /\ step = 0 /\ ~Exists(0) /\ AppendTo(Created, line) /\ step' = MaxFiles /\ line' = NoLine
      /\ lines' = lines /\ UNCHANGED followerVars
  BY DEF Reopen
<1>2. 0 # MaxFiles
  BY Limits
<1>3. line \in Line /\ line.number <= lines /\ \A i \in 1..Len(logged) : logged[i].number < line.number
  BY <1>0, <1>1, <1>2 DEF RotationFits
<1>4. Current = Created /\ Current.lines = <<>>
  BY <1>1 DEF Current, Created
<1>5. Bytes(Current.lines) = 0
  BY <1>0, <1>4, CurrentIs, BytesFacts
<1>6. lines <= lines
  BY <1>0
<1>. QED BY <1>0, <1>1, <1>3, <1>4, <1>5, <1>6, AppendKeeps

\* A step that leaves the log and the follower alone.
LEMMA Rest ==
    ASSUME LogFilesIInv, UNCHANGED <<nodes, logged, lines, followerVars, logPlan>>
    PROVE  LinesFit' /\ FollowerFits'
<1>1. LinesFit /\ FollowerFits
  BY Facts
<1>. QED BY <1>1 DEF LinesFit, FollowerFits, followerVars

LEMMA ShiftKeeps ==
    ASSUME LogFilesIInv, UNCHANGED logPlan, Shift
    PROVE  LogFilesIInv'
<1>0. /\ RotationFits /\ (~logPlan.racy => FollowIs)
      /\ UNCHANGED <<nodes, line, logged, lines, followerVars>> /\ step' = step - 1
      /\ step \in 1..(MaxFiles - 1) /\ MaxFiles \in Nat /\ Gapless' = Gapless
  BY Facts, Limits DEF Shift, Gapless
<1>1. FilesFit' /\ SomeLayout' /\ files'[0] = files[0] /\ (Gapless => files'[step].node = 0)
  BY ShiftFiles
<1>2. LinesFit' /\ FollowerFits'
  BY <1>0, Rest
<1>3. step # MaxFiles /\ step - 1 # MaxFiles /\ step - 1 \in 0..MaxFiles /\ (step - 1) + 1 = step
  BY <1>0
<1>4. Exists(0) /\ Exists(0)'
  BY <1>0, <1>1 DEF RotationFits, Exists
<1>5. RotationFits'
  <2>1. /\ line \in Line /\ line.number <= lines
        /\ \A i \in 1..Len(logged) : logged[i].number < line.number
    BY <1>0, <1>3 DEF RotationFits
  <2>. DEFINE k == step'
  <2>2. k # MaxFiles /\ k \in 0..MaxFiles /\ k + 1 = step
    BY <1>0, <1>3
  <2>. HIDE DEF k
  <2>3. Gapless => files'[k + 1].node = 0
    BY <1>1, <2>2
  <2>. QED BY <1>0, <1>4, <2>1, <2>2, <2>3 DEF RotationFits, Exists, k
<1>6. ASSUME ~logPlan.racy PROVE FollowIs'
  <2>1. IdleIs => IdleIs'
    BY <1>0, <1>1, <1>3, <1>4 DEF IdleIs, Exists, SomePlace, followerVars
  <2>. QED BY <1>0, <1>3, <1>6, <2>1 DEF FollowIs, followerVars
<1>. QED BY <1>0, <1>1, <1>2, <1>5, <1>6 DEF LogFilesIInv, Shift

LEMMA MoveAwayKeeps ==
    ASSUME LogFilesIInv, UNCHANGED logPlan, MoveAway
    PROVE  LogFilesIInv'
<1>0. /\ RotationFits /\ FilesFit /\ SomeLayout /\ (~logPlan.racy => FollowIs)
      /\ UNCHANGED <<nodes, step, line, logged, lines, followerVars>>
      /\ step = 0 /\ Exists(0) /\ MaxFiles # 0 /\ logged \in Seq(Line) /\ from \in Nat
  BY Facts, Limits DEF MoveAway
<1>1. FilesFit' /\ SomeLayout' /\ files'[0].node = 0
  BY MoveAwayFiles
<1>2. LinesFit' /\ FollowerFits'
  BY <1>0, Rest
<1>3. RotationFits'
  BY <1>0, <1>1 DEF RotationFits, Exists
<1>4. ASSUME ~logPlan.racy PROVE FollowIs'
  <2>. DEFINE s == files[0].lines
  <2>1. s \in Seq(Line) /\ Len(s) <= Len(logged)
    BY <1>0, LogFileIs
  <2>2. ASSUME IdleIs PROVE Part(printed, logged, from, Len(logged))
    <3>1. offset = Bytes(s) /\ Placed(s, logged, printed, from, offset)
      BY <1>0, <2>2 DEF IdleIs, SomePlace
    <3>. HIDE DEF s
    <3>. QED BY <1>0, <2>1, <3>1, PlaceFacts
  <2>3. IdleIs => IdleIs'
    BY <1>0, <1>1, <2>2 DEF IdleIs, Exists, followerVars
  <2>. QED BY <1>0, <1>4, <2>3 DEF FollowIs, followerVars
<1>. QED BY <1>1, <1>2, <1>3, <1>4 DEF LogFilesIInv

LEMMA StopKeeps ==
    ASSUME LogFilesIInv, UNCHANGED logPlan, MoveAwayFails \/ Kill
    PROVE  LogFilesIInv'
<1>0. /\ FilesFit /\ SomeLayout /\ (~logPlan.racy => FollowIs)
      /\ UNCHANGED <<files, nodes, logged, lines, followerVars>>
      /\ step # MaxFiles /\ step' = MaxFiles /\ line' = NoLine
  BY Facts, Limits DEF MoveAwayFails, Kill
<1>1. LinesFit' /\ FollowerFits'
  BY <1>0, Rest
<1>2. RotationFits'
  BY <1>0, NoRotation
<1>3. FilesFit' /\ SomeLayout'
  BY <1>0 DEF FilesFit, SomeLayout, Exists, Gapless
<1>4. ASSUME ~logPlan.racy PROVE FollowIs'
  <2>1. IdleIs => IdleIs'
    BY <1>0 DEF IdleIs, Exists, SomePlace, followerVars
  <2>. QED BY <1>0, <1>4, <2>1 DEF FollowIs, followerVars
<1>. QED BY <1>1, <1>2, <1>3, <1>4 DEF LogFilesIInv

-----------------------------------------------------------------------------
(* The steps of the follower. *)

LEMMA WriterStays ==
    ASSUME LogFilesIInv, UNCHANGED logPlan, UNCHANGED writerVars
    PROVE  LinesFit' /\ RotationFits' /\ FilesFit' /\ SomeLayout'
<1>1. LinesFit /\ RotationFits /\ FilesFit /\ SomeLayout
  BY Facts
<1>2. UNCHANGED <<files, nodes, step, line, logged, lines>>
  BY DEF writerVars
<1>3. LinesFit' /\ FilesFit'
  BY <1>1, <1>2 DEF LinesFit, FilesFit, Exists
<1>4. Gapless' = Gapless
  BY DEF Gapless
<1>5. RotationFits' /\ SomeLayout'
  BY <1>1, <1>2, <1>4 DEF RotationFits, SomeLayout, Exists
<1>. QED BY <1>3, <1>5

LEMMA ReadAllKeeps ==
    ASSUME LogFilesIInv, UNCHANGED logPlan, ReadAll
    PROVE  LogFilesIInv'
<1>. DEFINE s == files[0].lines
<1>0. /\ FilesFit /\ SomeLayout /\ FollowerFits /\ (~logPlan.racy => FollowIs) /\ logged \in Seq(Line) /\ Len(logged) \in Nat
      /\ follower = "start" /\ Exists(0) /\ (logPlan.racy \/ step = MaxFiles)
      /\ offset' = Bytes(s) /\ from' = Len(logged) /\ follower' = "first" /\ UNCHANGED <<prev, printed>>
      /\ UNCHANGED <<files, nodes, step, line, logged, lines>> /\ UNCHANGED writerVars
  BY Facts DEF ReadAll, FollowerSees, writerVars
<1>1. LinesFit' /\ RotationFits' /\ FilesFit' /\ SomeLayout'
  BY <1>0, WriterStays
<1>2. s \in Seq(Line) /\ Len(s) <= Len(logged)
  BY <1>0, LogFileIs
<1>3. FollowerFits'
  <2>1. Bytes(s) \in Nat
    BY <1>2, BytesFacts
  <2>2. Len(logged) \in 0..Len(logged)
    BY <1>0
  <2>. QED BY <1>0, <2>1, <2>2 DEF FollowerFits
<1>4. ASSUME ~logPlan.racy PROVE FollowIs'
  <2>1. printed = <<>> /\ step = MaxFiles
    BY <1>0, <1>4 DEF FollowIs
  <2>2. Placed(s, logged, printed, Len(logged), Bytes(s))
    <3>. HIDE DEF s
    <3>1. Part(printed, logged, Len(logged), Len(logged)) /\ Len(logged) <= Len(logged)
      BY <1>0, <2>1, PartEmpty
    <3>. QED BY <1>0, <1>2, <3>1, PlaceOfEnd
  <2>3. SomePlace'
    BY <1>0, <2>2 DEF SomePlace
  <2>. QED BY <1>0, <2>1, <2>3 DEF FollowIs, Exists
<1>. QED BY <1>1, <1>3, <1>4 DEF LogFilesIInv

LEMMA FirstStatKeeps ==
    ASSUME LogFilesIInv, UNCHANGED logPlan, FirstStat
    PROVE  LogFilesIInv'
<1>0. /\ FilesFit /\ FollowerFits /\ (~logPlan.racy => FollowIs)
      /\ follower = "first" /\ prev' = files[0].node /\ follower' = "idle" /\ UNCHANGED <<offset, printed, from>>
      /\ UNCHANGED <<files, nodes, step, line, logged, lines>> /\ UNCHANGED writerVars
  BY Facts DEF FirstStat, FollowerSees, writerVars
<1>1. LinesFit' /\ RotationFits' /\ FilesFit' /\ SomeLayout'
  BY <1>0, WriterStays
<1>2. files[0].node \in 0..nodes
  BY <1>0, FileFacts DEF FilesFit
<1>3. FollowerFits'
  BY <1>0, <1>2 DEF FollowerFits
<1>4. ASSUME ~logPlan.racy PROVE FollowIs'
  <2>1. step = MaxFiles /\ Exists(0) /\ SomePlace
    BY <1>0, <1>4 DEF FollowIs
  <2>2. IdleIs'
    BY <1>0, <2>1 DEF IdleIs, SomePlace, Exists
  <2>. QED BY <1>0, <2>2 DEF FollowIs
<1>. QED BY <1>1, <1>3, <1>4 DEF LogFilesIInv

LEMMA StatKeeps ==
    ASSUME LogFilesIInv, UNCHANGED logPlan, Stat
    PROVE  LogFilesIInv'
<1>. DEFINE s == files[0].lines
            o == offset'
<1>0. /\ FilesFit /\ SomeLayout /\ FollowerFits /\ (~logPlan.racy => FollowIs) /\ logged \in Seq(Line) /\ from \in Nat
      /\ follower = "idle" /\ Exists(0)
      /\ o = (IF (prev # 0 /\ prev # files[0].node) \/ Bytes(s) < offset THEN 0 ELSE offset)
      /\ prev' = files[0].node
      /\ follower' = (IF Bytes(s) = o THEN "idle" ELSE "read")
      /\ UNCHANGED <<printed, from>>
      /\ UNCHANGED <<files, nodes, step, line, logged, lines>> /\ UNCHANGED writerVars
  BY Facts DEF Stat, FollowerSees, writerVars
<1>1. LinesFit' /\ RotationFits' /\ FilesFit' /\ SomeLayout'
  BY <1>0, WriterStays
<1>2. files[0].node \in 0..nodes
  BY <1>0, FileFacts DEF FilesFit
<1>3. FollowerFits'
  <2>1. o \in Nat
    BY <1>0 DEF FollowerFits
  <2>. QED BY <1>0, <1>2, <2>1 DEF FollowerFits
<1>4. s \in Seq(Line) /\ Len(s) <= Len(logged)
  BY <1>0, LogFileIs
<1>5. ASSUME ~logPlan.racy PROVE FollowIs'
  <2>. HIDE DEF s, o
  <2>0. IdleIs
    BY <1>0, <1>5 DEF FollowIs
  <2>1. Placed(s, logged, printed, from, o) /\ (step # MaxFiles => o = Bytes(s))
    <3>1. CASE prev = files[0].node
      <4>1. Placed(s, logged, printed, from, offset) /\ (step # MaxFiles => offset = Bytes(s))
        BY <1>0, <2>0, <3>1 DEF IdleIs, SomePlace, s
      <4>2. offset \in Nat /\ offset <= Bytes(s) /\ Bytes(s) \in Nat
        BY <1>0, <1>4, <4>1, PlaceFacts
      <4>3. ~(Bytes(s) < offset)
        BY <4>2
      <4>4. o = offset
        BY <1>0, <3>1, <4>3
      <4>. QED BY <4>1, <4>4
    <3>2. CASE prev # files[0].node
      <4>1. Before(s, logged, printed, from) /\ step = MaxFiles /\ prev # 0
        BY <1>0, <2>0, <3>2 DEF IdleIs, s
      <4>2. o = 0
        BY <1>0, <3>2, <4>1
      <4>. QED BY <1>0, <1>4, <4>1, <4>2, PlaceOfBegin
    <3>. QED BY <3>1, <3>2
  <2>2. SomePlace'
    BY <1>0, <2>1 DEF SomePlace, s, o
  <2>3. Exists(0)' /\ prev' = files'[0].node /\ prev' # 0 /\ (step' # MaxFiles => o = Bytes(s)) /\ s = files'[0].lines
    BY <1>0, <2>1 DEF Exists, s
  <2>4. IdleIs'
    BY <2>2, <2>3 DEF IdleIs, o
  <2>5. follower' = "read" => step' = MaxFiles
    BY <1>0, <2>1
  <2>6. follower' \in {"idle", "read"}
    BY <1>0
  <2>. QED BY <2>2, <2>3, <2>4, <2>5, <2>6 DEF FollowIs
<1>. QED BY <1>1, <1>3, <1>5 DEF LogFilesIInv

LEMMA ReadKeeps ==
    ASSUME LogFilesIInv, UNCHANGED logPlan, Read
    PROVE  LogFilesIInv'
<1>. DEFINE s == files[0].lines
<1>0. /\ FilesFit /\ SomeLayout /\ FollowerFits /\ (~logPlan.racy => FollowIs) /\ logged \in Seq(Line) /\ from \in Nat
      /\ follower = "read" /\ follower' = "idle"
      /\ Exists(0) => /\ printed' = printed \o FromByte(s, offset)
                      /\ offset' = IF offset > Bytes(s) THEN offset ELSE Bytes(s)
      /\ ~Exists(0) => UNCHANGED <<printed, offset>>
      /\ UNCHANGED <<prev, from>>
      /\ UNCHANGED <<files, nodes, step, line, logged, lines>> /\ UNCHANGED writerVars
  BY Facts DEF Read, FollowerSees, writerVars
<1>1. LinesFit' /\ RotationFits' /\ FilesFit' /\ SomeLayout'
  BY <1>0, WriterStays
<1>2. s \in Seq(Line)
  BY <1>0, FileFacts
<1>3. FollowerFits'
  <2>1. offset \in Nat /\ Bytes(s) \in Nat
    BY <1>0, <1>2, BytesFacts DEF FollowerFits
  <2>2. offset' \in Nat
    BY <1>0, <2>1
  <2>. QED BY <1>0, <2>2 DEF FollowerFits
<1>4. ASSUME ~logPlan.racy PROVE FollowIs'
  <2>1. step = MaxFiles /\ Exists(0) /\ Placed(s, logged, printed, from, offset) /\ prev = files[0].node
    BY <1>0, <1>4 DEF FollowIs, SomePlace
  <2>2. Len(s) <= Len(logged) /\ Part(s, logged, Base(s, logged), Len(logged))
    BY <1>0, <2>1, LogFileIs
  <2>. HIDE DEF s
  <2>3. Placed(s, logged, printed \o FromByte(s, offset), from, Bytes(s))
    BY <1>0, <1>2, <2>1, <2>2, PlaceReads
  <2>4. offset \in Nat /\ offset <= Bytes(s) /\ Bytes(s) \in Nat
    BY <1>0, <1>2, <2>1, <2>2, PlaceFacts
  <2>5. ~(offset > Bytes(s))
    BY <2>4
  <2>6. offset' = Bytes(s) /\ printed' = printed \o FromByte(s, offset)
    BY <1>0, <2>1, <2>5
  <2>7. SomePlace'
    BY <1>0, <2>3, <2>6 DEF SomePlace, s
  <2>8. IdleIs'
    BY <1>0, <2>1, <2>7 DEF IdleIs, Exists
  <2>. QED BY <1>0, <2>8 DEF FollowIs
<1>. QED BY <1>1, <1>3, <1>4 DEF LogFilesIInv

-----------------------------------------------------------------------------
(* All of them. *)

LEMMA LogFilesStart == LogFilesInit => LogFilesIInv
<1>. SUFFICES ASSUME LogFilesInit PROVE LogFilesIInv
  OBVIOUS
<1>0. /\ files = [i \in Backups |-> NoFile] /\ nodes = 0 /\ step = MaxFiles /\ line = NoLine /\ logged = <<>> /\ lines = 0
      /\ follower = "start" /\ prev = 0 /\ offset = 0 /\ printed = <<>> /\ from = 0
  BY DEF LogFilesInit, Backups
<1>. DEFINE e == <<>>
<1>1. e \in Seq(Line) /\ Len(e) = 0 /\ logged = e
  BY <1>0
<1>2. files \in [Backups -> File] /\ \A i \in Backups : files[i] = NoFile
  BY <1>0, NoFileIs
<1>3. NoFile.node = 0 /\ NoFile.lines = e
  BY NoFileIs
<1>. HIDE DEF e
<1>4. LinesFit
  BY <1>0, <1>1 DEF LinesFit
<1>5. RotationFits
  <2>1. MaxFiles \in 0..MaxFiles /\ MaxFiles \notin 1..(MaxFiles - 1) /\ MaxFiles \notin 0..(MaxFiles - 2)
    BY Limits
  <2>. QED BY <1>0, <2>1 DEF RotationFits
<1>6. FilesFit
  <2>1. 0 \in Nat /\ 0 <= 0 /\ e = <<>>
    BY DEF e
  <2>2. Len(e) <= 1
    BY <1>1
  <2>. QED BY <1>0, <1>2, <1>3, <2>1, <2>2 DEF FilesFit, Exists
<1>7. SomeLayout
  <2>. DEFINE a == [i \in Backups |-> 0]
  <2>1. a \in [Backups -> Nat] /\ \A i \in Backups : a[i] = 0
    OBVIOUS
  <2>2. Part(e, e, 0, 0)
    BY PartEmpty DEF e
  <2>. HIDE DEF a
  <2>3. /\ 0 \in Backups /\ 1 \in Backups
        /\ \A i \in 0..(MaxFiles - 2) : i \in Backups /\ i + 1 \in Backups
    BY Places
  <2>4. \A i \in Backups : a[i] <= a[i] /\ a[i] <= Len(e) /\ Part(files[i].lines, e, a[i], a[i])
    BY <1>1, <1>2, <1>3, <2>1, <2>2
  <2>5. \A i, j \in Backups : j < i => a[i] <= a[j]
    BY <2>1
  <2>6. e = <<>>
    BY DEF e
  <2>7. a[0] = Len(e) /\ a[1] = Len(e) /\ \A i \in 0..(MaxFiles - 2) : a[i] = a[i + 1]
    BY <1>1, <2>1, <2>3
  <2>8. Layout(files, e, Gapless)
    BY <2>1, <2>4, <2>5, <2>6, <2>7, LaidOutIs
  <2>. QED BY <1>1, <2>8 DEF SomeLayout
<1>8. FollowerFits
  BY <1>0, <1>1 DEF FollowerFits
<1>9. FollowIs
  BY <1>0 DEF FollowIs
<1>. QED BY <1>4, <1>5, <1>6, <1>7, <1>8, <1>9 DEF LogFilesIInv

LEMMA LogFilesStep == LogFilesIInv /\ [LogFilesNext /\ UNCHANGED logPlan]_<<logFilesVars, logPlan>> => LogFilesIInv'
<1>. SUFFICES ASSUME LogFilesIInv, [LogFilesNext /\ UNCHANGED logPlan]_<<logFilesVars, logPlan>> PROVE LogFilesIInv'
  OBVIOUS
<1>1. CASE UNCHANGED <<logFilesVars, logPlan>>
  <2>1. UNCHANGED writerVars /\ UNCHANGED logPlan /\ UNCHANGED followerVars
    BY <1>1 DEF logFilesVars
  <2>2. LinesFit' /\ RotationFits' /\ FilesFit' /\ SomeLayout'
    BY <2>1, WriterStays
  <2>3. UNCHANGED <<files, nodes, step, line, logged, lines>> /\ UNCHANGED <<follower, prev, offset, printed, from>>
    BY <2>1 DEF writerVars, followerVars
  <2>4. FollowerFits /\ (~logPlan.racy => FollowIs)
    BY Facts
  <2>5. FollowerFits'
    BY <2>3, <2>4 DEF FollowerFits
  <2>6. IdleIs => IdleIs'
    BY <2>3 DEF IdleIs, SomePlace, Exists
  <2>7. ~logPlan.racy => FollowIs'
    BY <2>3, <2>4, <2>6 DEF FollowIs, SomePlace, Exists
  <2>. QED BY <2>1, <2>2, <2>5, <2>7 DEF LogFilesIInv
<1>2. CASE LogFilesNext /\ UNCHANGED logPlan
  BY <1>2, WriteKeeps, ShiftKeeps, MoveAwayKeeps, StopKeeps, ReopenKeeps, ReadAllKeeps, FirstStatKeeps, StatKeeps,
     ReadKeeps DEF LogFilesNext
<1>. QED BY <1>1, <1>2

-----------------------------------------------------------------------------
(* What follows. *)

\* Where the lines of the files are in what was logged.
LEMMA LayoutReads ==
    ASSUME LogFilesIInv
    PROVE  \E a, b \in [Backups -> Nat] :
             /\ \A i \in Backups : a[i] <= b[i] /\ b[i] <= Len(logged) /\ Len(files[i].lines) = b[i] - a[i]
             /\ \A i \in Backups : \A k \in 1..Len(files[i].lines) :
                  files[i].lines[k] = logged[a[i] + k] /\ a[i] + k \in 1..Len(logged) /\ a[i] + k <= b[i]
             /\ \A i, j \in Backups : j < i => b[i] <= a[j]
             /\ Exists(0) => b[0] = Len(logged)
             /\ ~Exists(0) => b[1] = Len(logged) /\ (logged # <<>> => Exists(1))
             /\ Gapless => b[0] = Len(logged) /\ \A i \in 0..(MaxFiles - 2) : a[i] = b[i + 1]
<1>0. Layout(files, logged, Gapless) /\ logged \in Seq(Line) /\ Len(logged) \in Nat
  BY Facts DEF SomeLayout
<1>1. PICK a \in [Backups -> Nat], b \in [Backups -> Nat] : LaidOut(files, logged, Gapless, a, b)
  BY <1>0 DEF Layout
<1>. DEFINE n == Len(logged)
<1>2. /\ \A i \in Backups : a[i] <= b[i] /\ b[i] <= n /\ Part(files[i].lines, logged, a[i], b[i])
      /\ \A i, j \in Backups : j < i => b[i] <= a[j]
      /\ Exists(0) => b[0] = n
      /\ ~Exists(0) => b[1] = n /\ (logged # <<>> => Exists(1))
      /\ Gapless => b[0] = n /\ \A i \in 0..(MaxFiles - 2) : a[i] = b[i + 1]
  BY <1>1 DEF LaidOut, Exists
<1>3. n \in Nat
  BY <1>0
<1>. HIDE DEF n, Backups
<1>4. ASSUME NEW i \in Backups
      PROVE  /\ Len(files[i].lines) = b[i] - a[i]
             /\ \A k \in 1..Len(files[i].lines) :
                  files[i].lines[k] = logged[a[i] + k] /\ a[i] + k \in 1..n /\ a[i] + k <= b[i]
  <2>. DEFINE s == files[i].lines
              u == a[i]
              v == b[i]
  <2>1. u \in Nat /\ v \in Nat /\ u <= v /\ v <= n
    BY <1>2
  <2>2. Len(s) = v - u /\ \A k \in 1..(v - u) : s[k] = logged[u + k]
    BY <1>2 DEF Part
  <2>. HIDE DEF s, u, v
  <2>3. \A k \in 1..Len(s) : s[k] = logged[u + k] /\ u + k \in 1..n /\ u + k <= v
    BY <1>3, <2>1, <2>2
  <2>. QED BY <2>2, <2>3 DEF s, u, v
<1>. QED BY <1>2, <1>4 DEF n

LEMMA LogFilesTypes == LogFilesIInv => LogFilesTypeOK
<1>. SUFFICES ASSUME LogFilesIInv PROVE LogFilesTypeOK
  OBVIOUS
<1>1. RotationFits /\ FilesFit /\ FollowerFits /\ step \in 0..MaxFiles
  BY Facts
<1>2. DOMAIN files = Backups /\ nodes \in Nat /\ \A i \in Backups : files[i].node \in 0..nodes
  BY <1>1, FileFacts DEF FilesFit
<1>3. line = NoLine <=> step = MaxFiles
  BY <1>1, LineIs DEF RotationFits
<1>. QED BY <1>1, <1>2, <1>3 DEF LogFilesTypeOK, FilesFit, FollowerFits

LEMMA LogFilesOrdered == LogFilesIInv => KeptInOrder
<1>. SUFFICES ASSUME LogFilesIInv PROVE KeptInOrder
  OBVIOUS
<1>0. /\ FilesFit /\ logged \in Seq(Line) /\ Len(logged) \in Nat /\ DOMAIN files = Backups
      /\ 0 \in Backups /\ 1 \in Backups
      /\ \A i, j \in 1..Len(logged) : i < j => logged[i].number < logged[j].number
  BY Facts, FileFacts DEF LinesFit
<1>1. \A i \in Backups : i \in Nat /\ files[i].lines \in Seq(Line)
  BY <1>0, FileFacts, Places
<1>2. \A i \in Backups : DOMAIN files[i].lines = 1..Len(files[i].lines) /\ Len(files[i].lines) \in Nat
  BY <1>1, LinesOf
<1>3. PICK a \in [Backups -> Nat], b \in [Backups -> Nat] :
             /\ \A i \in Backups : a[i] <= b[i] /\ b[i] <= Len(logged) /\ Len(files[i].lines) = b[i] - a[i]
             /\ \A i \in Backups : \A k \in 1..Len(files[i].lines) :
                  files[i].lines[k] = logged[a[i] + k] /\ a[i] + k \in 1..Len(logged) /\ a[i] + k <= b[i]
             /\ \A i, j \in Backups : j < i => b[i] <= a[j]
             /\ Exists(0) => b[0] = Len(logged)
             /\ ~Exists(0) => b[1] = Len(logged) /\ (logged # <<>> => Exists(1))
             /\ Gapless => b[0] = Len(logged) /\ \A i \in 0..(MaxFiles - 2) : a[i] = b[i + 1]
  BY LayoutReads
<1>. HIDE DEF Backups
<1>4. \A i \in Backups : a[i] \in Nat /\ b[i] \in Nat
  OBVIOUS
<1>5. ASSUME NEW i \in Backups, NEW p \in 1..Len(files[i].lines) PROVE Contains(logged, files[i].lines[p])
  BY <1>3 DEF Contains
<1>6. ASSUME NEW i \in Backups, NEW j \in Backups,
             NEW p \in 1..Len(files[i].lines), NEW q \in 1..Len(files[j].lines), i > j \/ (i = j /\ p < q)
      PROVE  files[i].lines[p].number < files[j].lines[q].number
  <2>. DEFINE x == a[i] + p
              y == a[j] + q
  <2>1. /\ files[i].lines[p] = logged[x] /\ x \in 1..Len(logged) /\ x <= b[i]
        /\ files[j].lines[q] = logged[y] /\ y \in 1..Len(logged)
    BY <1>3
  <2>2. a[i] \in Nat /\ a[j] \in Nat /\ b[i] \in Nat /\ p \in Nat /\ q \in Nat /\ q >= 1 /\ i \in Nat /\ j \in Nat
    BY <1>1, <1>2, <1>4
  <2>3. CASE i = j /\ p < q
    <3>1. x < y
      BY <2>2, <2>3
    <3>. HIDE DEF x, y
    <3>. QED BY <1>0, <2>1, <3>1
  <2>4. CASE i > j
    <3>1. b[i] <= a[j]
      BY <1>3, <2>2, <2>4
    <3>2. x < y
      BY <2>1, <2>2, <3>1
    <3>. HIDE DEF x, y
    <3>. QED BY <1>0, <2>1, <3>2
  <2>. QED BY <1>6, <2>3, <2>4
<1>7. logged # <<>> => \E i \in Backups : files[i].lines # <<>> /\ Last(files[i].lines) = Last(logged)
  <2>. SUFFICES ASSUME logged # <<>> PROVE \E i \in Backups : files[i].lines # <<>> /\ Last(files[i].lines) = Last(logged)
    OBVIOUS
  <2>1. PICK i \in Backups : Exists(i) /\ b[i] = Len(logged)
    BY <1>0, <1>3
  <2>. DEFINE s == files[i].lines
              k == Len(s)
  <2>2. s # <<>> /\ s \in Seq(Line)
    BY <1>0, <1>1, <2>1 DEF FilesFit, Exists
  <2>3. k \in Nat /\ k \in 1..k /\ k = b[i] - a[i]
    BY <1>3, <2>2
  <2>4. s[k] = logged[a[i] + k]
    BY <1>3, <2>3
  <2>. HIDE DEF k
  <2>5. a[i] + k = Len(logged)
    BY <1>4, <2>1, <2>3
  <2>6. Last(s) = Last(logged)
    BY <2>4, <2>5 DEF Last, k
  <2>. QED BY <2>2, <2>6
<1>. QED
  BY <1>0, <1>2, <1>5, <1>6, <1>7 DEF KeptInOrder, FilesFit

LEMMA Between ==
    ASSUME NEW u \in Nat, NEW v \in Nat, NEW j \in Nat, u < j, j <= v
    PROVE  j - u \in 1..(v - u) /\ u + (j - u) = j
OBVIOUS

LEMMA LogFilesNewest == LogFilesIInv => NewestKept
<1>. SUFFICES ASSUME LogFilesIInv, Gapless, NEW i \in DOMAIN logged, NEW j \in DOMAIN logged, i <= j, Kept(logged[i])
              PROVE  Kept(logged[j])
  BY DEF NewestKept, Gapless
<1>0. /\ FilesFit /\ logged \in Seq(Line) /\ Len(logged) \in Nat /\ DOMAIN files = Backups
      /\ 0 \in Backups /\ DOMAIN logged = 1..Len(logged)
      /\ \A x, y \in 1..Len(logged) : x < y => logged[x].number < logged[y].number
      /\ \A x \in 1..Len(logged) : logged[x].number \in Nat
  BY Facts, FileFacts, LinesOf DEF LinesFit
<1>1. \A x \in Backups : x \in Nat
  BY Places
<1>3. PICK a \in [Backups -> Nat], b \in [Backups -> Nat] :
             /\ \A f \in Backups : a[f] <= b[f] /\ b[f] <= Len(logged) /\ Len(files[f].lines) = b[f] - a[f]
             /\ \A f \in Backups : \A k \in 1..Len(files[f].lines) :
                  files[f].lines[k] = logged[a[f] + k] /\ a[f] + k \in 1..Len(logged) /\ a[f] + k <= b[f]
             /\ \A f, g \in Backups : g < f => b[f] <= a[g]
             /\ Exists(0) => b[0] = Len(logged)
             /\ ~Exists(0) => b[1] = Len(logged) /\ (logged # <<>> => Exists(1))
             /\ Gapless => b[0] = Len(logged) /\ \A f \in 0..(MaxFiles - 2) : a[f] = b[f + 1]
  BY LayoutReads
<1>4. \A f \in Backups : a[f] \in Nat /\ b[f] \in Nat
  OBVIOUS
<1>5. PICK f \in Backups : Contains(files[f].lines, logged[i])
  BY <1>0 DEF Kept
<1>6. PICK p \in 1..Len(files[f].lines) : files[f].lines[p] = logged[i]
  BY <1>5 DEF Contains
<1>7. i = a[f] + p
  <2>. DEFINE x == a[f] + p
  <2>1. logged[x] = logged[i] /\ x \in 1..Len(logged) /\ i \in 1..Len(logged)
    BY <1>0, <1>3, <1>6
  <2>. HIDE DEF x
  <2>2. ~(x < i) /\ ~(i < x)
    BY <1>0, <2>1
  <2>3. x = i
    BY <2>1, <2>2
  <2>. QED BY <2>3 DEF x
<1>8. a[f] < j
  <2>1. a[f] \in Nat /\ p \in Nat /\ p >= 1 /\ j \in Nat
    BY <1>0, <1>3, <1>4
  <2>. QED BY <1>7, <2>1
<1>. DEFINE Found == \E x \in Backups : a[x] < j /\ j <= b[x]
            S == {k \in Backups : a[k] < j => Found}
<1>9. Found
  <2>0. j \in Nat /\ j <= Len(logged) /\ MaxFiles - 1 \in Nat /\ Backups = 0..(MaxFiles - 1)
    BY <1>0, Limits DEF Backups
  <2>1. 0 \in S
    <3>1. b[0] = Len(logged)
      BY <1>3
    <3>. QED BY <1>0, <2>0, <3>1
  <2>2. ASSUME NEW k \in 1..(MaxFiles - 1), k - 1 \in S PROVE k \in S
    <3>. SUFFICES ASSUME a[k] < j PROVE Found
      BY <2>0
    <3>1. k \in Backups /\ k - 1 \in Backups /\ k - 1 \in 0..(MaxFiles - 2) /\ (k - 1) + 1 = k
      BY ONLY <2>0, k \in 1..(MaxFiles - 1), Limits
    <3>2. a[k - 1] = b[k]
      BY <1>3, <3>1
    <3>3. CASE j <= b[k]
      BY <3>1, <3>3
    <3>4. CASE ~(j <= b[k])
      <4>1. a[k - 1] < j
        BY <1>4, <2>0, <3>1, <3>2, <3>4
      <4>. QED BY <2>2, <4>1
    <3>. QED BY <3>3, <3>4
  <2>. HIDE DEF S
  <2>3. \A k \in 0..(MaxFiles - 1) : k \in S
    BY <2>0, <2>1, <2>2, Climb
  <2>4. f \in S
    BY <2>0, <2>3
  <2>. QED BY <1>8, <2>4 DEF S
<1>10. PICK x \in Backups : a[x] < j /\ j <= b[x]
  BY <1>9
<1>. DEFINE k == j - a[x]
<1>11. k \in 1..Len(files[x].lines) /\ a[x] + k = j
  <2>. DEFINE u == a[x]
              v == b[x]
              n == Len(files[x].lines)
  <2>1. u \in Nat /\ v \in Nat /\ j \in Nat /\ n = v - u /\ u < j /\ j <= v /\ k = j - u
    BY <1>0, <1>3, <1>4, <1>10
  <2>. HIDE DEF u, v, n, k
  <2>2. j - u \in 1..(v - u) /\ u + (j - u) = j
    BY <2>1, Between
  <2>3. k \in 1..n /\ u + k = j
    BY <2>1, <2>2
  <2>. QED BY <2>3 DEF u, n
<1>. HIDE DEF k
<1>12. files[x].lines[k] = logged[j]
  BY <1>3, <1>11
<1>. QED BY <1>0, <1>11, <1>12 DEF Kept, Contains

LEMMA LogFilesFollowed == LogFilesIInv => FollowsAll
<1>. SUFFICES ASSUME LogFilesIInv, ~logPlan.racy, CaughtUp
              PROVE  printed = SubSeq(logged, from + 1, Len(logged))
  BY DEF FollowsAll
<1>. DEFINE s == files[0].lines
<1>1. /\ FilesFit /\ SomeLayout /\ FollowIs /\ logged \in Seq(Line) /\ from \in Nat /\ Len(logged) \in Nat
      /\ from <= Len(logged)
  BY Facts
<1>2. prev = files[0].node /\ offset = Bytes(s) /\ IdleIs
  BY <1>1 DEF CaughtUp, FollowIs
<1>3. Exists(0) /\ Placed(s, logged, printed, from, offset)
  BY <1>2 DEF IdleIs, SomePlace, Exists
<1>4. s \in Seq(Line) /\ Len(s) <= Len(logged)
  BY <1>1, <1>3, LogFileIs
<1>. HIDE DEF s
<1>5. Part(printed, logged, from, Len(logged))
  BY <1>1, <1>2, <1>3, <1>4, PlaceFacts
<1>6. from \in 0..Len(logged)
  BY <1>1
<1>. QED BY <1>1, <1>5, <1>6, PartIs

\* Whatever the sizes of the lines, the limits, and the renames that fail or
\* are cut off, the files hold the newest lines in order, without a hole if no
\* rename fails, and a follower that no rotation overtakes prints every line
\* (RotatingWriter, followFile).
THEOREM LogFilesKept == LogFilesSpec => []LogFilesInv
<1>1. LogFilesIInv => LogFilesInv
  BY LogFilesTypes, LogFilesOrdered, LogFilesNewest, LogFilesFollowed DEF LogFilesInv
<1>. QED BY <1>1, LogFilesStart, LogFilesStep, PTL DEF LogFilesSpec
=============================================================================
