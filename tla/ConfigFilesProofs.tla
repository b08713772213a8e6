------------------------- MODULE ConfigFilesProofs -------------------------
(***************************************************************************)
(* The files of the configuration manager, for any number of               *)
(* configurations, changes, crashes and faults:                            *)
(*   Typing              every variable keeps its type;                    *)
(*   SavedSurvives       a save without a fault is what a restart loads;   *)
(*   FinalSaveIsComplete nothing indicated is lost at the end;             *)
(*   BackupIsThere       the backup covers a save under way;               *)
(*   NothingStaleIsLoaded old files never come back.                       *)
(*                                                                         *)
(* Each rests on an inductive invariant: FilesInv follows one save through *)
(* its steps, FlagInv says who still has to save what was indicated,       *)
(* CoverInv where the last saved version is at each step, and AgeInv how   *)
(* old each file can be at most.                                           *)
(***************************************************************************)
EXTENDS ConfigFiles, TLAPS


-----------------------------------------------------------------------------
(* Types *)

\* The ranges of versions and bounds.
LEMMA Ranges ==
    /\ MaxVersion \in Nat /\ MaxCrashes \in Nat /\ MaxFaults \in Nat /\ MaxFull \in Nat
    /\ Empty \in Version /\ 0 \in Version
    /\ 0 \in 0 .. MaxCrashes /\ 0 \in 0 .. MaxFaults /\ 0 \in 0 .. MaxFull
  BY BoundsAssumption DEF Version, Empty

\* The constructors of the manager and of the configurations.
LEMMA InitType == Init => TypeOK
  BY Ranges DEF Init, TypeOK, None

\* loadConfig() yields a version, whatever is in the files.
LEMMA LoadedVersion ==
    ASSUME NEW f \in [Name -> Version \cup {Missing, Damaged}]
    PROVE  Loaded(f) \in Version
  BY BoundsAssumption DEF Loaded, LoadAttempt, HashOf, Version, Empty

\* Services and threads outside saveConfig().
LEMMA ThreadsType ==
    ASSUME TypeOK,
           \/ \E c \in Config : Change(c) \/ IndicateConfigChanged(c)
           \/ TickScan \/ TickSave \/ CompleteConfiguration
           \/ FinalSave \/ DisableSaving
    PROVE  TypeOK'
<1> USE Ranges, ConfigAssumption
        DEF service, walk, manager, ledger, bounds
<1>1. ASSUME NEW c \in Config, Change(c)
      PROVE  TypeOK'
  BY <1>1 DEF Change, TypeOK, Version
<1>2. ASSUME NEW c \in Config, IndicateConfigChanged(c)
      PROVE  TypeOK'
  BY <1>2 DEF IndicateConfigChanged, TypeOK
<1>3. CASE TickScan
  BY <1>3 DEF TickScan, Consumed, TypeOK
<1>4. CASE TickSave
  <2>1. CASE Enter("tick") /\ UNCHANGED <<tick, full>>
    BY <1>4, <2>1 DEF TickSave, Enter, TypeOK, None
  <2>2. CASE DiscFull /\ tick' = FALSE /\ UNCHANGED walk
    <3>1. full' \in 0 .. MaxFull
      BY <2>2 DEF DiscFull, TypeOK
    <3> QED BY <1>4, <2>2, <3>1 DEF TickSave, TypeOK
  <2> QED BY <1>4, <2>1, <2>2 DEF TickSave
<1>5. CASE CompleteConfiguration
  BY <1>5 DEF CompleteConfiguration, DiscFull, TypeOK
<1>6. CASE FinalSave
  BY <1>6 DEF FinalSave, Enter, TypeOK, None
<1>7. CASE DisableSaving
  BY <1>7 DEF DisableSaving, TypeOK
<1> QED BY <1>1, <1>2, <1>3, <1>4, <1>5, <1>6, <1>7

\* A file operation of a save: what remains to be shown is the type of what it
\* writes.
LEMMA StepType ==
    ASSUME TypeOK, NEW s, At(s), NEW t \in Steps, Goto(t), Fault \/ NoFault,
           file' \in [Config -> [Name -> Version \cup {Missing, Damaged}]],
           snap' \in Version, hash' \in Version,
           UNCHANGED <<service, manager, ledger, crashes, full>>
    PROVE  TypeOK'
<1>1. faults' \in 0 .. MaxFaults /\ faulty' \in BOOLEAN
  <2>1. faults \in 0 .. MaxFaults /\ faulty \in BOOLEAN
    BY DEF TypeOK
  <2>2. CASE Fault
    BY <2>1, <2>2, Ranges DEF Fault
  <2>3. CASE NoFault
    BY <2>1, <2>3 DEF NoFault
  <2> QED BY <2>2, <2>3
<1>2. step' # None /\ step' \in Steps /\ cur' # None /\ holder' # None
  BY DEF At, Goto, Steps, None
<1>3. UNCHANGED <<holder, todo, cur>>
  BY DEF Goto
<1> QED BY <1>1, <1>2, <1>3 DEF TypeOK, service, manager, ledger

\* A rename keeps the types.
LEMMA RenameType ==
    ASSUME TypeOK, NEW s \in Steps, NEW from \in Name, NEW to \in Name,
           NEW next \in Steps, NEW after \in Steps,
           Rename(s, from, to, next, after)
    PROVE  TypeOK'
<1>1. cur \in Config
  BY DEF Rename, At, TypeOK
<1>2. file' \in [Config -> [Name -> Version \cup {Missing, Damaged}]]
  <2>1. Renamed(file[cur], from, to) \in [Name -> Version \cup {Missing, Damaged}]
    BY <1>1 DEF Renamed, TypeOK
  <2> QED BY <1>1, <2>1 DEF Rename, TypeOK
<1>3. snap' \in Version /\ hash' \in Version
  BY DEF Rename, TypeOK
<1> QED BY <1>2, <1>3, StepType DEF Rename

\* The steps of saveConfig().
LEMMA SavingType == ASSUME TypeOK, Saving PROVE TypeOK'
<1> USE Ranges, ConfigAssumption
        DEF service, walk, manager, ledger, bounds
<1>1. ASSUME NEW c \in Config, LookAt(c)
      PROVE  TypeOK'
  BY <1>1 DEF LookAt, Consumed, TypeOK, Steps, None
<1>2. CASE Leave
  BY <1>2 DEF Leave, TypeOK, None
<1>3. CASE SaveList
  BY <1>3 DEF SaveList, At, Goto, TypeOK, Steps, None
<1>4. CASE OpenNew \/ SendItems \/ WriteSignature
  <2>1. cur \in Config
    BY <1>4 DEF OpenNew, SendItems, WriteSignature, At, TypeOK
  <2>2. file \in [Config -> [Name -> Version \cup {Missing, Damaged}]]
    BY DEF TypeOK
  <2>3. snap' \in Version /\ hash' \in Version
    BY <1>4 DEF OpenNew, SendItems, WriteSignature, TypeOK
  <2>4. "cfg_new" \in Name /\ "sgn_new" \in Name
    BY DEF Name
  <2>5. file' \in [Config -> [Name -> Version \cup {Missing, Damaged}]]
    <3>1. CASE OpenNew
      BY <3>1, <2>1, <2>2, <2>3, <2>4 DEF OpenNew
    <3>2. CASE SendItems
      BY <3>2, <2>1, <2>2, <2>3, <2>4 DEF SendItems
    <3>3. CASE WriteSignature
      BY <3>3, <2>1, <2>2, <2>3, <2>4 DEF WriteSignature
    <3> QED BY <1>4, <3>1, <3>2, <3>3
  <2>6. "send" \in Steps /\ "sign" \in Steps /\ "backupCfg" \in Steps
    BY DEF Steps
  <2> QED BY <1>4, <2>3, <2>5, <2>6, StepType DEF OpenNew, SendItems, WriteSignature
<1>5. CASE BackupCfg \/ BackupSgn \/ InstallCfg \/ InstallSgn
  BY <1>5, RenameType DEF BackupCfg, BackupSgn, InstallCfg, InstallSgn, Steps, Name
<1>6. CASE SaveDone
  <2>1. cur \in Config
    BY <1>6 DEF SaveDone, At, TypeOK
  <2>2. /\ committed' \in [Config -> Version] /\ previous' \in [Config -> Version]
        /\ sound' \in [Config -> BOOLEAN]
    <3>1. /\ committed \in [Config -> Version] /\ previous \in [Config -> Version]
          /\ sound \in [Config -> BOOLEAN] /\ snap \in Version
      BY DEF TypeOK
    <3>2. CASE faulty
      BY <1>6, <3>1, <3>2 DEF SaveDone
    <3>3. CASE ~faulty
      BY <1>6, <2>1, <3>1, <3>3 DEF SaveDone
    <3> QED BY <3>2, <3>3
  <2> QED BY <1>6, <2>2 DEF SaveDone, At, TypeOK, None
<1> QED BY <1>1, <1>2, <1>3, <1>4, <1>5, <1>6 DEF Saving

\* A new process.
LEMMA StartType ==
    ASSUME TypeOK, Start, crashes' \in 0 .. MaxCrashes
    PROVE  TypeOK'
<1>1. value' \in [Config -> Version]
  BY LoadedVersion DEF Start, TypeOK
<1> QED BY <1>1, Ranges DEF Start, TypeOK, ledger, None

\* Every step keeps the types.
LEMMA NextType == TypeOK /\ [Next]_vars => TypeOK'
<1> SUFFICES ASSUME TypeOK, [Next]_vars
             PROVE  TypeOK'
  OBVIOUS
<1>1. CASE UNCHANGED vars
  BY <1>1 DEF vars, service, walk, manager, ledger, bounds, TypeOK
<1>2. CASE Saving
  BY <1>2, SavingType
<1>3. CASE Crash
  BY <1>3, StartType, BoundsAssumption DEF Crash, TypeOK
<1>4. CASE Exit
  BY <1>4, StartType DEF Exit, TypeOK
<1> QED BY <1>1, <1>2, <1>3, <1>4, ThreadsType DEF Next

\* Every variable keeps its type, in every run of the manager.
THEOREM Typing == Spec => []TypeOK
  BY InitType, NextType, PTL DEF Spec

-----------------------------------------------------------------------------
(* A save without a fault *)

\* What the save under way has done so far, if it has met no fault.
Progress ==
    cur # None /\ ~faulty =>
        LET f == file[cur] IN
        /\ step = "sign" => f["cfg_new"] = snap /\ hash = snap
        /\ step \in {"backupCfg", "backupSgn", "installCfg"} =>
               f["cfg_new"] = snap /\ f["sgn_new"] = snap
        /\ step = "installSgn" => f["cfg"] = snap /\ f["sgn_new"] = snap
        /\ step = "saveDone" => f["cfg"] = snap /\ f["sgn"] = snap

\* A configuration that is being saved does not count as saved, and one that does
\* has both of its files.
Kept == /\ cur # None /\ step # "saveList" => ~sound[cur]
        /\ \A c \in Config : sound[c] => /\ file[c]["cfg"] = committed[c]
                                         /\ file[c]["sgn"] = committed[c]

FilesInv == TypeOK /\ Progress /\ Kept

\* No file operation of a save touches another configuration.
LEMMA StepKept ==
    ASSUME TypeOK, Kept, NEW s, s # "saveList", At(s), NEW t, t # "saveList", Goto(t),
           UNCHANGED ledger,
           \A c \in Config \ {cur} : file'[c] = file[c]
    PROVE  Kept'
<1>1. cur' = cur /\ cur # None /\ cur \in Config /\ ~sound[cur] /\ UNCHANGED <<committed, sound>>
  BY DEF At, Goto, Kept, TypeOK, ledger
<1> QED BY <1>1 DEF Kept

\* What a rename does: it moves the file, or finds none, or fails.
Moved(s, from, to, next, after) ==
    /\ cur \in Config /\ cur' = cur /\ snap' = snap /\ step = s
    /\ \A c \in Config \ {cur} : file'[c] = file[c]
    /\ \/ /\ file[cur][from] # Missing /\ step' = next
          /\ UNCHANGED <<faults, faulty>>
          /\ file'[cur][to] = file[cur][from] /\ file'[cur][from] = Missing
          /\ \A n \in Name \ {from, to} : file'[cur][n] = file[cur][n]
       \/ /\ file[cur][from] = Missing /\ step' = after
          /\ UNCHANGED <<faults, faulty>> /\ file' = file
       \/ Fault /\ file' = file /\ step' = after

\* renameFile(), file by file.
LEMMA RenameFiles ==
    ASSUME TypeOK, NEW s, NEW from \in Name, NEW to \in Name, from # to,
           NEW next, NEW after, Rename(s, from, to, next, after)
    PROVE  Moved(s, from, to, next, after)
<1> USE DEF Moved
<1>1. cur \in Config /\ cur' = cur /\ snap' = snap /\ step = s
  BY DEF Rename, At, Goto, TypeOK
<1>2. file \in [Config -> [Name -> Version \cup {Missing, Damaged}]]
  BY DEF TypeOK
<1>3. CASE /\ file[cur][from] # Missing
           /\ file' = [file EXCEPT ![cur] = Renamed(@, from, to)]
           /\ NoFault /\ Goto(next)
  <2>1. file'[cur] = Renamed(file[cur], from, to)
    BY <1>1, <1>2, <1>3
  <2>2. \A c \in Config \ {cur} : file'[c] = file[c]
    BY <1>1, <1>2, <1>3
  <2>3. /\ file'[cur][to] = file[cur][from] /\ file'[cur][from] = Missing
        /\ \A n \in Name \ {from, to} : file'[cur][n] = file[cur][n]
    BY <1>1, <1>2, <2>1 DEF Renamed
  <2> QED BY <1>1, <1>3, <2>2, <2>3 DEF NoFault, Goto
<1>4. CASE /\ UNCHANGED file /\ Goto(after)
           /\ (file[cur][from] = Missing /\ NoFault) \/ Fault
  BY <1>1, <1>4 DEF NoFault, Goto
<1> QED BY <1>3, <1>4 DEF Rename

\* The renames of a save.
LEMMA RenameProgress ==
    ASSUME FilesInv, BackupCfg \/ BackupSgn \/ InstallCfg \/ InstallSgn
    PROVE  Progress' /\ Kept'
<1> USE DEF FilesInv
<1>1. snap \in Version /\ snap # Missing
  BY Ranges DEF TypeOK, Version, Missing
<1>2. ASSUME NEW s \in {"backupCfg", "backupSgn", "installCfg", "installSgn"},
             NEW from \in Name, NEW to \in Name, NEW next \in Steps, NEW after \in Steps,
             next # "saveList", after # "saveList",
             Rename(s, from, to, next, after)
      PROVE  Kept'
  <2>1. \A c \in Config \ {cur} : file'[c] = file[c]
    <3>1. file \in [Config -> [Name -> Version \cup {Missing, Damaged}]] /\ cur \in Config
      BY <1>2 DEF TypeOK, Rename, At
    <3> QED BY <1>2, <3>1 DEF Rename
  <2> QED BY <1>2, <2>1, StepKept DEF Rename
<1>3. {"cfg", "sgn", "cfg.tmp", "sgn.tmp", "cfg_new", "sgn_new"} = Name
  BY DEF Name
<1>4. CASE BackupCfg
  <2>1. Kept'
    BY <1>2, <1>3, <1>4 DEF BackupCfg, Steps
  <2>2. Moved("backupCfg", "cfg", "cfg.tmp", "backupSgn", "installCfg")
    BY <1>3, <1>4, RenameFiles DEF BackupCfg
  <2>3. Progress'
    BY <1>1, <2>2 DEF Moved, Progress, Fault, Name
  <2> QED BY <2>1, <2>3
<1>5. CASE BackupSgn
  <2>1. Kept'
    BY <1>2, <1>3, <1>5 DEF BackupSgn, Steps
  <2>2. Moved("backupSgn", "sgn", "sgn.tmp", "installCfg", "installCfg")
    BY <1>3, <1>5, RenameFiles DEF BackupSgn
  <2>3. Progress'
    BY <1>1, <2>2 DEF Moved, Progress, Fault, Name
  <2> QED BY <2>1, <2>3
<1>6. CASE InstallCfg
  <2>1. Kept'
    BY <1>2, <1>3, <1>6 DEF InstallCfg, Steps
  <2>2. Moved("installCfg", "cfg_new", "cfg", "installSgn", "saveDone")
    BY <1>3, <1>6, RenameFiles DEF InstallCfg
  <2>3. Progress'
    BY <1>1, <2>2 DEF Moved, Progress, Fault, Name
  <2> QED BY <2>1, <2>3
<1>7. CASE InstallSgn
  <2>1. Kept'
    BY <1>2, <1>3, <1>7 DEF InstallSgn, Steps
  <2>2. Moved("installSgn", "sgn_new", "sgn", "saveDone", "saveDone")
    BY <1>3, <1>7, RenameFiles DEF InstallSgn
  <2>3. Progress'
    BY <1>1, <2>2 DEF Moved, Progress, Fault, Name
  <2> QED BY <2>1, <2>3
<1> QED BY <1>4, <1>5, <1>6, <1>7

\* The steps of a save before the renames.
LEMMA WriteProgress ==
    ASSUME FilesInv, OpenNew \/ SendItems \/ WriteSignature
    PROVE  Progress' /\ Kept'
<1> USE DEF FilesInv
<1>1. cur \in Config /\ cur # None
  BY DEF OpenNew, SendItems, WriteSignature, At, TypeOK
<1>2. file \in [Config -> [Name -> Version \cup {Missing, Damaged}]]
  BY DEF TypeOK
<1>3. "cfg_new" \in Name /\ "sgn_new" \in Name
  BY DEF Name
<1>4. Kept'
  <2>1. \A c \in Config \ {cur} : file'[c] = file[c]
    BY <1>1, <1>2 DEF OpenNew, SendItems, WriteSignature
  <2> QED BY <2>1, StepKept DEF OpenNew, SendItems, WriteSignature
<1>5. cur' = cur /\ snap' = snap
  BY DEF OpenNew, SendItems, WriteSignature, Goto
<1>6. CASE OpenNew
  BY <1>4, <1>5, <1>6 DEF OpenNew, Progress, Goto, Fault, NoFault
<1>7. CASE SendItems
  BY <1>1, <1>2, <1>3, <1>4, <1>5, <1>7 DEF SendItems, Progress, Goto, Fault, NoFault
<1>8. CASE WriteSignature
  BY <1>1, <1>2, <1>3, <1>4, <1>5, <1>8
     DEF WriteSignature, Progress, At, Goto, Fault, NoFault
<1> QED BY <1>6, <1>7, <1>8

\* Every other step.
LEMMA OtherProgress ==
    ASSUME FilesInv,
           \/ \E c \in Config : Change(c) \/ IndicateConfigChanged(c) \/ LookAt(c)
           \/ TickScan \/ TickSave \/ CompleteConfiguration \/ FinalSave \/ DisableSaving
           \/ Leave \/ SaveList \/ SaveDone \/ Start
    PROVE  Progress' /\ Kept'
<1> USE DEF FilesInv
<1>1. CASE \/ \E c \in Config : Change(c) \/ IndicateConfigChanged(c)
           \/ TickScan \/ TickSave \/ CompleteConfiguration \/ FinalSave \/ DisableSaving
           \/ Leave
  <2>1. UNCHANGED <<cur, step, snap, hash, faulty, file, sound, committed>>
    BY <1>1 DEF Change, IndicateConfigChanged, TickScan, TickSave, Enter,
                CompleteConfiguration, FinalSave, DisableSaving, Leave, walk, ledger
  <2> QED BY <2>1 DEF Progress, Kept
<1>2. ASSUME NEW c \in Config, LookAt(c)
      PROVE  Progress' /\ Kept'
  BY <1>2 DEF LookAt, ledger, Progress, Kept
<1>3. CASE SaveList
  BY <1>3 DEF SaveList, At, Goto, Progress, Kept, TypeOK
<1>4. CASE SaveDone
  <2>1. cur \in Config /\ cur' = None /\ file' = file
    BY <1>4 DEF SaveDone, At, TypeOK
  <2>2. CASE faulty
    BY <1>4, <2>1, <2>2 DEF SaveDone, ledger, Progress, Kept
  <2>3. CASE ~faulty
    <3>1. file[cur]["cfg"] = snap /\ file[cur]["sgn"] = snap
      BY <1>4, <2>3 DEF SaveDone, At, Progress
    <3> QED BY <1>4, <2>1, <2>3, <3>1 DEF SaveDone, Progress, Kept, TypeOK
  <2> QED BY <2>2, <2>3
<1>5. CASE Start
  BY <1>5 DEF Start, ledger, Progress, Kept
<1> QED BY <1>1, <1>2, <1>3, <1>4, <1>5

\* Every step preserves the invariant.
LEMMA NextFiles == FilesInv /\ [Next]_vars => FilesInv'
<1> SUFFICES ASSUME FilesInv, [Next]_vars
             PROVE  FilesInv'
  OBVIOUS
<1>1. TypeOK'
  BY NextType DEF FilesInv
<1>2. CASE UNCHANGED vars
  BY <1>1, <1>2 DEF vars, service, walk, manager, ledger, bounds, FilesInv, Progress, Kept
<1>3. CASE Next
  BY <1>1, <1>3, RenameProgress, WriteProgress, OtherProgress
     DEF Next, Saving, Crash, Exit, FilesInv
<1> QED BY <1>2, <1>3

\* Nothing is saved at first.
LEMMA InitFiles == Init => FilesInv
  BY InitType DEF Init, FilesInv, Progress, Kept

\* Once a save has ended without a fault, a restart loads exactly what it saved,
\* whatever crashes and failed saves left in the six files before.
THEOREM SavedSurvives == Spec => []SavedIsLoaded
<1>1. FilesInv => SavedIsLoaded
  <2> SUFFICES ASSUME FilesInv, NEW c \in Config, sound[c]
               PROVE  Loaded(file[c]) = committed[c]
    BY DEF SavedIsLoaded
  <2>1. file[c]["cfg"] = committed[c] /\ file[c]["sgn"] = committed[c]
    BY DEF FilesInv, Kept
  <2>2. committed[c] \in Version /\ committed[c] # Missing
    BY Ranges DEF FilesInv, TypeOK, Version, Missing
  <2> QED BY <2>1, <2>2 DEF Loaded, LoadAttempt, HashOf
<1> QED BY <1>1, InitFiles, NextFiles, PTL DEF Spec

-----------------------------------------------------------------------------
(* The end of the program *)

\* Who still has to save what was indicated for configuration c: it is on disk, or
\* a flag is set for the next save, or the save under way has it.
Assigned(c) ==
    /\ \/ indicated[c] <= committed[c] \/ flag[c][1]
       \/ cur = c /\ (step = "saveList" \/ indicated[c] <= snap)
    /\ cur = c /\ step # "saveList" => indicated[c] <= snap \/ flag[c][1]

\* How far the last save has got: what it has looked at is on disk or being saved,
\* and later saves do not put older versions there.
FinalProgress(c) ==
    /\ holder = "final" /\ c \notin todo => due[c] <= committed[c] \/ cur = c
    /\ final \in {"saved", "done"} => due[c] <= committed[c]
    /\ cur = c /\ step # "saveList" /\ (holder = "final" \/ final \in {"saved", "done"})
          => due[c] <= snap

Ordered == /\ faulty => faults > 0
           /\ holder = "final" => final = "save"
           /\ final = "no" => \A c \in Config : due[c] = Empty
           /\ \A c \in Config : /\ due[c] <= indicated[c] /\ indicated[c] <= value[c]
                                /\ indicated[c] <= newest[c]
                                /\ c \in unindicated => value[c] = newest[c]

FlagInv == /\ TypeOK /\ Ordered
           /\ faults = 0 => \A c \in Config : Assigned(c) /\ FinalProgress(c)

\* Versions are numbers.
LEMMA VersionsAreIntegers ==
    ASSUME TypeOK
    PROVE  /\ \A c \in Config :
                 /\ value[c] \in Int /\ newest[c] \in Int /\ indicated[c] \in Int 
                 /\ due[c] \in Int /\ committed[c] \in Int /\ committed[c] >= 0 /\ flag[c] \in [{0, 1} -> BOOLEAN]
           /\ snap \in Int /\ snap >= 0 /\ faults \in Int /\ faults >= 0
  BY Ranges DEF TypeOK, Version

\* The file operations of a save change nothing here, unless they fail.
LEMMA StepFlag ==
    ASSUME FlagInv, NEW s, s # "saveList", At(s), NEW t, t # "saveList", Goto(t),
           Fault \/ NoFault, UNCHANGED <<service, snap, manager, ledger>>
    PROVE  Ordered' /\ (faults' = 0 => \A c \in Config : Assigned(c)' /\ FinalProgress(c)')
<1> USE DEF FlagInv
<1>1. /\ UNCHANGED <<holder, todo, cur, snap, value, flag, indicated, final, due, committed>>
      /\ UNCHANGED <<newest, unindicated>>
      /\ step # "saveList" /\ step' # "saveList"
  BY DEF At, Goto, service, manager, ledger
<1>2. CASE Fault
  BY <1>1, <1>2, VersionsAreIntegers DEF Fault, Ordered
<1>3. CASE NoFault
  BY <1>1, <1>3 DEF NoFault, Ordered, Assigned, FinalProgress
<1> QED BY <1>2, <1>3

\* Services and threads outside saveConfig().
LEMMA ThreadsFlag ==
    ASSUME FlagInv, TypeOK',
           \/ \E c \in Config : Change(c) \/ IndicateConfigChanged(c)
           \/ TickScan \/ TickSave \/ CompleteConfiguration
           \/ FinalSave \/ DisableSaving
    PROVE  Ordered' /\ (faults' = 0 => \A c \in Config : Assigned(c)' /\ FinalProgress(c)')
<1> USE VersionsAreIntegers, ConfigAssumption DEF FlagInv
<1>1. ASSUME NEW c \in Config, Change(c)
      PROVE  Ordered' /\ (faults' = 0 => \A d \in Config : Assigned(d)' /\ FinalProgress(d)')
  <2>1. UNCHANGED <<flag, indicated, walk, manager, ledger, bounds, file>>
    BY <1>1 DEF Change
  <2> USE <2>1 DEF walk, manager, ledger, bounds
  <2>2. value' = [value EXCEPT ![c] = newest[c] + 1]
    BY <1>1 DEF Change
  <2>3. newest' = [newest EXCEPT ![c] = @ + 1] /\ unindicated' = unindicated \cup {c}
    BY <1>1 DEF Change
  <2> QED BY <2>2, <2>3 DEF Ordered, Assigned, FinalProgress, TypeOK
<1>2. ASSUME NEW c \in Config, IndicateConfigChanged(c)
      PROVE  Ordered' /\ (faults' = 0 => \A d \in Config : Assigned(d)' /\ FinalProgress(d)')
  BY <1>2 DEF IndicateConfigChanged, Ordered, Assigned, FinalProgress, TypeOK, walk,
              manager, ledger, bounds
<1>3. CASE TickScan
  <2>1. \A c \in Config : flag'[c][1] = flag[c][1]
    BY <1>3 DEF TickScan, Consumed, TypeOK
  <2> QED BY <1>3, <2>1 DEF TickScan, Ordered, Assigned, FinalProgress, walk, ledger, bounds
<1>4. CASE TickSave
  <2>1. CASE Enter("tick") /\ UNCHANGED <<tick, full>>
    <3>1. cur = None /\ cur \notin Config /\ UNCHANGED <<cur, step, snap, faulty>> /\ holder' = "tick"
      BY <2>1 DEF Enter, TypeOK
    <3> QED BY <1>4, <2>1, <3>1 DEF TickSave, Ordered, Assigned, FinalProgress, service, ledger
  <2>2. CASE DiscFull /\ tick' = FALSE /\ UNCHANGED walk
    BY <1>4, <2>2 DEF TickSave, Ordered, Assigned, FinalProgress, service, walk, ledger
  <2> QED BY <1>4, <2>1, <2>2 DEF TickSave
<1>5. CASE CompleteConfiguration
  BY <1>5 DEF CompleteConfiguration, Ordered, Assigned, FinalProgress, service, walk,
              ledger, Empty
<1>6. CASE FinalSave
  BY <1>6 DEF FinalSave, Enter, Ordered, Assigned, FinalProgress, TypeOK, service,
              manager, ledger, bounds
<1>7. CASE DisableSaving
  BY <1>7 DEF DisableSaving, Ordered, Assigned, FinalProgress, service, walk, ledger, bounds
<1> QED BY <1>1, <1>2, <1>3, <1>4, <1>5, <1>6, <1>7

\* The steps of saveConfig().
LEMMA SavingFlag ==
    ASSUME FlagInv, TypeOK', Saving
    PROVE  Ordered' /\ (faults' = 0 => \A c \in Config : Assigned(c)' /\ FinalProgress(c)')
<1> USE VersionsAreIntegers, ConfigAssumption DEF FlagInv
<1>1. ASSUME NEW c \in Config, LookAt(c)
      PROVE  Ordered' /\ (faults' = 0 => \A d \in Config : Assigned(d)' /\ FinalProgress(d)')
  <2>1. \A d \in Config : d # c => flag'[d] = flag[d]
    BY <1>1 DEF LookAt, TypeOK
  <2>2. cur = None /\ cur \notin Config
    BY <1>1 DEF LookAt
  <2>3. CASE flag[c][1]
    BY <1>1, <2>1, <2>2, <2>3 DEF LookAt, Ordered, Assigned, FinalProgress, manager, ledger, bounds
  <2>4. CASE ~flag[c][1]
    <3>1. UNCHANGED <<cur, step, snap, holder, manager, ledger, bounds, value, newest,
                      unindicated, indicated, faulty>>
      BY <1>1, <2>4 DEF LookAt
    <3>2. flag'[c][1] = FALSE /\ flag[c][1] = FALSE /\ todo' = todo \ {c}
      <4>1. flag[c] \in [{0, 1} -> BOOLEAN] /\ flag \in [Config -> [{0, 1} -> BOOLEAN]]
        BY DEF TypeOK
      <4>2. flag' = [flag EXCEPT ![c] = Consumed(@, 1)] /\ todo' = todo \ {c}
        BY <1>1 DEF LookAt
      <4>3. flag'[c] = Consumed(flag[c], 1)
        BY <4>1, <4>2
      <4> QED BY <2>4, <4>1, <4>2, <4>3 DEF Consumed
    <3> QED BY <2>1, <2>2, <2>4, <3>1, <3>2
            DEF Ordered, Assigned, FinalProgress, manager, ledger, bounds
  <2> QED BY <2>3, <2>4
<1>2. CASE Leave
  <2>1. /\ cur = None /\ cur \notin Config /\ todo = {} /\ holder' = None
        /\ UNCHANGED <<service, cur, step, snap, faulty, due, ledger, bounds>>
    BY <1>2 DEF Leave
  <2>2. CASE holder = "tick" /\ UNCHANGED final
    BY <2>1, <2>2 DEF Ordered, Assigned, FinalProgress, service, ledger, bounds, None
  <2>3. CASE holder = "final" /\ final' = "saved"
    BY <2>1, <2>3 DEF Ordered, Assigned, FinalProgress, service, ledger, bounds, None
  <2> QED BY <1>2, <2>2, <2>3 DEF Leave, TypeOK
<1>3. CASE SaveList
  BY <1>3 DEF SaveList, At, Goto, Ordered, Assigned, FinalProgress, TypeOK, service,
              manager, bounds
<1>4. CASE OpenNew \/ SendItems \/ WriteSignature
  BY <1>4, StepFlag DEF OpenNew, SendItems, WriteSignature
<1>5. CASE BackupCfg \/ BackupSgn \/ InstallCfg \/ InstallSgn
  BY <1>5, StepFlag DEF BackupCfg, BackupSgn, InstallCfg, InstallSgn, Rename
<1>6. CASE SaveDone
  <2>1. /\ cur \in Config /\ step = "saveDone" /\ cur' = None
        /\ UNCHANGED <<service, holder, todo, manager, bounds>>
    BY <1>6 DEF SaveDone, At, TypeOK
  <2>2. Ordered'
    BY <1>6, <2>1 DEF SaveDone, Ordered, service, manager, bounds
  <2>3. ASSUME faults' = 0
        PROVE  \A c \in Config : Assigned(c)' /\ FinalProgress(c)'
    <3>1. ~faulty /\ faults = 0
      BY <2>1, <2>3 DEF Ordered, bounds
    <3>2. committed' = [committed EXCEPT ![cur] = snap]
      BY <1>6, <3>1 DEF SaveDone
    <3> QED BY <2>1, <3>1, <3>2 DEF Assigned, FinalProgress, service, manager, TypeOK
  <2> QED BY <2>2, <2>3
<1> QED BY <1>1, <1>2, <1>3, <1>4, <1>5, <1>6 DEF Saving

\* A new process.
LEMMA StartFlag ==
    ASSUME FlagInv, TypeOK', Start
    PROVE  Ordered' /\ (faults' = 0 => \A c \in Config : Assigned(c)' /\ FinalProgress(c)')
<1>1. \A c \in Config : /\ value'[c] >= 0 /\ value'[c] \in Int
                        /\ newest'[c] >= 0 /\ newest'[c] \in Int
                        /\ committed'[c] \in Int /\ committed'[c] >= 0
                        /\ indicated'[c] = 0 /\ due'[c] = 0
  BY Ranges DEF TypeOK, Version, Start, Empty
<1> QED BY <1>1, ConfigAssumption
        DEF Start, Ordered, Assigned, FinalProgress, Empty, None

\* Every step preserves the invariant.
LEMMA NextFlag == FlagInv /\ [Next]_vars => FlagInv'
<1> SUFFICES ASSUME FlagInv, [Next]_vars
             PROVE  FlagInv'
  OBVIOUS
<1>1. TypeOK'
  BY NextType DEF FlagInv
<1>2. CASE UNCHANGED vars
  BY <1>1, <1>2 DEF vars, service, walk, manager, ledger, bounds, FlagInv, Ordered,
                    Assigned, FinalProgress
<1>3. CASE Saving
  BY <1>1, <1>3, SavingFlag DEF FlagInv
<1>4. CASE Crash \/ Exit
  BY <1>1, <1>4, StartFlag DEF FlagInv, Crash, Exit
<1> QED BY <1>1, <1>2, <1>3, <1>4, ThreadsFlag DEF Next, FlagInv

\* Nothing is indicated at first.
LEMMA InitFlag == Init => FlagInv
<1> SUFFICES ASSUME Init
             PROVE  FlagInv
  OBVIOUS
<1>1. TypeOK
  BY InitType
<1>2. \A c \in Config : /\ value[c] = 0 /\ newest[c] = 0 /\ indicated[c] = 0
                        /\ due[c] = 0 /\ committed[c] = 0
  BY DEF Init, Empty
<1> QED BY <1>1, <1>2, ConfigAssumption
        DEF Init, FlagInv, Ordered, Assigned, FinalProgress, Empty, None

\* When completeConfiguration() has saved, every change that was indicated before
\* it was called is on disk, also those that a tick skipped on a full disc and
\* those that the other thread was just saving.
THEOREM FinalSaveIsComplete == Spec => []FinalSaveComplete
<1>1. FlagInv => FinalSaveComplete
  BY VersionsAreIntegers DEF FlagInv, FinalProgress, FinalSaveComplete
<1> QED BY <1>1, InitFlag, NextFlag, PTL DEF Spec

-----------------------------------------------------------------------------
(* The backup *)

\* As long as nothing has gone wrong, no version on disk or in a save is newer than
\* the data of the service.
Levels(c) == /\ committed[c] <= value[c] /\ value[c] <= newest[c]
             /\ cur = c /\ step # "saveList" => committed[c] <= snap /\ snap <= value[c]

\* Between saves the current files hold the last version, or there never was one.
Whole(c) == \/ file[c]["cfg"] = committed[c] /\ file[c]["sgn"] = committed[c]
            \/ /\ committed[c] = Empty
               /\ \A n \in {"cfg", "sgn", "cfg.tmp", "sgn.tmp"} : file[c][n] = Missing

Backed(c) == \/ file[c]["cfg.tmp"] = committed[c] /\ file[c]["sgn.tmp"] = committed[c]
             \/ committed[c] = Empty

\* Where the last saved version is during a save.
Copies(c) ==
    /\ cur # c \/ step \in {"saveList", "open", "send", "sign", "backupCfg"} => Whole(c)
    /\ cur = c /\ step = "backupSgn" =>
          /\ file[c]["cfg"] = Missing /\ file[c]["cfg.tmp"] = committed[c]
          /\ file[c]["sgn"] = committed[c]
    /\ cur = c /\ step = "installCfg" =>
          file[c]["cfg"] = Missing /\ file[c]["sgn"] = Missing /\ Backed(c)
    /\ cur = c /\ step = "installSgn" => file[c]["sgn"] = Missing /\ Backed(c)

Covered == crashes = 0 /\ faults = 0 => \A c \in Config : Levels(c) /\ Copies(c)

CoverInv == FilesInv /\ (faulty => faults > 0) /\ Covered

\* Versions are numbers, and none is that of a missing file.
LEMMA Numbers ==
    ASSUME TypeOK
    PROVE  /\ \A c \in Config :
                 /\ value[c] \in Int /\ newest[c] \in Int /\ committed[c] \in Int
                 /\ committed[c] >= 0 /\ committed[c] # Missing /\ committed[c] \in Version
           /\ snap \in Int /\ snap >= 0 /\ snap # Missing
           /\ faults \in Int /\ faults >= 0 /\ crashes \in Int /\ crashes >= 0
           /\ Missing \notin Version
  BY Ranges DEF TypeOK, Version, Missing

\* What a restart loads when the files are whole, or when the signature is
\* missing and there is a backup.
LEMMA LoadedWhole ==
    ASSUME TypeOK, NEW c \in Config
    PROVE  /\ Whole(c) => Loaded(file[c]) = committed[c]
           /\ file[c]["sgn"] = Missing /\ Backed(c) => Loaded(file[c]) >= committed[c]
<1>1. Loaded(file[c]) \in Version /\ Loaded(file[c]) >= 0
  BY LoadedVersion, Ranges DEF TypeOK, Version
<1> USE Numbers
<1>2. Whole(c) => Loaded(file[c]) = committed[c]
  BY DEF Whole, Loaded, LoadAttempt, HashOf, Empty
<1>3. file[c]["sgn"] = Missing /\ Backed(c) => Loaded(file[c]) >= committed[c]
  <2>1. CASE committed[c] = Empty
    BY <1>1, <2>1 DEF Empty
  <2>2. CASE file[c]["cfg.tmp"] = committed[c] /\ file[c]["sgn.tmp"] = committed[c]
    BY <2>2 DEF Loaded, LoadAttempt, HashOf
  <2> QED BY <2>1, <2>2 DEF Backed
<1> QED BY <1>2, <1>3

\* Writing the new files leaves the others alone.
LEMMA WriteCover ==
    ASSUME CoverInv, OpenNew \/ SendItems \/ WriteSignature
    PROVE  Covered'
<1>1. TypeOK /\ cur \in Config
  BY DEF CoverInv, FilesInv, OpenNew, SendItems, WriteSignature, At, TypeOK
<1>2. \A c \in Config : \A n \in {"cfg", "sgn", "cfg.tmp", "sgn.tmp"} : file'[c][n] = file[c][n]
  <2>1. file \in [Config -> [Name -> Version \cup {Missing, Damaged}]]
    BY <1>1 DEF TypeOK
  <2> QED BY <1>1, <2>1 DEF OpenNew, SendItems, WriteSignature, Name
<1>3. /\ cur' = cur /\ snap' = snap /\ UNCHANGED <<value, newest, committed, crashes>>
      /\ step \in {"open", "send", "sign"} /\ step' \in {"send", "sign", "backupCfg"}
      /\ faults' = 0 => faults = 0
  BY <1>1, Numbers DEF OpenNew, SendItems, WriteSignature, At, Goto, service, ledger, Fault, NoFault
<1>4. crashes = 0 /\ faults = 0 => \A c \in Config : Levels(c) /\ Copies(c)
  BY DEF CoverInv, Covered
<1>5. ASSUME crashes' = 0, faults' = 0, NEW c \in Config
      PROVE  Levels(c)' /\ Copies(c)'
  <2>1. Levels(c) /\ Copies(c)
    BY <1>3, <1>4, <1>5
  <2>2. Levels(c)'
    BY <1>3, <2>1 DEF Levels
  <2>3. Whole(c)'
    BY <1>2, <1>3, <2>1 DEF Copies, Whole
  <2>4. Copies(c)'
    BY <1>3, <2>3 DEF Copies
  <2> QED BY <2>2, <2>4
<1> QED BY <1>5 DEF Covered

\* The renames.
LEMMA RenameCover ==
    ASSUME CoverInv, BackupCfg \/ BackupSgn \/ InstallCfg \/ InstallSgn
    PROVE  Covered'
<1>1. TypeOK /\ cur \in Config /\ UNCHANGED <<value, newest, committed, crashes, snap, cur>>
  BY DEF CoverInv, FilesInv, BackupCfg, BackupSgn, InstallCfg, InstallSgn, Rename, At, TypeOK,
         Goto, service, ledger
<1>2. SUFFICES ASSUME crashes' = 0, faults' = 0, NEW c \in Config
               PROVE  Levels(c)' /\ Copies(c)'
  BY DEF Covered
<1>3. faults = 0 /\ ~Fault /\ ~faulty
  <2>1. ~Fault
    BY <1>1, <1>2, Numbers DEF Fault
  <2>2. NoFault
    BY <2>1 DEF BackupCfg, BackupSgn, InstallCfg, InstallSgn, Rename
  <2>3. faults = 0
    BY <1>2, <2>2 DEF NoFault
  <2> QED BY <2>1, <2>3 DEF CoverInv
<1>4. Levels(c) /\ Copies(c)
  BY <1>1, <1>2, <1>3 DEF CoverInv, Covered
<1>5. /\ step \in {"backupCfg", "backupSgn", "installCfg", "installSgn"}
      /\ step' \in {"backupSgn", "installCfg", "installSgn", "saveDone"}
  BY DEF BackupCfg, BackupSgn, InstallCfg, InstallSgn, Rename, At, Goto
<1>6. Levels(c)'
  BY <1>1, <1>4, <1>5 DEF Levels
<1>7. \A d \in Config \ {cur} : file'[d] = file[d]
  <2>1. file \in [Config -> [Name -> Version \cup {Missing, Damaged}]]
    BY <1>1 DEF TypeOK
  <2> QED BY <1>1, <2>1 DEF BackupCfg, BackupSgn, InstallCfg, InstallSgn, Rename
<1>8. CASE cur # c
  <2>1. file'[c] = file[c] /\ committed'[c] = committed[c] /\ cur' # c
    BY <1>1, <1>7, <1>8
  <2>2. Whole(c)
    BY <1>4, <1>8 DEF Copies
  <2>3. Whole(c)'
    BY <2>1, <2>2 DEF Whole
  <2> QED BY <1>6, <2>1, <2>3 DEF Copies
<1>9. CASE cur = c
  <2> USE <1>1, <1>3, <1>4, <1>9, Numbers
  <2>0. {"cfg", "sgn", "cfg.tmp", "sgn.tmp", "cfg_new", "sgn_new"} = Name
    BY DEF Name
  <2>1. CASE BackupCfg
    <3>1. Moved("backupCfg", "cfg", "cfg.tmp", "backupSgn", "installCfg")
      BY <2>0, <2>1, RenameFiles DEF BackupCfg
    <3> QED BY <1>6, <3>1 DEF Moved, Copies, Whole, Backed, Name
  <2>2. CASE BackupSgn
    <3>1. Moved("backupSgn", "sgn", "sgn.tmp", "installCfg", "installCfg")
      BY <2>0, <2>2, RenameFiles DEF BackupSgn
    <3> QED BY <1>6, <3>1 DEF Moved, Copies, Whole, Backed, Name
  <2>3. CASE InstallCfg
    <3>1. Moved("installCfg", "cfg_new", "cfg", "installSgn", "saveDone")
      BY <2>0, <2>3, RenameFiles DEF InstallCfg
    <3> QED BY <1>6, <3>1 DEF Moved, Copies, Whole, Backed, Name
  <2>4. CASE InstallSgn
    <3>1. Moved("installSgn", "sgn_new", "sgn", "saveDone", "saveDone")
      BY <2>0, <2>4, RenameFiles DEF InstallSgn
    <3> QED BY <1>6, <3>1 DEF Moved, Copies, Whole, Backed, Name
  <2> QED BY <2>1, <2>2, <2>3, <2>4
<1> QED BY <1>6, <1>8, <1>9

\* Every other step of the program.
LEMMA OtherCover ==
    ASSUME CoverInv, TypeOK',
           \/ \E c \in Config : Change(c) \/ IndicateConfigChanged(c) \/ LookAt(c)
           \/ TickScan \/ TickSave \/ CompleteConfiguration \/ FinalSave \/ DisableSaving
           \/ Leave \/ SaveList \/ SaveDone \/ Exit \/ Crash
    PROVE  Covered'
<1>1. TypeOK /\ Covered
  BY DEF CoverInv, FilesInv
<1> USE <1>1, Numbers, ConfigAssumption
<1>2. CASE \/ \E c \in Config : IndicateConfigChanged(c)
           \/ TickScan \/ TickSave \/ CompleteConfiguration \/ FinalSave \/ DisableSaving
           \/ Leave
  <2>1. UNCHANGED <<cur, step, snap, file, committed, value, newest, crashes, faults>>
    BY <1>2 DEF IndicateConfigChanged, TickScan, TickSave, Enter, CompleteConfiguration,
                FinalSave, DisableSaving, Leave, walk, ledger, bounds, service
  <2> QED BY <2>1 DEF Covered, Levels, Copies, Whole, Backed
<1>3. ASSUME NEW c \in Config, Change(c)
      PROVE  Covered'
  <2>1. /\ UNCHANGED <<cur, step, snap, file, committed, crashes, faults>>
        /\ newest' = [newest EXCEPT ![c] = @ + 1]
        /\ value' = [value EXCEPT ![c] = newest[c] + 1]
    BY <1>3 DEF Change, walk, ledger, bounds
  <2>2. \A d \in Config : Levels(d) => Levels(d)'
    BY <2>1 DEF Levels, TypeOK
  <2>3. \A d \in Config : Copies(d) => Copies(d)'
    BY <2>1 DEF Copies, Whole, Backed
  <2> QED BY <2>1, <2>2, <2>3 DEF Covered
<1>4. ASSUME NEW c \in Config, LookAt(c)
      PROVE  Covered'
  <2>1. /\ UNCHANGED <<snap, file, committed, crashes, faults, value, newest>>
        /\ cur = None /\ cur \notin Config
        /\ (cur' = c /\ step' = "saveList") \/ UNCHANGED <<cur, step>>
    BY <1>4 DEF LookAt, ledger, bounds
  <2> QED BY <2>1 DEF Covered, Levels, Copies, Whole, Backed
<1>5. CASE SaveList
  <2>1. /\ UNCHANGED <<cur, file, committed, crashes, faults, value, newest>>
        /\ step = "saveList" /\ step' = "open" /\ snap' = value[cur]
    BY <1>5 DEF SaveList, At, Goto, service, bounds
  <2> QED BY <2>1 DEF Covered, Levels, Copies, Whole
<1>6. CASE SaveDone
  <2>1. /\ UNCHANGED <<file, crashes, faults, value, newest>>
        /\ step = "saveDone" /\ cur \in Config /\ cur # None /\ cur' = None
    BY <1>6 DEF SaveDone, At, service, bounds, TypeOK
  <2>2. SUFFICES ASSUME crashes' = 0, faults' = 0, NEW c \in Config
                 PROVE  Levels(c)' /\ Copies(c)'
    BY DEF Covered
  <2>3. ~faulty /\ Levels(c) /\ Copies(c)
    BY <2>1, <2>2 DEF CoverInv, Covered
  <2>4. committed' = [committed EXCEPT ![cur] = snap]
    BY <1>6, <2>3 DEF SaveDone
  <2>5. file[cur]["cfg"] = snap /\ file[cur]["sgn"] = snap
    BY <2>1, <2>3 DEF CoverInv, FilesInv, Progress
  <2>6. committed'[c] = (IF c = cur THEN snap ELSE committed[c])
    BY <2>1, <2>4 DEF TypeOK
  <2> QED BY <2>1, <2>3, <2>5, <2>6 DEF Levels, Copies, Whole
<1>7. CASE Exit
  <2>1. /\ UNCHANGED <<file, crashes, faults, newest, committed>>
        /\ cur = None /\ cur' = None
        /\ value' = [c \in Config |-> Loaded(file[c])]
    BY <1>7 DEF Exit, Start, ledger, TypeOK
  <2>2. \A c \in Config : Copies(c) => value'[c] = committed[c]
    BY <2>1, LoadedWhole DEF Copies
  <2> QED BY <2>1, <2>2 DEF Covered, Levels, Copies, Whole
<1>8. CASE Crash
  BY <1>8 DEF Crash, Covered
<1> QED BY <1>2, <1>3, <1>4, <1>5, <1>6, <1>7, <1>8

\* Every step preserves the invariant.
LEMMA NextCover == CoverInv /\ [Next]_vars => CoverInv'
<1> SUFFICES ASSUME CoverInv, [Next]_vars
             PROVE  CoverInv'
  OBVIOUS
<1>1. FilesInv' /\ TypeOK'
  BY NextFiles DEF CoverInv, FilesInv
<1>2. TypeOK /\ (faulty => faults > 0)
  BY DEF CoverInv, FilesInv
<1>3. CASE UNCHANGED vars
  BY <1>1, <1>3 DEF vars, service, walk, ledger, bounds, CoverInv, Covered, Levels, Copies,
                    Whole, Backed
<1>4. CASE Next
  <2>1. (faulty => faults > 0)'
    <3>1. \/ Fault \/ faulty' = FALSE \/ UNCHANGED <<faults, faulty>>
      BY <1>4 DEF Next, Saving, Change, IndicateConfigChanged, TickScan, TickSave, Enter,
         CompleteConfiguration, FinalSave, DisableSaving, LookAt, Leave, SaveList, OpenNew,
         SendItems, WriteSignature, BackupCfg, BackupSgn, InstallCfg, InstallSgn, Rename,
         SaveDone, Crash, Exit, Start, NoFault, walk, bounds
    <3>2. faults \in Int /\ faults >= 0
      BY <1>2, Numbers
    <3>3. CASE Fault
      BY <3>2, <3>3 DEF Fault
    <3>4. CASE faulty' = FALSE
      BY <3>4
    <3>5. CASE UNCHANGED <<faults, faulty>>
      BY <1>2, <3>5
    <3> QED BY <3>1, <3>3, <3>4, <3>5
  <2>2. Covered'
    BY <1>1, <1>4, WriteCover, RenameCover, OtherCover DEF Next, Saving
  <2> QED BY <1>1, <2>1, <2>2 DEF CoverInv
<1> QED BY <1>3, <1>4

\* There are no files at first.
LEMMA InitCover == Init => CoverInv
<1> SUFFICES ASSUME Init
             PROVE  CoverInv
  OBVIOUS
<1>1. \A c \in Config : /\ value[c] = 0 /\ newest[c] = 0 /\ committed[c] = 0
                        /\ cur # c
                        /\ \A n \in {"cfg", "sgn", "cfg.tmp", "sgn.tmp"} : file[c][n] = Missing
  BY ConfigAssumption DEF Init, Empty, Name
<1> QED BY <1>1, InitFiles DEF Init, CoverInv, Covered, Levels, Copies, Whole, Empty

\* As long as no crash and no fault has happened before, a crash at any point of a
\* save, except between the renames of the file and of its signature, finds the
\* last saved version or a newer one.
THEOREM BackupIsThere == Spec => []BackupCovers
<1>1. CoverInv => BackupCovers
  <2> SUFFICES ASSUME CoverInv, crashes = 0, faults = 0, NEW c \in Config,
                      ~(At("backupSgn") /\ cur = c)
               PROVE  Loaded(file[c]) >= committed[c]
    BY DEF BackupCovers
  <2>1. TypeOK /\ Progress /\ Levels(c) /\ Copies(c) /\ ~faulty
    BY Numbers DEF CoverInv, FilesInv, Covered
  <2>2. holder # None \/ cur # c
    BY <2>1, ConfigAssumption DEF TypeOK
  <2>3. CASE Whole(c) \/ (file[c]["sgn"] = Missing /\ Backed(c))
    BY <2>1, <2>3, LoadedWhole, Numbers
  <2>4. CASE cur = c /\ step = "saveDone"
    <3>1. file[c]["cfg"] = snap /\ file[c]["sgn"] = snap /\ committed[c] <= snap /\ snap \in Version
      BY <2>1, <2>4, ConfigAssumption DEF Progress, Levels, TypeOK
    <3>2. Loaded(file[c]) = snap
      BY <2>1, <3>1, Numbers DEF Loaded, LoadAttempt, HashOf
    <3> QED BY <2>1, <3>1, <3>2, Numbers
  <2>5. cur # c \/ step \in Steps \ {"backupSgn"}
    BY <2>1, <2>2, ConfigAssumption DEF TypeOK, At
  <2> QED BY <2>1, <2>3, <2>4, <2>5 DEF Copies, Steps
<1> QED BY <1>1, InitCover, NextCover, PTL DEF Spec

-----------------------------------------------------------------------------
(* Stale files *)

\* A file that is missing, damaged or empty, or holds version v or a newer one.
Recent(content, v) == content <= Empty \/ content >= v

\* How old the configuration files may be.  Versions are saved in the order in
\* which they are made, and a file takes the place of an older one, so that the
\* current file is never older than the last save, nor the backup than the one
\* before; the backup step brings the backup up to the last save.
Aged(c) ==
    /\ previous[c] <= committed[c] /\ committed[c] <= newest[c]
    /\ c \in unindicated \/ flag[c][1] => value[c] = newest[c]
    /\ cur = c /\ step = "saveList" => value[c] = newest[c]
    /\ cur = c /\ step # "saveList" => committed[c] <= snap /\ snap <= newest[c]
    /\ Recent(file[c]["cfg"], committed[c])
    /\ Recent(file[c]["cfg_new"], committed[c])
    /\ Recent(file[c]["cfg.tmp"], previous[c])
    /\ file[c]["cfg"] = Missing => Recent(file[c]["cfg.tmp"], committed[c])
    /\ cur = c /\ ~faulty /\ step \in {"backupSgn", "installCfg", "installSgn",
                                       "saveDone"} =>
          Recent(file[c]["cfg.tmp"], committed[c])
    /\ cur = c /\ ~faulty /\ step \in {"installSgn", "saveDone"} =>
          file[c]["cfg_new"] = Missing

AgeInv == FilesInv /\ \A c \in Config : Aged(c)

\* Versions and the contents of files are numbers.
LEMMA Contents ==
    ASSUME TypeOK
    PROVE  /\ \A c \in Config :
                 /\ value[c] \in Int /\ newest[c] \in Int
                 /\ committed[c] \in Int /\ previous[c] \in Int
                 /\ committed[c] >= 0 /\ previous[c] >= 0 /\ newest[c] >= 0
                 /\ \A n \in Name : file[c][n] \in Int
           /\ snap \in Int /\ snap >= 0 /\ snap \in Version
<1>1. Version \cup {Missing, Damaged} \subseteq Int
  BY Ranges DEF Version, Missing, Damaged
<1>2. \A v \in Version : v \in Int /\ v >= 0
  BY Ranges DEF Version
<1>3. \A c \in Config : \A n \in Name : file[c][n] \in Int
  BY <1>1 DEF TypeOK
<1> QED BY <1>2, <1>3 DEF TypeOK

\* Writing the new files.
LEMMA WriteAges ==
    ASSUME AgeInv, TypeOK', OpenNew \/ SendItems \/ WriteSignature
    PROVE  \A c \in Config : Aged(c)'
<1>1. TypeOK /\ cur \in Config
  BY DEF AgeInv, FilesInv, OpenNew, SendItems, WriteSignature, At, TypeOK
<1>2. /\ UNCHANGED <<value, newest, unindicated, flag, committed, previous, cur, snap>>
      /\ step \in {"open", "send", "sign"} /\ step' \in {"send", "sign", "backupCfg"}
  BY DEF OpenNew, SendItems, WriteSignature, At, Goto, service, ledger
<1>3. \A c \in Config :
        /\ file'[c]["cfg"] = file[c]["cfg"] /\ file'[c]["cfg.tmp"] = file[c]["cfg.tmp"]
        /\ \/ file'[c]["cfg_new"] = file[c]["cfg_new"]
           \/ file'[c]["cfg_new"] \in {Empty, Damaged}
           \/ c = cur /\ file'[c]["cfg_new"] = snap
  <2>1. file \in [Config -> [Name -> Version \cup {Missing, Damaged}]]
    BY <1>1 DEF TypeOK
  <2>2. CASE OpenNew
    BY <1>1, <2>1, <2>2 DEF OpenNew, Name
  <2>3. CASE SendItems
    BY <1>1, <2>1, <2>3 DEF SendItems, Name
  <2>4. CASE WriteSignature
    BY <1>1, <2>1, <2>4 DEF WriteSignature, Name
  <2> QED BY <2>2, <2>3, <2>4
<1> SUFFICES ASSUME NEW c \in Config PROVE Aged(c)'
  OBVIOUS
<1>4. Aged(c)
  BY DEF AgeInv
<1>5. Recent(file'[c]["cfg_new"], committed[c])
  BY <1>1, <1>2, <1>3, <1>4, Contents DEF Aged, Recent, Empty, Damaged
<1> QED BY <1>2, <1>3, <1>4, <1>5 DEF Aged

\* The renames.
LEMMA RenameAges ==
    ASSUME AgeInv, BackupCfg \/ BackupSgn \/ InstallCfg \/ InstallSgn
    PROVE  \A c \in Config : Aged(c)'
<1>1. /\ TypeOK /\ Progress /\ cur \in Config /\ cur # None
      /\ UNCHANGED <<value, newest, unindicated, flag, committed, previous>>
  BY DEF AgeInv, FilesInv, BackupCfg, BackupSgn, InstallCfg, InstallSgn, Rename, At,
         TypeOK, service, ledger
<1> SUFFICES ASSUME NEW c \in Config PROVE Aged(c)'
  OBVIOUS
<1>2. Aged(c)
  BY DEF AgeInv
<1>3. {"cfg", "sgn", "cfg.tmp", "sgn.tmp", "cfg_new", "sgn_new"} = Name
  BY DEF Name
<1>4. snap # Missing /\ Missing <= Empty
  BY <1>1, Numbers DEF Missing, Empty
<1> USE <1>1, <1>2
<1>5. CASE BackupCfg
  <2>1. Moved("backupCfg", "cfg", "cfg.tmp", "backupSgn", "installCfg")
    BY <1>3, <1>5, RenameFiles DEF BackupCfg
  <2>2. CASE c # cur
    BY <2>1, <2>2 DEF Moved, Aged
  <2>3. CASE c = cur
    <3>1. Recent(file[c]["cfg"], previous[c])
      BY <1>3, Contents DEF Aged, Recent, Empty
    <3> QED BY <1>4, <2>1, <2>3, <3>1 DEF Moved, Aged, Fault, Name, Recent
  <2> QED BY <2>2, <2>3
<1>6. CASE BackupSgn
  <2>1. Moved("backupSgn", "sgn", "sgn.tmp", "installCfg", "installCfg")
    BY <1>3, <1>6, RenameFiles DEF BackupSgn
  <2>2. CASE c # cur
    BY <2>1, <2>2 DEF Moved, Aged
  <2>3. CASE c = cur
    BY <2>1, <2>3 DEF Moved, Aged, Fault, Name
  <2> QED BY <2>2, <2>3
<1>7. CASE InstallCfg
  <2>1. Moved("installCfg", "cfg_new", "cfg", "installSgn", "saveDone")
    BY <1>3, <1>7, RenameFiles DEF InstallCfg
  <2>2. CASE c # cur
    BY <2>1, <2>2 DEF Moved, Aged
  <2>3. CASE c = cur
    BY <1>4, <2>1, <2>3 DEF Moved, Aged, Fault, Name, Progress, Recent
  <2> QED BY <2>2, <2>3
<1>8. CASE InstallSgn
  <2>1. Moved("installSgn", "sgn_new", "sgn", "saveDone", "saveDone")
    BY <1>3, <1>8, RenameFiles DEF InstallSgn
  <2>2. CASE c # cur
    BY <2>1, <2>2 DEF Moved, Aged
  <2>3. CASE c = cur
    BY <2>1, <2>3 DEF Moved, Aged, Fault, Name
  <2> QED BY <2>2, <2>3
<1> QED BY <1>5, <1>6, <1>7, <1>8

\* Every other step of the program.
LEMMA OtherAges ==
    ASSUME AgeInv,
           \/ \E c \in Config : Change(c) \/ IndicateConfigChanged(c) \/ LookAt(c)
           \/ TickScan \/ TickSave \/ CompleteConfiguration \/ FinalSave \/ DisableSaving
           \/ Leave \/ SaveList \/ SaveDone \/ Start
    PROVE  \A c \in Config : Aged(c)'
<1>1. TypeOK /\ Progress
  BY DEF AgeInv, FilesInv
<1> SUFFICES ASSUME NEW d \in Config PROVE Aged(d)'
  OBVIOUS
<1>2. Aged(d)
  BY DEF AgeInv
<1> USE <1>1, <1>2, Contents, ConfigAssumption
<1>3. ASSUME NEW c \in Config, Change(c) PROVE Aged(d)'
  <2>1. /\ UNCHANGED <<flag, cur, step, snap, faulty, file, committed, previous>>
        /\ newest' = [newest EXCEPT ![c] = @ + 1]
        /\ value' = [value EXCEPT ![c] = newest[c] + 1]
        /\ unindicated' = unindicated \cup {c}
    BY <1>3 DEF Change, walk, ledger
  <2>2. CASE d = c
    <3>1. newest'[d] = newest[d] + 1 /\ value'[d] = newest'[d]
      BY <2>1, <2>2 DEF TypeOK
    <3> QED BY <2>1, <3>1 DEF Aged
  <2>3. CASE d # c
    <3>1. newest'[d] = newest[d] /\ value'[d] = value[d]
          /\ (d \in unindicated' => d \in unindicated)
      BY <2>1, <2>3 DEF TypeOK
    <3> QED BY <2>1, <3>1 DEF Aged
  <2> QED BY <2>2, <2>3
<1>4. ASSUME NEW c \in Config, IndicateConfigChanged(c) PROVE Aged(d)'
  <2>1. /\ UNCHANGED <<value, newest, cur, step, snap, faulty, file, committed, previous>>
        /\ flag' = [flag EXCEPT ![c] = [i \in {0, 1} |-> TRUE]]
        /\ unindicated' = unindicated \ {c} /\ c \in unindicated
    BY <1>4 DEF IndicateConfigChanged, walk, ledger
  <2>2. d \in unindicated' \/ flag'[d][1] => d \in unindicated \/ flag[d][1]
    BY <2>1 DEF TypeOK
  <2> QED BY <2>1, <2>2 DEF Aged
<1>5. ASSUME NEW c \in Config, LookAt(c) PROVE Aged(d)'
  <2>1. /\ UNCHANGED <<value, newest, unindicated, snap, faulty, file, committed, previous>>
        /\ cur = None
        /\ (cur' = c /\ step' = "saveList" /\ flag[c][1]) \/ UNCHANGED <<cur, step>>
    BY <1>5 DEF LookAt, ledger
  <2>2. flag'[d][1] => flag[d][1]
    <3>1. flag[c] \in [{0, 1} -> BOOLEAN] /\ flag \in [Config -> [{0, 1} -> BOOLEAN]]
      BY DEF TypeOK
    <3>2. flag' = [flag EXCEPT ![c] = Consumed(@, 1)]
      BY <1>5 DEF LookAt
    <3> QED BY <3>1, <3>2 DEF Consumed
  <2> QED BY <2>1, <2>2 DEF Aged
<1>6. CASE TickScan
  <2>1. flag'[d][1] = flag[d][1]
    BY <1>6 DEF TickScan, Consumed, TypeOK
  <2>2. UNCHANGED <<value, newest, unindicated, cur, step, snap, faulty, file, committed,
                    previous>>
    BY <1>6 DEF TickScan, walk, ledger
  <2> QED BY <2>1, <2>2 DEF Aged
<1>7. CASE \/ TickSave \/ CompleteConfiguration \/ FinalSave \/ DisableSaving \/ Leave
  <2>1. UNCHANGED <<value, newest, unindicated, flag, cur, step, snap, faulty, file,
                    committed, previous>>
    BY <1>7 DEF TickSave, Enter, CompleteConfiguration, FinalSave, DisableSaving, Leave,
                service, walk, ledger
  <2> QED BY <2>1 DEF Aged
<1>8. CASE SaveList
  <2>1. /\ UNCHANGED <<value, newest, unindicated, flag, cur, file, committed, previous>>
        /\ step = "saveList" /\ step' = "open" /\ snap' = value[cur]
    BY <1>8 DEF SaveList, At, Goto, service
  <2> QED BY <2>1 DEF Aged
<1>9. CASE SaveDone
  <2>1. /\ UNCHANGED <<value, newest, unindicated, flag, file>>
        /\ cur \in Config /\ cur # None /\ cur' = None /\ step = "saveDone"
    BY <1>9 DEF SaveDone, At, service, TypeOK
  <2>2. CASE faulty \/ cur # d
    <3>1. committed'[d] = committed[d] /\ previous'[d] = previous[d]
      BY <1>9, <2>1, <2>2 DEF SaveDone, ledger, TypeOK
    <3> QED BY <2>1, <3>1 DEF Aged
  <2>3. CASE ~faulty /\ cur = d
    <3>1. committed'[d] = snap /\ previous'[d] = committed[d]
      BY <1>9, <2>1, <2>3 DEF SaveDone, TypeOK
    <3>2. file[d]["cfg"] = snap /\ snap # Missing
      BY <2>1, <2>3, Numbers DEF Progress
    <3>3. Recent(snap, snap) /\ Recent(Missing, snap)
      BY DEF Recent, Missing, Empty
    <3> QED BY <2>1, <2>3, <3>1, <3>2, <3>3 DEF Aged
  <2> QED BY <2>2, <2>3
<1>10. CASE Start
  <2>1. /\ UNCHANGED <<newest, file, committed, previous>> /\ cur' = None
        /\ unindicated' = {} /\ flag'[d][1] = FALSE
    BY <1>10 DEF Start, ledger
  <2> QED BY <2>1 DEF Aged
<1> QED BY <1>3, <1>4, <1>5, <1>6, <1>7, <1>8, <1>9, <1>10

\* Every step preserves the invariant.
LEMMA NextAges == AgeInv /\ [Next]_vars => AgeInv'
<1> SUFFICES ASSUME AgeInv, [Next]_vars
             PROVE  AgeInv'
  OBVIOUS
<1>1. FilesInv' /\ TypeOK'
  BY NextFiles DEF AgeInv, FilesInv
<1>2. CASE UNCHANGED vars
  BY <1>1, <1>2 DEF vars, service, walk, ledger, AgeInv, Aged
<1>3. CASE Next
  BY <1>1, <1>3, WriteAges, RenameAges, OtherAges DEF Next, Saving, Crash, Exit, AgeInv
<1> QED BY <1>2, <1>3

\* There are no files at first.
LEMMA InitAges == Init => AgeInv
<1> SUFFICES ASSUME Init, NEW c \in Config
             PROVE  Aged(c)
  BY InitFiles DEF AgeInv
<1>1. /\ previous[c] = 0 /\ committed[c] = 0 /\ newest[c] = 0 /\ value[c] = 0
      /\ cur # c /\ \A n \in Name : file[c][n] = -1
  BY ConfigAssumption DEF Init, Empty, Missing
<1> QED BY <1>1 DEF Aged, Recent, Empty, Name, Init

\* A restart loads nothing older than the save before the last: stale files that
\* crashes and failed saves leave behind never come back.
THEOREM NothingStaleIsLoaded == Spec => []NotOlderThanBackup
<1>1. AgeInv => NotOlderThanBackup
  <2> SUFFICES ASSUME AgeInv, NEW c \in Config
               PROVE  Loaded(file[c]) = Empty \/ Loaded(file[c]) >= previous[c]
    BY DEF NotOlderThanBackup
  <2>1. TypeOK /\ Aged(c) /\ Loaded(file[c]) \in Version
    BY LoadedVersion DEF AgeInv, FilesInv, TypeOK
  <2>2. /\ Loaded(file[c]) \in Int /\ Loaded(file[c]) >= 0
        /\ previous[c] \in Int /\ committed[c] \in Int
        /\ file[c]["cfg"] \in Int /\ file[c]["cfg.tmp"] \in Int
    BY <2>1, Contents, Ranges DEF Version, Name
  <2>3. Loaded(file[c]) \in {Empty, file[c]["cfg"], file[c]["cfg.tmp"]}
    BY DEF Loaded, HashOf
  <2> QED BY <2>1, <2>2, <2>3 DEF Aged, Recent, Empty
<1> QED BY <1>1, InitAges, NextAges, PTL DEF Spec
=============================================================================
