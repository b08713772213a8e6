---------------------------- MODULE ConfigFiles ----------------------------
(***************************************************************************)
(* The configuration manager (pqi/p3cfgmgr.cc): how the configurations of  *)
(* the services reach the disk, and what a restart finds there.            *)
(*                                                                         *)
(* A configuration is known by its version: 0 is the empty configuration   *)
(* of a service that has loaded nothing, every change makes a new version. *)
(* Six files belong to a configuration: the current one and its signature, *)
(* the backup of both (.tmp) and the new ones that are being written       *)
(* (_new).  A configuration file holds a version or is damaged; a          *)
(* signature file holds the version whose hash was signed.                 *)
(*                                                                         *)
(* Two threads save: the data thread with tick(), and the one that shuts   *)
(* down with completeConfiguration().  Services change their data in       *)
(* threads of their own.                                                   *)
(***************************************************************************)
EXTENDS Integers, FiniteSets

CONSTANTS Config,       \* mConfigs
          MaxVersion,   \* bound: changes of each configuration
          MaxCrashes,   \* bound: crashes of the process
          MaxFaults,    \* bound: file operations that fail
          MaxFull       \* bound: times that the disc is found full

ASSUME BoundsAssumption ==
    {MaxVersion, MaxCrashes, MaxFaults, MaxFull} \subseteq Nat

VARIABLES
    \* of each configuration
    value,      \* the data of the service, as a version
    newest,     \* the number of versions so far
    unindicated,\* changed, IndicateConfigChanged() not yet called
    flag,       \* ConfInd: the two change flags, for tick() and saveConfig()
    file,       \* the six files
    \* of the manager
    active,     \* mConfigSaveActive
    tick,       \* tick() has decided to save, and has not yet done so
    final,      \* progress of completeConfiguration()
    holder,     \* the thread that is in saveConfig(), holding cfgMtx
    todo,       \* configurations that it has still to look at
    cur,        \* the one it saves, and the place in p3Config::saveConfig()
    step,
    snap,       \* version that saveList() returned
    hash,       \* version whose hash will be signed
    \* history
    indicated,  \* newest version indicated since the start of the process
    due,        \* those that completeConfiguration() has to save
    committed,  \* the last version saved without a fault, and the one before
    previous,
    sound,      \* the last save of this configuration ended without a fault
    faulty,     \* the save under way has met a fault
    crashes, faults, full

service == <<value, newest, unindicated, flag, indicated>>
walk    == <<holder, todo, cur, step, snap, hash, faulty>>
manager == <<active, tick, final, due>>
ledger  == <<committed, previous, sound>>
bounds  == <<crashes, faults, full>>
vars    == <<service, walk, manager, ledger, bounds, file>>

None    == "none"
Missing == -1
Damaged == -2
Empty   == 0

ASSUME ConfigAssumption == None \notin Config

Name == {"cfg", "sgn", "cfg.tmp", "sgn.tmp", "cfg_new", "sgn_new"}

Steps == {"saveList", "open", "send", "sign", "backupCfg", "backupSgn",
          "installCfg", "installSgn", "saveDone"}

Version == 0 .. MaxVersion

-----------------------------------------------------------------------------
(* Loading *)

\* What loadAttempt() hashes: a file that is not there gives the hash of no
\* data, as an empty one does.
HashOf(content) == IF content = Missing THEN Empty ELSE content

\* loadAttempt(): the signature must be there and be that of the data read.
\* (getEncryptedItems() never fails; no signature is that of a damaged file.)
LoadAttempt(f, cfg, sgn) == /\ f[sgn] \in Version
                            /\ f[sgn] = HashOf(f[cfg])

\* Mutant: accepts a backup without looking at its signature.
LoadedUnsigned(f) == IF LoadAttempt(f, "cfg", "sgn") THEN HashOf(f["cfg"])
                     ELSE HashOf(f["cfg.tmp"])

\* p3Config::loadConfig(): the current files, the backups, or nothing at all.
Loaded(f) == IF LoadAttempt(f, "cfg", "sgn") THEN HashOf(f["cfg"])
             ELSE IF LoadAttempt(f, "cfg.tmp", "sgn.tmp") THEN HashOf(f["cfg.tmp"])
             ELSE Empty

-----------------------------------------------------------------------------
Init == /\ value = [c \in Config |-> Empty]
        /\ newest = [c \in Config |-> 0]
        /\ unindicated = {}
        /\ flag = [c \in Config |-> [i \in {0, 1} |-> FALSE]]
        /\ file = [c \in Config |-> [n \in Name |-> Missing]]
        /\ active = TRUE /\ tick = FALSE /\ final = "no"
        /\ holder = None /\ todo = {} /\ cur = None /\ step = None
        /\ snap = Empty /\ hash = Empty /\ faulty = FALSE
        /\ indicated = [c \in Config |-> Empty]
        /\ due = [c \in Config |-> Empty]
        /\ committed = [c \in Config |-> Empty]
        /\ previous = [c \in Config |-> Empty]
        /\ sound = [c \in Config |-> FALSE]
        /\ crashes = 0 /\ faults = 0 /\ full = 0

(* Services *)

\* A service changes its data, under a mutex of its own ...
Change(c) == /\ c \notin unindicated
             /\ newest[c] < MaxVersion
             /\ newest' = [newest EXCEPT ![c] = @ + 1]
             /\ value' = [value EXCEPT ![c] = newest[c] + 1]
             /\ unindicated' = unindicated \cup {c}
             /\ UNCHANGED <<flag, indicated, walk, manager, ledger, bounds, file>>

\* ... and then calls IndicateConfigChanged(), outside that mutex.
IndicateConfigChanged(c) ==
    /\ c \in unindicated
    /\ unindicated' = unindicated \ {c}
    /\ flag' = [flag EXCEPT ![c] = [i \in {0, 1} |-> TRUE]]
    /\ indicated' = [indicated EXCEPT ![c] = value[c]]
    /\ UNCHANGED <<value, newest, walk, manager, ledger, bounds, file>>

(* The two threads *)

\* Mutant: one flag for both readers.
ConsumedBoth(fl, idx) == [i \in {0, 1} |-> FALSE]

\* HasConfigChanged(idx): tells the flag and clears it.
Consumed(fl, idx) == [fl EXCEPT ![idx] = FALSE]

\* tick(), first part, under the mutex of the manager.
TickScan == /\ holder = None /\ ~tick
            /\ flag' = [c \in Config |-> Consumed(flag[c], 0)]
            /\ tick' = (active /\ \E c \in Config : flag[c][0])
            /\ UNCHANGED <<value, newest, unindicated, indicated, walk, active,
                           final, due, ledger, bounds, file>>

\* Enters saveConfig() as thread t.
Enter(t) == /\ holder = None
            /\ holder' = t
            /\ todo' = Config
            /\ UNCHANGED <<cur, step, snap, hash, faulty>>

DiscFull == full < MaxFull /\ full' = full + 1

\* tick(), second part: saveConfiguration(), which gives up on a full disc.
TickSave == /\ tick /\ holder # "tick"
            /\ \/ Enter("tick") /\ UNCHANGED <<tick, full>>
               \/ DiscFull /\ tick' = FALSE /\ UNCHANGED walk
            /\ UNCHANGED <<service, active, final, due, ledger, crashes, faults, file>>

\* completeConfiguration(), called once, when the program ends.
CompleteConfiguration ==
    /\ final = "no"
    /\ \/ /\ final' = "save"
          /\ due' = indicated
          /\ UNCHANGED full
       \/ DiscFull /\ final' = "saved" /\ UNCHANGED due
    /\ UNCHANGED <<service, walk, active, tick, ledger, crashes, faults, file>>

FinalSave == /\ final = "save" /\ holder # "final"
             /\ Enter("final")
             /\ UNCHANGED <<service, manager, ledger, bounds, file>>

DisableSaving == /\ final = "saved" /\ holder = None
                 /\ active' = FALSE
                 /\ final' = "done"
                 /\ UNCHANGED <<service, walk, tick, due, ledger, bounds, file>>

-----------------------------------------------------------------------------
(* saveConfig() of the manager: the configurations whose flag is set *)

LookAt(c) == /\ holder # None /\ cur = None /\ c \in todo
             /\ todo' = todo \ {c}
             /\ flag' = [flag EXCEPT ![c] = Consumed(@, 1)]
             /\ IF flag[c][1] THEN cur' = c /\ step' = "saveList"
                              ELSE UNCHANGED <<cur, step>>
             /\ UNCHANGED <<value, newest, unindicated, indicated, holder, snap,
                            hash, faulty, manager, ledger, bounds, file>>

Leave == /\ holder # None /\ cur = None /\ todo = {}
         /\ holder' = None
         /\ IF holder = "tick" THEN tick' = FALSE /\ UNCHANGED final
                               ELSE final' = "saved" /\ UNCHANGED tick
         /\ UNCHANGED <<service, todo, cur, step, snap, hash, faulty, active,
                        due, ledger, bounds, file>>

(* p3Config::saveConfig() of one configuration *)

At(s) == holder # None /\ cur # None /\ step = s

Goto(s) == step' = s /\ UNCHANGED <<holder, todo, cur>>

Fault == faults < MaxFaults /\ faults' = faults + 1 /\ faulty' = TRUE

NoFault == UNCHANGED <<faults, faulty>>

SaveList == /\ At("saveList") /\ Goto("open")
            /\ snap' = value[cur]
            /\ faulty' = FALSE
            /\ sound' = [sound EXCEPT ![cur] = FALSE]
            /\ UNCHANGED <<service, hash, manager, committed, previous, bounds, file>>

\* The new file is created empty, or cannot be opened: then nothing is sent.
OpenNew == /\ At("open")
           /\ \/ /\ NoFault /\ Goto("send")
                 /\ file' = [file EXCEPT ![cur]["cfg_new"] = Empty]
              \/ Fault /\ Goto("sign") /\ UNCHANGED file
           /\ hash' = Empty
           /\ UNCHANGED <<service, snap, manager, ledger, crashes, full>>

\* encryptedSendItems(), senddata() and the closing of the file.  Data that is
\* not written does not count in the hash, unless it is the closing that fails.
SendItems == /\ At("send") /\ Goto("sign")
             /\ \/ /\ NoFault
                   /\ file' = [file EXCEPT ![cur]["cfg_new"] = snap]
                   /\ hash' = snap
                \/ /\ Fault
                   /\ \E left \in {Empty, Damaged} :
                         file' = [file EXCEPT ![cur]["cfg_new"] = left]
                   /\ hash' \in {Empty, snap}
             /\ UNCHANGED <<service, snap, manager, ledger, crashes, full>>

\* writetofile(), whose result is ignored.
WriteSignature == /\ At("sign") /\ Goto("backupCfg")
                  /\ \/ NoFault /\ file' = [file EXCEPT ![cur]["sgn_new"] = hash]
                     \/ Fault /\ file' = [file EXCEPT ![cur]["sgn_new"] = Damaged]
                     \/ Fault /\ UNCHANGED file
                  /\ UNCHANGED <<service, snap, hash, manager, ledger, crashes, full>>

\* renameFile(): moves a file that is there, over the one of the new name.
Renamed(f, from, to) == [f EXCEPT ![to] = f[from], ![from] = Missing]

\* The two renames of a condition "!rename(a) || !rename(b)": the second is not
\* tried when the first fails, for want of the file or for a fault.  Either way
\* the program goes on.
Rename(s, from, to, next, after) ==
    /\ At(s)
    /\ \/ /\ file[cur][from] # Missing
          /\ file' = [file EXCEPT ![cur] = Renamed(@, from, to)]
          /\ NoFault /\ Goto(next)
       \/ /\ UNCHANGED file /\ Goto(after)
          /\ (file[cur][from] = Missing /\ NoFault) \/ Fault
    /\ UNCHANGED <<service, snap, hash, manager, ledger, crashes, full>>

\* Mutant: the current files are not backed up.
NoBackupCfg == /\ At("backupCfg") /\ Goto("installCfg") /\ NoFault
               /\ UNCHANGED <<service, snap, hash, manager, ledger, crashes,
                              full, file>>

\* The backup steps.
BackupCfg == Rename("backupCfg", "cfg", "cfg.tmp", "backupSgn", "installCfg")
BackupSgn == Rename("backupSgn", "sgn", "sgn.tmp", "installCfg", "installCfg")

\* The new files become the current ones.
InstallCfg == Rename("installCfg", "cfg_new", "cfg", "installSgn", "saveDone")

\* Mutant: the new signature stays where it is.
NoInstallSgn == /\ At("installSgn") /\ Goto("saveDone") /\ NoFault
                /\ UNCHANGED <<service, snap, hash, manager, ledger, crashes,
                               full, file>>

InstallSgn == Rename("installSgn", "sgn_new", "sgn", "saveDone", "saveDone")

\* saveDone(); the result of the save is ignored by the manager.
SaveDone == /\ At("saveDone")
            /\ cur' = None /\ step' = None
            /\ snap' = Empty /\ hash' = Empty /\ faulty' = FALSE
            /\ IF faulty THEN UNCHANGED ledger
               ELSE /\ previous' = [previous EXCEPT ![cur] = committed[cur]]
                    /\ committed' = [committed EXCEPT ![cur] = snap]
                    /\ sound' = [sound EXCEPT ![cur] = TRUE]
            /\ UNCHANGED <<service, holder, todo, manager, bounds, file>>

-----------------------------------------------------------------------------
\* loadConfig() of the manager in a new process: what was loaded does not
\* count as changed.
Start == /\ value' = [c \in Config |-> Loaded(file[c])]
         /\ unindicated' = {}
         /\ flag' = [c \in Config |-> [i \in {0, 1} |-> FALSE]]
         /\ indicated' = [c \in Config |-> Empty]
         /\ due' = [c \in Config |-> Empty]
         /\ active' = TRUE /\ tick' = FALSE /\ final' = "no"
         /\ holder' = None /\ todo' = {} /\ cur' = None /\ step' = None
         /\ snap' = Empty /\ hash' = Empty /\ faulty' = FALSE
         /\ UNCHANGED <<newest, ledger, faults, full, file>>

\* The process dies between two steps and is started again.
Crash == crashes < MaxCrashes /\ crashes' = crashes + 1 /\ Start

\* The program ends as it should, and is started again.
Exit == final = "done" /\ holder = None /\ UNCHANGED crashes /\ Start

Saving == \/ Leave \/ SaveList \/ OpenNew \/ SendItems \/ WriteSignature
          \/ BackupCfg \/ BackupSgn \/ InstallCfg \/ InstallSgn \/ SaveDone
          \/ \E c \in Config : LookAt(c)

Next == \/ \E c \in Config : Change(c) \/ IndicateConfigChanged(c)
        \/ TickScan \/ TickSave \/ CompleteConfiguration
        \/ FinalSave \/ DisableSaving \/ Saving
        \/ Crash \/ Exit

Spec == Init /\ [][Next]_vars

\* The threads run.  Services, crashes and the end of the program are free.
FairSpec == /\ Spec
            /\ WF_vars(TickScan) /\ WF_vars(TickSave) /\ WF_vars(Saving)
            /\ WF_vars(FinalSave) /\ WF_vars(DisableSaving)
            /\ \A c \in Config : WF_vars(IndicateConfigChanged(c))

-----------------------------------------------------------------------------
(* Properties *)

\* Every variable keeps its type; a save is under way only in the thread that
\* holds the mutex of the manager.
TypeOK ==
    /\ value \in [Config -> Version]
    /\ newest \in [Config -> Version]
    /\ unindicated \subseteq Config
    /\ flag \in [Config -> [{0, 1} -> BOOLEAN]]
    /\ file \in [Config -> [Name -> Version \cup {Missing, Damaged}]]
    /\ active \in BOOLEAN /\ tick \in BOOLEAN
    /\ final \in {"no", "save", "saved", "done"}
    /\ holder \in {None, "tick", "final"}
    /\ todo \subseteq Config
    /\ cur \in Config \cup {None}
    /\ step \in Steps \cup {None}
    /\ (cur = None) <=> (step = None)
    /\ holder = None => cur = None
    /\ snap \in Version /\ hash \in Version
    /\ indicated \in [Config -> Version] /\ due \in [Config -> Version]
    /\ committed \in [Config -> Version] /\ previous \in [Config -> Version]
    /\ sound \in [Config -> BOOLEAN] /\ faulty \in BOOLEAN
    /\ crashes \in 0 .. MaxCrashes /\ faults \in 0 .. MaxFaults
    /\ full \in 0 .. MaxFull

\* Once a save has ended without a fault, a restart loads exactly what it saved,
\* whatever crashes and failed saves left in the six files before
\* (p3Config::saveConfig() and loadConfig()).
SavedIsLoaded == \A c \in Config : sound[c] => Loaded(file[c]) = committed[c]

\* A restart loads nothing older than the save before the last: stale files
\* that crashes and failed saves leave behind never come back.
NotOlderThanBackup ==
    \A c \in Config : Loaded(file[c]) = Empty \/ Loaded(file[c]) >= previous[c]

\* The backup covers the save under way: as long as no crash and no fault has
\* happened before, a crash at any point, except between the renames of the file
\* and of its signature, finds the last saved version or a newer one.
BackupCovers ==
    crashes = 0 /\ faults = 0 =>
        \A c \in Config : \/ At("backupSgn") /\ cur = c
                          \/ Loaded(file[c]) >= committed[c]

\* When completeConfiguration() has saved, every change that was indicated before
\* it was called is on disk, also those that a tick skipped on a full disc and
\* those that the other thread was just saving.
FinalSaveComplete ==
    final \in {"saved", "done"} /\ faults = 0 =>
        \A c \in Config : committed[c] >= due[c]

\* A change that is indicated gets to the disk while the program runs, unless the
\* disc was full at a tick or a file operation failed: both cost the change its
\* save until the next change (tick() clears its flag first).
ChangeSaved ==
    \A c \in Config : \A v \in 1 .. MaxVersion :
        indicated[c] = v ~> \/ committed[c] >= v
                            \/ indicated[c] < v
                            \/ full > 0 \/ faults > 0 \/ final # "no"

\* p3cfgmgr.cc:246: "try 2nd attempt with backup files if first failed".  A crash
\* never costs a configuration that was once saved.
ConfigSurvivesCrash ==
    [][Crash => \A c \in Config : committed[c] # Empty => value'[c] # Empty]_vars
=============================================================================
