------------------------------ MODULE Recovery ------------------------------
(***************************************************************************)
(* The files of a database and what a crash leaves of them: log files,     *)
(* tables, MANIFEST files and CURRENT; the writes, memtable flushes and    *)
(* compactions that change them; DB::Open, which puts the state together   *)
(* again.  The database can crash between any two actions.                 *)
(*                                                                         *)
(* A process that crashes leaves every record it wrote.  A machine that    *)
(* crashes leaves of each log and MANIFEST what was synced and any number  *)
(* of the records after it.  A table is synced before it is complete.      *)
(* CURRENT is renamed atomically.  A file ends at the end of a record.     *)
(*                                                                         *)
(* Levels are left to LSM.tla: a compaction puts together what its inputs  *)
(* hold.  All files of a database take their numbers from one counter.     *)
(***************************************************************************)
EXTENDS Integers, Sequences, FiniteSets, SequencesExt

CONSTANTS
    MaxWrites,      \* bound: writes
    MaxNumber,      \* bound: file numbers
    MaxCrashes,     \* bound: crashes
    MaxCompactions, \* bound: compactions
    MaxFailures,    \* bound: errors when the MANIFEST is written
    ReuseLogs,      \* the values options.reuse_logs has when it is opened
    NoFile,         \* a file that does not exist
    Partial,        \* a table that is not complete
    Nothing         \* no edit, no table, no write

Ids == 1..MaxWrites
Numbers == 1..MaxNumber

ASSUME RecoveryAssumption ==
    /\ {MaxWrites, MaxNumber, MaxCrashes, MaxCompactions, MaxFailures} \subseteq Nat
    /\ MaxNumber >= 2
    /\ ReuseLogs \in SUBSET BOOLEAN /\ ReuseLogs # {}

Records == [id : Ids, seq : Ids]
Edits == [log : 0..MaxNumber, next : 2..(MaxNumber + 1), last : 0..MaxWrites,
          added : SUBSET Numbers, removed : SUBSET Numbers]
LogFiles == [records : Seq(Records), synced : Nat]
ManifestFiles == [records : Seq(Edits), synced : Nat]
PendingWrites == [record : Records, sync : BOOLEAN]
PendingEdits == [by : {"flush", "compaction", "open"}, edit : Edits]
Compactions == [inputs : SUBSET Numbers, output : Numbers]

ASSUME NamesAssumption ==
    /\ NoFile \notin LogFiles \cup ManifestFiles \cup Numbers
    /\ NoFile # Partial /\ \A records \in SUBSET Records : records \notin {NoFile, Partial}
    /\ Nothing \notin PendingWrites \cup PendingEdits \cup Compactions \cup Numbers

VARIABLES
    (* On disk. *)
    logs,           \* log files: the records, and how many of them are synced
    tables,         \* tables: the records
    manifests,      \* MANIFEST files: the edits, and how many are synced
    current,        \* the MANIFEST that CURRENT names
    (* In memory. *)
    phase,          \* how far DB::Open has come
    mem, imm,       \* memtables
    has_imm,        \* imm_ # nullptr
    writing,        \* the record between the log and the memtable
    logfile_number, \* logfile_number_
    log_number, next_file_number, last_sequence, manifest_file_number, \* of versions_
    live,           \* files of the current version
    pending_outputs,
    obsolete,       \* files RemoveObsoleteFiles is removing
    edit,           \* the edit that LogAndApply is writing
    flushing,       \* the table of CompactMemTable
    compaction,     \* inputs and output of DoCompactionWork
    bg_error,
    (* Of DB::Open. *)
    todo,           \* logs to recover, the oldest first
    recovered,      \* tables made of them
    save_manifest, reuse,
    (* History and bounds. *)
    written,        \* writes so far
    promised,       \* writes that said ok or were found when it was opened, but
                    \* those a machine crash may lose
    firm,           \* the ones no crash may lose: sync = true, or in a table
    crashes, compactions, failures

diskVars == <<logs, tables, manifests, current>>
versionVars == <<log_number, next_file_number, last_sequence, manifest_file_number, live>>
writeVars == <<mem, imm, has_imm, writing, logfile_number>>
workVars == <<pending_outputs, obsolete, edit, flushing, compaction, bg_error>>
openVars == <<todo, recovered, save_manifest, reuse>>
historyVars == <<written, promised, firm, crashes, compactions, failures>>
vars == <<diskVars, phase, versionVars, writeVars, workVars, openVars, historyVars>>

\* Files by number; the kinds have separate names.
Logs == {n \in Numbers : logs[n] # NoFile}
Tables == {n \in Numbers : tables[n] # NoFile}
Manifests == {n \in Numbers : manifests[n] # NoFile}

TypeOK ==
    /\ logs \in [Numbers -> {NoFile} \cup LogFiles]
    /\ tables \in [Numbers -> {NoFile, Partial} \cup SUBSET Records]
    /\ manifests \in [Numbers -> {NoFile} \cup ManifestFiles]
    /\ \A n \in Logs : logs[n].synced <= Len(logs[n].records)
    /\ \A n \in Manifests : manifests[n].synced <= Len(manifests[n].records)
    /\ current = NoFile \/ current \in Manifests
    /\ phase \in {"down", "logs", "save", "install", "clean", "open", "corrupt"}
    /\ mem \in Seq(Records) /\ imm \in Seq(Records) /\ has_imm \in BOOLEAN
    /\ writing \in {Nothing} \cup PendingWrites
    /\ logfile_number \in 0..MaxNumber /\ log_number \in 0..MaxNumber
    /\ next_file_number \in 1..(MaxNumber + 1) /\ last_sequence \in 0..MaxWrites
    /\ manifest_file_number \in 0..MaxNumber
    /\ live \subseteq Numbers /\ pending_outputs \subseteq Numbers
    /\ obsolete \in [logs : SUBSET Numbers, tables : SUBSET Numbers, manifests : SUBSET Numbers]
    /\ edit \in {Nothing} \cup PendingEdits
    /\ flushing \in {Nothing} \cup Numbers
    /\ compaction \in {Nothing} \cup Compactions
    /\ compaction # Nothing => compaction.inputs \subseteq live /\ compaction.inputs # {}
    /\ bg_error \in BOOLEAN /\ save_manifest \in BOOLEAN /\ reuse \in BOOLEAN
    /\ todo \subseteq Numbers /\ recovered \subseteq Numbers
    /\ written \in 0..MaxWrites /\ firm \subseteq promised /\ promised \subseteq Ids
    /\ crashes \in 0..MaxCrashes /\ compactions \in 0..MaxCompactions
    /\ failures \in 0..MaxFailures

NoObsolete == [logs |-> {}, tables |-> {}, manifests |-> {}]

\* What is in memory when no process has the database open.
MemoryLost ==
    /\ phase' = "down"
    /\ mem' = <<>> /\ imm' = <<>> /\ has_imm' = FALSE /\ writing' = Nothing
    /\ logfile_number' = 0 /\ log_number' = 0 /\ next_file_number' = 2
    /\ last_sequence' = 0 /\ manifest_file_number' = 0 /\ live' = {}
    /\ pending_outputs' = {} /\ obsolete' = NoObsolete /\ edit' = Nothing
    /\ flushing' = Nothing /\ compaction' = Nothing /\ bg_error' = FALSE
    /\ todo' = {} /\ recovered' = {} /\ save_manifest' = FALSE /\ reuse' = FALSE

\* An empty directory.
Init ==
    /\ logs = [n \in Numbers |-> NoFile] /\ tables = [n \in Numbers |-> NoFile]
    /\ manifests = [n \in Numbers |-> NoFile] /\ current = NoFile
    /\ phase = "down"
    /\ mem = <<>> /\ imm = <<>> /\ has_imm = FALSE /\ writing = Nothing
    /\ logfile_number = 0 /\ log_number = 0 /\ next_file_number = 2
    /\ last_sequence = 0 /\ manifest_file_number = 0 /\ live = {}
    /\ pending_outputs = {} /\ obsolete = NoObsolete /\ edit = Nothing
    /\ flushing = Nothing /\ compaction = Nothing /\ bg_error = FALSE
    /\ todo = {} /\ recovered = {} /\ save_manifest = FALSE /\ reuse = FALSE
    /\ written = 0 /\ promised = {} /\ firm = {}
    /\ crashes = 0 /\ compactions = 0 /\ failures = 0

NewFileNumber == next_file_number <= MaxNumber /\ next_file_number' = next_file_number + 1

-----------------------------------------------------------------------------
(* Crashes.                                                                *)

ProcessCrash ==
    /\ phase # "down" /\ crashes < MaxCrashes
    /\ crashes' = crashes + 1
    /\ MemoryLost
    /\ UNCHANGED <<diskVars, written, promised, firm, compactions, failures>>

\* How much may be left of each file, where the others are NoFile.
Kept(files, existing) ==
    LET longest == Max({0} \cup {Len(files[n].records) : n \in existing})
    IN  {kept \in [existing -> 0..longest] :
            \A n \in existing : files[n].synced <= kept[n] /\ kept[n] <= Len(files[n].records)}

Truncate(files, kept) ==
    [n \in Numbers |->
        IF n \in DOMAIN kept
        THEN [records |-> SubSeq(files[n].records, 1, kept[n]), synced |-> kept[n]]
        ELSE NoFile]

MachineCrash ==
    /\ phase # "down" /\ crashes < MaxCrashes
    /\ crashes' = crashes + 1
    /\ \E kept \in Kept(logs, Logs) : logs' = Truncate(logs, kept)
    /\ \E kept \in Kept(manifests, Manifests) : manifests' = Truncate(manifests, kept)
    /\ promised' = firm
    /\ MemoryLost
    /\ UNCHANGED <<tables, current, written, firm, compactions, failures>>

-----------------------------------------------------------------------------
(* Writes, by the one writer at the head of the queue.                     *)

\* AddRecord: the batch gets the next sequence number.
AddRecord(sync) ==
    /\ phase = "open" /\ writing = Nothing /\ ~bg_error
    /\ written < MaxWrites
    /\ written' = written + 1
    /\ LET record == [id |-> written', seq |-> last_sequence + 1]
       IN  /\ writing' = [record |-> record, sync |-> sync]
           /\ logs' = [logs EXCEPT ![logfile_number].records = Append(@, record)]
    /\ UNCHANGED <<tables, manifests, current, phase, versionVars, mem, imm, has_imm,
                   logfile_number, workVars, openVars, promised, firm, crashes, compactions,
                   failures>>

\* Sync, InsertInto, SetLastSequence, and the answer.
FinishWrite ==
    /\ writing # Nothing
    /\ IF writing.sync
       THEN /\ logs' = [logs EXCEPT ![logfile_number].synced = Len(logs[logfile_number].records)]
            /\ firm' = firm \cup {writing.record.id}
       ELSE UNCHANGED <<logs, firm>>
    /\ mem' = Append(mem, writing.record)
    /\ last_sequence' = writing.record.seq
    /\ promised' = promised \cup {writing.record.id}
    /\ writing' = Nothing
    /\ UNCHANGED <<tables, manifests, current, phase, log_number, next_file_number,
                   manifest_file_number, live, imm, has_imm, logfile_number, workVars, openVars,
                   written, crashes, compactions, failures>>

\* MakeRoomForWrite starts a new log and memtable, at any time: a flush may
\* ask for it.  The old log is closed, not synced.
SwitchLog ==
    /\ phase = "open" /\ writing = Nothing /\ ~bg_error
    /\ ~has_imm /\ mem # <<>>
    /\ NewFileNumber
    /\ logs' = [logs EXCEPT ![next_file_number] = [records |-> <<>>, synced |-> 0]]
    /\ logfile_number' = next_file_number
    /\ imm' = mem /\ has_imm' = TRUE /\ mem' = <<>>
    /\ UNCHANGED <<tables, manifests, current, phase, log_number, last_sequence,
                   manifest_file_number, live, writing, workVars, openVars, historyVars>>

-----------------------------------------------------------------------------
(* LogAndApply.                                                            *)

\* The edit, with what LogAndApply puts into it before it lets go of the
\* mutex.
Edit(log, added, removed) ==
    [log |-> log, next |-> next_file_number, last |-> last_sequence,
     added |-> added, removed |-> removed]

\* The record goes to the open MANIFEST, and is then synced.
AppendEdit(e) ==
    manifests' = [manifests EXCEPT ![manifest_file_number].records = Append(@, e)]

SyncManifest ==
    manifests' = [manifests EXCEPT ![manifest_file_number].synced =
                    Len(manifests[manifest_file_number].records)]

\* The files after an edit.
SaveTo(files, e) == (files \ e.removed) \cup e.added

\* The writes that are in a table of a version.
InTables(version) == {r.id : r \in UNION {tables[n] : n \in version \cap Tables}}

\* The version is installed when the record is safe.
InstallVersion(e) ==
    /\ SyncManifest
    /\ live' = SaveTo(live, e)
    /\ log_number' = e.log
    /\ edit' = Nothing
    /\ firm' = firm \cup (promised \cap InTables(live'))

\* A variant: the MANIFEST in use is taken for an old one.
FindObsoleteWithManifest(version, log, manifest, pending) ==
    [logs |-> {n \in Logs : n < log},
     tables |-> Tables \ (version \cup pending),
     manifests |-> {n \in Manifests : n <= manifest}]

\* A variant: outputs of a compaction under way are not looked at.
FindObsoleteButLive(version, log, manifest, pending) ==
    [logs |-> {n \in Logs : n < log},
     tables |-> Tables \ version,
     manifests |-> {n \in Manifests : n < manifest}]

\* What RemoveObsoleteFiles finds; the files are removed without the mutex.
FindObsolete(version, log, manifest, pending) ==
    [logs |-> {n \in Logs : n < log},
     tables |-> Tables \ (version \cup pending),
     manifests |-> {n \in Manifests : n < manifest}]

RemoveLog == \E n \in obsolete.logs :
    /\ logs' = [logs EXCEPT ![n] = NoFile]
    /\ obsolete' = [obsolete EXCEPT !.logs = @ \ {n}]
    /\ UNCHANGED <<tables, manifests>>

RemoveTable == \E n \in obsolete.tables :
    /\ tables' = [tables EXCEPT ![n] = NoFile]
    /\ obsolete' = [obsolete EXCEPT !.tables = @ \ {n}]
    /\ UNCHANGED <<logs, manifests>>

RemoveManifest == \E n \in obsolete.manifests :
    /\ manifests' = [manifests EXCEPT ![n] = NoFile]
    /\ obsolete' = [obsolete EXCEPT !.manifests = @ \ {n}]
    /\ UNCHANGED <<logs, tables>>

RemoveObsoleteFile ==
    /\ RemoveLog \/ RemoveTable \/ RemoveManifest
    /\ UNCHANGED <<current, phase, versionVars, writeVars, pending_outputs, edit, flushing,
                   compaction, bg_error, openVars, historyVars>>

\* The background thread has nothing in hand that it would finish first.
Ready == phase = "open" /\ obsolete = NoObsolete /\ edit = Nothing /\ flushing = Nothing

-----------------------------------------------------------------------------
(* CompactMemTable, also in the middle of a compaction, where bg_error is  *)
(* not looked at.                                                          *)

StartFlush ==
    /\ Ready /\ has_imm
    /\ compaction = Nothing => ~bg_error
    /\ NewFileNumber
    /\ flushing' = next_file_number
    /\ tables' = [tables EXCEPT ![next_file_number] = Partial]
    /\ pending_outputs' = pending_outputs \cup {next_file_number}
    /\ UNCHANGED <<logs, manifests, current, phase, log_number, last_sequence,
                   manifest_file_number, live, writeVars, obsolete, edit, compaction, bg_error,
                   openVars, historyVars>>

\* The table is built and LogAndApply has written its record.
BuildTable ==
    /\ flushing # Nothing /\ edit = Nothing
    /\ tables' = [tables EXCEPT ![flushing] = Range(imm)]
    /\ pending_outputs' = pending_outputs \ {flushing}
    /\ edit' = [by |-> "flush", edit |-> Edit(logfile_number, {flushing}, {})]
    /\ AppendEdit(edit'.edit)
    /\ UNCHANGED <<logs, current, phase, versionVars, writeVars, obsolete, flushing, compaction,
                   bg_error, openVars, historyVars>>

\* LogAndApply succeeds.
FinishFlush ==
    /\ edit # Nothing /\ edit.by = "flush"
    /\ InstallVersion(edit.edit)
    /\ imm' = <<>> /\ has_imm' = FALSE
    /\ flushing' = Nothing
    /\ obsolete' = IF bg_error THEN NoObsolete
                   ELSE FindObsolete(live', log_number', manifest_file_number, pending_outputs)
    /\ UNCHANGED <<logs, tables, current, phase, next_file_number, last_sequence,
                   manifest_file_number, mem, writing, logfile_number, pending_outputs,
                   compaction, bg_error, openVars, written, promised, crashes, compactions,
                   failures>>

-----------------------------------------------------------------------------
(* DoCompactionWork.                                                       *)

StartCompaction ==
    /\ Ready /\ ~has_imm /\ compaction = Nothing /\ ~bg_error
    /\ compactions < MaxCompactions
    /\ compactions' = compactions + 1
    /\ NewFileNumber
    /\ \E inputs \in (SUBSET live) \ {{}} :
        compaction' = [inputs |-> inputs, output |-> next_file_number]
    /\ tables' = [tables EXCEPT ![next_file_number] = Partial]
    /\ pending_outputs' = pending_outputs \cup {next_file_number}
    /\ UNCHANGED <<logs, manifests, current, phase, log_number, last_sequence,
                   manifest_file_number, live, writeVars, obsolete, edit, flushing, bg_error,
                   openVars, written, promised, firm, crashes, failures>>

\* The output is complete, unless it was removed meanwhile, and LogAndApply
\* has written its record.
InstallCompactionResults ==
    /\ Ready /\ compaction # Nothing
    /\ tables' = [tables EXCEPT ![compaction.output] =
                    IF @ = NoFile THEN NoFile ELSE UNION {tables[n] : n \in compaction.inputs}]
    /\ edit' = [by |-> "compaction",
                edit |-> Edit(log_number, {compaction.output}, compaction.inputs)]
    /\ AppendEdit(edit'.edit)
    /\ UNCHANGED <<logs, current, phase, versionVars, writeVars, pending_outputs, obsolete,
                   flushing, compaction, bg_error, openVars, historyVars>>

\* A variant: files are removed also after an error.
FinishCompactionAfterError ==
    /\ edit # Nothing /\ edit.by = "compaction"
    /\ InstallVersion(edit.edit)
    /\ pending_outputs' = pending_outputs \ {compaction.output}
    /\ compaction' = Nothing
    /\ obsolete' = FindObsolete(live', log_number', manifest_file_number, pending_outputs')
    /\ UNCHANGED <<logs, tables, current, phase, next_file_number, last_sequence,
                   manifest_file_number, writeVars, flushing, bg_error, openVars, written,
                   promised, crashes, compactions, failures>>

\* LogAndApply succeeds; CleanupCompaction comes before RemoveObsoleteFiles.
FinishCompaction ==
    /\ edit # Nothing /\ edit.by = "compaction"
    /\ InstallVersion(edit.edit)
    /\ pending_outputs' = pending_outputs \ {compaction.output}
    /\ compaction' = Nothing
    /\ obsolete' = IF bg_error THEN NoObsolete
                   ELSE FindObsolete(live', log_number', manifest_file_number, pending_outputs')
    /\ UNCHANGED <<logs, tables, current, phase, next_file_number, last_sequence,
                   manifest_file_number, writeVars, flushing, bg_error, openVars, written,
                   promised, crashes, compactions, failures>>

\* The MANIFEST cannot be written or synced: the record may be there or not.
LogAndApplyFails ==
    /\ phase = "open" /\ edit # Nothing
    /\ failures < MaxFailures
    /\ failures' = failures + 1
    /\ bg_error' = TRUE
    /\ edit' = Nothing
    /\ IF edit.by = "flush"
       THEN flushing' = Nothing /\ UNCHANGED <<compaction, pending_outputs>>
       ELSE /\ compaction' = Nothing
            /\ pending_outputs' = pending_outputs \ {compaction.output}
            /\ UNCHANGED flushing
    /\ \/ UNCHANGED manifests
       \/ manifests' = [manifests EXCEPT ![manifest_file_number].records = Front(@)]
    /\ UNCHANGED <<logs, tables, current, phase, versionVars, writeVars, obsolete, openVars,
                   written, promised, firm, crashes, compactions>>

-----------------------------------------------------------------------------
(* DB::Open.                                                               *)

\* NewDB.
CreateDatabase ==
    /\ phase = "down" /\ current = NoFile
    /\ manifests' = [manifests EXCEPT ![1] =
            [records |-> <<[log |-> 0, next |-> 2, last |-> 0, added |-> {}, removed |-> {}]>>,
             synced |-> 1]]
    /\ current' = 1
    /\ UNCHANGED <<logs, tables, phase, versionVars, writeVars, workVars, openVars, historyVars>>

\* The MANIFEST stays in use, or a new one is begun with the given number.
ReuseManifest(number) ==
    /\ reuse' \in ReuseLogs
    /\ save_manifest' = ~reuse'
    /\ manifest_file_number' = IF reuse' THEN current ELSE number

\* What DBImpl::Recover looks for in the directory.  A file of any kind
\* stands for the table of its number.
NothingMissing(version) == version \subseteq Tables \cup Logs \cup Manifests

\* A variant: the log that the MANIFEST names is left out.
LogsToRecoverAfter(log) == {n \in Logs : n > log}

LogsToRecover(log) == {n \in Logs : n >= log}

\* The files after the first k edits: those that one of them added and no
\* later one removed.
VersionAfter(edits, k) ==
    {n \in Numbers : \E i \in 1..k :
        n \in edits[i].added /\ \A j \in (i + 1)..k : n \notin edits[j].removed}

\* VersionSet::Recover: all edits of the MANIFEST, in order.
RecoverVersion ==
    /\ phase = "down" /\ current # NoFile
    /\ LET edits == manifests[current].records
           e == Last(edits)
           version == VersionAfter(edits, Len(edits))
       IN  /\ e.next < MaxNumber
           /\ ReuseManifest(e.next)
           /\ next_file_number' = e.next + 1
           /\ last_sequence' = e.last
           /\ log_number' = e.log
           /\ live' = version
           /\ phase' = IF NothingMissing(version) THEN "logs" ELSE "corrupt"
           /\ todo' = LogsToRecover(e.log)
    /\ UNCHANGED <<diskVars, writeVars, workVars, recovered, historyVars>>

\* A variant: the sequence numbers in the logs are not looked at.
MaxSequenceOfVersion(records) == last_sequence

\* The highest sequence number that was seen.
MaxSequence(records) == Max({last_sequence} \cup {records[i].seq : i \in 1..Len(records)})

\* RecoverLogFile for one log: it becomes a table, which a memtable of the
\* same size as before holds at once, or it stays in use.
RecoverLogFile ==
    /\ phase = "logs" /\ todo # {}
    /\ LET log == Min(todo)
           records == logs[log].records
           stays == reuse /\ todo = {log}
           table == next_file_number
           after == IF stays \/ records = <<>> THEN table ELSE table + 1
       IN  /\ after <= MaxNumber + 1
           /\ IF stays
              THEN mem' = records /\ logfile_number' = log
              ELSE UNCHANGED <<mem, logfile_number>>
           /\ IF stays \/ records = <<>>
              THEN UNCHANGED <<tables, recovered, save_manifest>>
              ELSE /\ tables' = [tables EXCEPT ![table] = Range(records)]
                   /\ recovered' = recovered \cup {table}
                   /\ save_manifest' = TRUE
           /\ last_sequence' = MaxSequence(records)
           /\ next_file_number' = Max({after, log + 1})
           /\ todo' = todo \ {log}
    /\ UNCHANGED <<logs, manifests, current, phase, log_number, manifest_file_number, live, imm,
                   has_imm, writing, workVars, reuse, historyVars>>

\* A new log and memtable, unless a log stays in use.
OpenLog ==
    /\ phase = "logs" /\ todo = {}
    /\ IF logfile_number # 0
       THEN UNCHANGED <<logs, logfile_number, next_file_number>>
       ELSE /\ NewFileNumber
            /\ logfile_number' = next_file_number
            /\ logs' = [logs EXCEPT ![next_file_number] = [records |-> <<>>, synced |-> 0]]
    /\ IF save_manifest
       THEN phase' = "save" /\ UNCHANGED obsolete
       ELSE /\ phase' = "clean"
            /\ obsolete' = FindObsolete(live, log_number, manifest_file_number, {})
    /\ UNCHANGED <<tables, manifests, current, log_number, last_sequence, manifest_file_number,
                   live, mem, imm, has_imm, writing, pending_outputs, edit, flushing, compaction,
                   bg_error, openVars, historyVars>>

\* WriteSnapshot: all files of the version, and none of the numbers, which
\* are never read from it because the edit that follows has them.
Snapshot == [log |-> 0, next |-> 2, last |-> 0, added |-> live, removed |-> {}]

\* LogAndApply of what was recovered: into the MANIFEST that stays in use,
\* or into a new one after a snapshot of the version.
SaveManifest ==
    /\ phase = "save"
    /\ LET e == Edit(logfile_number, recovered, {})
       IN  /\ edit' = [by |-> "open", edit |-> e]
           /\ IF reuse THEN AppendEdit(e)
              ELSE manifests' = [manifests EXCEPT ![manifest_file_number] =
                                    [records |-> <<Snapshot, e>>, synced |-> 0]]
    /\ phase' = "install"
    /\ UNCHANGED <<logs, tables, current, versionVars, writeVars, pending_outputs, obsolete,
                   flushing, compaction, bg_error, openVars, historyVars>>

\* The record is synced and CURRENT names its MANIFEST.
SetCurrentFile ==
    /\ phase = "install" /\ current # manifest_file_number
    /\ SyncManifest
    /\ current' = manifest_file_number
    /\ UNCHANGED <<logs, tables, phase, versionVars, writeVars, workVars, openVars, historyVars>>

FinishOpen ==
    /\ phase = "install" /\ current = manifest_file_number
    /\ InstallVersion(edit.edit)
    /\ obsolete' = FindObsolete(live', log_number', manifest_file_number, {})
    /\ phase' = "clean"
    /\ UNCHANGED <<logs, tables, current, next_file_number, last_sequence, manifest_file_number,
                   writeVars, pending_outputs, flushing, compaction, bg_error, openVars,
                   written, promised, crashes, compactions, failures>>

\* What a reader sees.
Visible == Range(mem) \cup Range(imm) \cup UNION {tables[n] : n \in live}

\* The obsolete files are removed before it returns.  From now on readers see
\* what it found.
OpenReturns ==
    /\ phase = "clean" /\ obsolete = NoObsolete
    /\ phase' = "open"
    /\ promised' = promised \cup {r.id : r \in Visible}
    /\ firm' = firm \cup InTables(live)
    /\ UNCHANGED <<diskVars, versionVars, writeVars, workVars, openVars, written, crashes,
                   compactions, failures>>

-----------------------------------------------------------------------------
Next ==
    \/ \E sync \in BOOLEAN : AddRecord(sync)
    \/ FinishWrite \/ SwitchLog
    \/ StartFlush \/ BuildTable \/ FinishFlush
    \/ StartCompaction \/ InstallCompactionResults \/ FinishCompaction
    \/ LogAndApplyFails \/ RemoveObsoleteFile
    \/ CreateDatabase \/ RecoverVersion \/ RecoverLogFile \/ OpenLog
    \/ SaveManifest \/ SetCurrentFile \/ FinishOpen \/ OpenReturns
    \/ ProcessCrash \/ MachineCrash

Spec == Init /\ [][Next]_vars

-----------------------------------------------------------------------------
(* Properties.                                                             *)

\* After any sequence of crashes, in the middle of writes, flushes,
\* compactions and of recovery itself: what Write said ok to is there, but
\* for writes that were not synced when the machine crashed.  (DB::Open,
\* CompactMemTable, RemoveObsoleteFiles)
NothingPromisedIsLost ==
    phase \in {"clean", "open"} => \A id \in promised : \E r \in Visible : r.id = id

\* The tables of a version are there and complete: a database that was
\* written can be opened.  (Recover, RemoveObsoleteFiles, LogAndApply)
LiveTablesExist ==
    /\ phase # "corrupt"
    /\ phase # "down" => \A n \in live : n \in Tables /\ tables[n] # Partial

\* New writes get sequence numbers above everything that is visible, also
\* what a crash left that nobody was promised.  (Recover, LogAndApply)
SequencesAdvance ==
    phase \in {"clean", "open"} =>
        /\ \A r \in Visible : r.seq <= last_sequence
        /\ \A q, r \in Visible : q.seq = r.seq => q = r

\* What is being removed is not needed any more, although it was found
\* before the mutex was released: tables of the version and of a compaction
\* under way, logs that are not in tables.  (RemoveObsoleteFiles)
NothingNeededIsObsolete ==
    /\ obsolete.tables \cap (live \cup pending_outputs) = {}
    /\ \A n \in obsolete.logs : n < log_number /\ n # logfile_number
    /\ current \notin obsolete.manifests

\* The edits that may be the last one a crash leaves of the MANIFEST.
CurrentEdits == manifests[current].records
LastEdits == manifests[current].synced .. Len(CurrentEdits)
VersionAt(k) == VersionAfter(CurrentEdits, k)

Complete(n) == tables[n] \notin {NoFile, Partial}
InTable(files) == UNION {tables[n] : n \in files}
InLog(n) == Range(logs[n].records)
InLogs(files) == UNION {InLog(n) : n \in files}
IdsOf(records) == {r.id : r \in records}

\* What DB::Open finds when edit k is the last one, and what it may find.
Found(k) == InTable(VersionAt(k)) \cup InLogs(LogsToRecover(CurrentEdits[k].log))
MayBeFound ==
    IF current = NoFile THEN {}
    ELSE UNION {Found(k) : k \in {j \in LastEdits : \A n \in VersionAt(j) : Complete(n)}}

\* The state of DurableStore.
Pending ==
    IF writing = Nothing THEN {} ELSE {[id |-> writing.record.id, sync |-> writing.sync]}
Contents == IF phase = "open" THEN IdsOf(Visible) ELSE promised
Doubt == IF phase = "open" THEN {} ELSE IdsOf(MayBeFound) \ promised

Store == INSTANCE DurableStore WITH
    open <- phase = "open", begun <- written, pending <- Pending, contents <- Contents,
    doubt <- Doubt

\* Files, versions and recovery keep what DurableStore promises: crashes lose
\* nothing that readers saw, or at a crash of the machine nothing that is
\* firm; opening makes nothing up, and brings nothing back that it did not
\* find the last time.  (DB::Open, LogAndApply, RemoveObsoleteFiles, Write)
ImplementsDurableStore == Store!StoreSpec
=============================================================================
