--------------------------- MODULE RecoveryProofs ---------------------------
(***************************************************************************)
(* Proofs about Recovery for any number of writes, files, compactions,     *)
(* errors and crashes, when options.reuse_logs is false: type correctness, *)
(* that what was promised survives, in whatever order flushes,             *)
(* compactions, crashes and openings come, and that the files and their    *)
(* recovery implement DurableStore.                                        *)
(***************************************************************************)
EXTENDS Recovery, BasicFacts

SyncedInLog(n) == {logs[n].records[i] : i \in 1..logs[n].synced}
SyncedInLogs(files) == UNION {SyncedInLog(n) : n \in files}
DistinctSequences(records) == \A q, r \in records : q.seq = r.seq => q = r

\* The part of Found(k) that a crash of the machine leaves.
FoundSynced(k) == InTable(VersionAt(k)) \cup SyncedInLogs(LogsToRecover(CurrentEdits[k].log))

\* What a reader sees or will see.
Seen == Visible \cup (IF writing = Nothing THEN {} ELSE {writing.record})

\* No sequence number is larger than the number of writes.
BoundInv ==
    /\ last_sequence <= written
    /\ \A n \in Logs : \A r \in InLog(n) : r.seq <= written
    /\ \A n \in Manifests : \A i \in 1..Len(manifests[n].records) :
          manifests[n].records[i].last <= written
    /\ writing # Nothing => writing.record.seq <= written /\ writing.record.id <= written

\* Whatever a crash leaves of the MANIFEST: its version can be opened, with
\* the logs it holds what was promised, and its numbers were used for
\* nothing else.
Recoverable(k) ==
    LET e == CurrentEdits[k]
    IN  /\ \A n \in VersionAt(k) : Complete(n) /\ n < e.next
        /\ e.log < e.next /\ current < e.next
        /\ \A j \in k..Len(CurrentEdits) : e.next <= CurrentEdits[j].next
        /\ \A r \in InTable(VersionAt(k)) : r.seq <= e.last
        /\ promised \subseteq IdsOf(Found(k))
        /\ firm \subseteq IdsOf(FoundSynced(k))
        /\ DistinctSequences(Found(k))

DiskInv ==
    /\ current = NoFile => Logs = {} /\ promised = {} /\ phase = "down"
    /\ current # NoFile =>
          manifests[current].synced >= 1 /\ \A k \in LastEdits : Recoverable(k)

\* What is not there unless the database is open.
QuietInv ==
    /\ ~reuse /\ phase # "corrupt"
    /\ phase # "open" =>
          /\ flushing = Nothing /\ compaction = Nothing /\ writing = Nothing
          /\ ~has_imm /\ ~bg_error /\ mem = <<>> /\ imm = <<>> /\ pending_outputs = {}
    /\ phase \notin {"clean", "open"} => obsolete = NoObsolete
    /\ phase \notin {"install", "open"} => edit = Nothing
    /\ phase = "down" => recovered = {} /\ logfile_number = 0
    /\ phase = "logs" => save_manifest /\ logfile_number = 0

\* DB::Open has what was promised in tables or in logs that it has not read
\* yet, and overwrites nothing that another crash would need.
OpeningInv == phase \in {"logs", "save", "install"} =>
    /\ current # NoFile
    /\ \A n \in live \cup recovered : Complete(n) /\ n < next_file_number
    /\ todo \subseteq Logs
    /\ promised \subseteq IdsOf(InTable(live \cup recovered) \cup InLogs(todo))
    /\ DistinctSequences(InTable(live \cup recovered) \cup InLogs(todo))
    /\ \A r \in InTable(live \cup recovered) : r.seq <= last_sequence
    /\ \A n \in Logs : n \in todo \/ n < next_file_number
    /\ current <= manifest_file_number /\ manifest_file_number < next_file_number
    /\ phase # "install" => current # manifest_file_number
    /\ current # manifest_file_number =>
          CurrentEdits[Len(CurrentEdits)].next < next_file_number
    /\ phase # "logs" =>
          /\ todo = {} /\ logfile_number \in Logs /\ logs[logfile_number].records = <<>>
          /\ \A n \in Logs : n <= logfile_number
    /\ phase = "install" =>
          /\ edit # Nothing /\ edit.edit = Edit(logfile_number, recovered, {})
          /\ manifest_file_number \in Manifests
          /\ manifests[manifest_file_number].records = <<Snapshot, edit.edit>>
          /\ current = manifest_file_number => manifests[current].synced = 2

\* An open database has what was promised in memory and in its version, and
\* the MANIFEST, whatever is left of it, is about the same records.
RunningInv == phase \in {"clean", "open"} =>
    /\ current = manifest_file_number /\ current # NoFile
    /\ \A n \in live : Complete(n) /\ n < next_file_number
    /\ log_number <= logfile_number /\ logfile_number < next_file_number
    /\ logfile_number \in Logs /\ \A n \in Logs : n <= logfile_number
    /\ InLog(logfile_number) =
          Range(mem) \cup (IF writing = Nothing THEN {} ELSE {writing.record})
    /\ promised \subseteq IdsOf(Visible)
    /\ firm \subseteq IdsOf(SyncedInLog(logfile_number) \cup Range(imm) \cup InTable(live))
    /\ DistinctSequences(Visible) /\ \A r \in Visible : r.seq <= last_sequence
    /\ writing # Nothing => writing.record.seq = last_sequence + 1
    /\ \A n \in Logs : n >= log_number => InLog(n) \subseteq Seen
    /\ \A k \in LastEdits :
          /\ log_number <= CurrentEdits[k].log /\ CurrentEdits[k].log <= logfile_number
          /\ CurrentEdits[k].next <= next_file_number
          /\ InTable(live) \subseteq InTable(VersionAt(k))
          /\ InTable(VersionAt(k)) \subseteq Visible
          /\ ~bg_error /\ (edit = Nothing \/ k < Len(CurrentEdits)) => VersionAt(k) \subseteq live
    /\ ~has_imm => imm = <<>>

\* The tables that are being written are nobody else's.
FlushInv == flushing # Nothing =>
    /\ has_imm /\ flushing \in Tables \ live /\ flushing < next_file_number
    /\ compaction # Nothing => flushing # compaction.output
    /\ edit = Nothing => flushing \in pending_outputs /\ \A k \in LastEdits : flushing \notin VersionAt(k)

CompactionInv == compaction # Nothing =>
    /\ compaction.output \in (Tables \cap pending_outputs) \ live
    /\ compaction.output < next_file_number
    /\ edit = Nothing \/ edit.by = "flush" =>
          \A k \in LastEdits : compaction.output \notin VersionAt(k)

\* The edit that is being written is the last one of the MANIFEST and says
\* what its action is about.
EditInv == edit # Nothing =>
    /\ edit.by = "open" <=> phase = "install"
    /\ edit.by # "open" =>
          manifests[current].synced < Len(CurrentEdits) /\ CurrentEdits[Len(CurrentEdits)] = edit.edit
    /\ edit.by = "flush" =>
          /\ flushing # Nothing /\ tables[flushing] = Range(imm) /\ edit.edit.log = logfile_number
          /\ edit.edit.added = {flushing} /\ edit.edit.removed = {}
    /\ edit.by = "compaction" =>
          /\ compaction # Nothing /\ flushing = Nothing /\ edit.edit.log = log_number
          /\ tables[compaction.output] = InTable(compaction.inputs)
          /\ edit.edit.added = {compaction.output} /\ edit.edit.removed = compaction.inputs

\* What is being removed is neither in the version nor being written.
ObsoleteInv ==
    /\ obsolete # NoObsolete => edit = Nothing /\ flushing = Nothing /\ ~bg_error
    /\ obsolete.tables \cap (live \cup pending_outputs) = {}
    /\ \A n \in obsolete.logs : n < log_number
    /\ \A n \in obsolete.manifests : n < manifest_file_number

RInv ==
    /\ TypeOK
    /\ BoundInv /\ DiskInv /\ QuietInv /\ OpeningInv /\ RunningInv
    /\ FlushInv /\ CompactionInv /\ EditInv /\ ObsoleteInv

-----------------------------------------------------------------------------
(* Records, edits and files.                                               *)

LEMMA Fields ==
    /\ \A r \in Records : r.id \in Ids /\ r.seq \in Ids
    /\ \A e \in Edits : /\ e.log \in 0..MaxNumber /\ e.next \in 2..(MaxNumber + 1)
                        /\ e.last \in 0..MaxWrites
                        /\ e.added \subseteq Numbers /\ e.removed \subseteq Numbers
    /\ \A f \in LogFiles : f.records \in Seq(Records) /\ f.synced \in Nat /\ f # NoFile
    /\ \A f \in ManifestFiles : f.records \in Seq(Edits) /\ f.synced \in Nat /\ f # NoFile
    /\ \A w \in PendingWrites : w.record \in Records /\ w.sync \in BOOLEAN /\ w # Nothing
    /\ \A p \in PendingEdits : /\ p.by \in {"flush", "compaction", "open"} /\ p.edit \in Edits
                               /\ p # Nothing
    /\ \A c \in Compactions : c.inputs \subseteq Numbers /\ c.output \in Numbers /\ c # Nothing
    /\ NoFile \notin Numbers /\ Nothing \notin Numbers
    /\ \A t \in SUBSET Records : t # NoFile /\ t # Partial
  BY NamesAssumption
     DEF Records, Edits, LogFiles, ManifestFiles, PendingWrites, PendingEdits, Compactions

LEMMA Parameters ==
    /\ MaxWrites \in Nat /\ MaxNumber \in Nat /\ MaxNumber >= 2 /\ MaxCrashes \in Nat
    /\ MaxCompactions \in Nat /\ MaxFailures \in Nat
    /\ Numbers = 1..MaxNumber /\ Ids = 1..MaxWrites
  BY RecoveryAssumption DEF Numbers, Ids

\* The files there are, and what they hold.
LEMMA LogFacts ==
    ASSUME TypeOK, NEW n \in Logs
    PROVE  /\ n \in Numbers /\ logs[n] \in LogFiles /\ logs[n].records \in Seq(Records)
           /\ Len(logs[n].records) \in Nat /\ logs[n].synced \in 0..Len(logs[n].records)
           /\ InLog(n) = {logs[n].records[i] : i \in 1..Len(logs[n].records)}
           /\ InLog(n) \subseteq Records /\ SyncedInLog(n) \subseteq InLog(n)
  <1>1. n \in Numbers /\ logs[n] \in LogFiles /\ logs[n].synced <= Len(logs[n].records)
    BY DEF TypeOK, Logs
  <1>2. logs[n].records \in Seq(Records) /\ logs[n].synced \in Nat
    BY <1>1, Fields
  <1>3. /\ Len(logs[n].records) \in Nat
        /\ InLog(n) = {logs[n].records[i] : i \in 1..Len(logs[n].records)}
        /\ InLog(n) \subseteq Records
    BY <1>2, MembersOfSeq DEF InLog
  <1>4. SyncedInLog(n) \subseteq InLog(n)
    BY <1>1, <1>2, <1>3 DEF SyncedInLog
  <1> QED
    BY <1>1, <1>2, <1>3, <1>4

LEMMA ManifestFacts ==
    ASSUME TypeOK, NEW n \in Manifests
    PROVE  /\ n \in Numbers /\ manifests[n] \in ManifestFiles
           /\ manifests[n].records \in Seq(Edits) /\ Len(manifests[n].records) \in Nat
           /\ manifests[n].synced \in 0..Len(manifests[n].records)
           /\ \A i \in 1..Len(manifests[n].records) : manifests[n].records[i] \in Edits
  <1>1. /\ n \in Numbers /\ manifests[n] \in ManifestFiles
        /\ manifests[n].synced <= Len(manifests[n].records)
    BY DEF TypeOK, Manifests
  <1>2. manifests[n].records \in Seq(Edits) /\ manifests[n].synced \in Nat
    BY <1>1, Fields
  <1> QED
    BY <1>1, <1>2, MembersOfSeq

LEMMA TableFacts ==
    ASSUME TypeOK, NEW n \in Numbers
    PROVE  /\ Complete(n) <=> tables[n] \in SUBSET Records
           /\ Complete(n) => n \in Tables
           /\ n \in Tables <=> tables[n] # NoFile
           /\ tables[n] \in {NoFile, Partial} \cup SUBSET Records
  BY Fields DEF TypeOK, Complete, Tables

-----------------------------------------------------------------------------
(* What is done to one file.                                               *)

LEMMA AppendToLog ==
    ASSUME TypeOK, NEW n \in Logs, NEW r \in Records,
           logs' = [logs EXCEPT ![n].records = Append(@, r)]
    PROVE  /\ logs' \in [Numbers -> {NoFile} \cup LogFiles] /\ Logs' = Logs
           /\ \A m \in Numbers \ {n} : logs'[m] = logs[m]
           /\ logs'[n].records = Append(logs[n].records, r)
           /\ logs'[n].synced = logs[n].synced
           /\ logs'[n].synced <= Len(logs'[n].records)
           /\ InLog(n)' = InLog(n) \cup {r} /\ SyncedInLog(n)' = SyncedInLog(n)
  <1> DEFINE s == logs[n].records
  <1>1. /\ n \in Numbers /\ logs[n] \in LogFiles /\ s \in Seq(Records) /\ Len(s) \in Nat
        /\ logs[n].synced \in 0..Len(s)
    BY LogFacts
  <1>2. /\ Append(s, r) \in Seq(Records) /\ Len(Append(s, r)) = Len(s) + 1
        /\ \A i \in 1..Len(s) : Append(s, r)[i] = s[i]
        /\ Range(Append(s, r)) = Range(s) \cup {r}
    BY <1>1, MembersOfAppend
  <1>3. /\ logs'[n] = [logs[n] EXCEPT !.records = Append(s, r)]
        /\ \A m \in Numbers \ {n} : logs'[m] = logs[m]
        /\ DOMAIN logs' = Numbers /\ logs' = [m \in Numbers |-> logs'[m]]
    BY <1>1 DEF TypeOK
  <1>4. /\ logs'[n] \in LogFiles /\ logs'[n].records = Append(s, r)
        /\ logs'[n].synced = logs[n].synced
    BY <1>1, <1>2, <1>3 DEF LogFiles
  <1>5. logs' \in [Numbers -> {NoFile} \cup LogFiles]
    BY <1>3, <1>4 DEF TypeOK
  <1>6. Logs' = Logs
    BY <1>1, <1>3, <1>4, Fields DEF Logs
  <1>7. InLog(n)' = InLog(n) \cup {r} /\ SyncedInLog(n)' = SyncedInLog(n)
    BY <1>1, <1>2, <1>4 DEF InLog, SyncedInLog
  <1> QED
    BY <1>1, <1>2, <1>3, <1>4, <1>5, <1>6, <1>7

LEMMA SyncLog ==
    ASSUME TypeOK, NEW n \in Logs,
           logs' = [logs EXCEPT ![n].synced = Len(logs[n].records)]
    PROVE  /\ logs' \in [Numbers -> {NoFile} \cup LogFiles] /\ Logs' = Logs
           /\ \A m \in Numbers \ {n} : logs'[m] = logs[m]
           /\ logs'[n].records = logs[n].records
           /\ logs'[n].synced = Len(logs[n].records)
           /\ InLog(n)' = InLog(n) /\ SyncedInLog(n)' = InLog(n)
  <1> DEFINE s == logs[n].records
  <1>1. /\ n \in Numbers /\ logs[n] \in LogFiles /\ s \in Seq(Records) /\ Len(s) \in Nat
        /\ InLog(n) = {s[i] : i \in 1..Len(s)}
    BY LogFacts
  <1>2. /\ logs'[n] = [logs[n] EXCEPT !.synced = Len(s)]
        /\ \A m \in Numbers \ {n} : logs'[m] = logs[m]
        /\ DOMAIN logs' = Numbers /\ logs' = [m \in Numbers |-> logs'[m]]
    BY <1>1 DEF TypeOK
  <1>3. logs'[n] \in LogFiles /\ logs'[n].records = s /\ logs'[n].synced = Len(s)
    BY <1>1, <1>2 DEF LogFiles
  <1>4. logs' \in [Numbers -> {NoFile} \cup LogFiles]
    BY <1>2, <1>3 DEF TypeOK
  <1>5. Logs' = Logs
    BY <1>1, <1>2, <1>3, Fields DEF Logs
  <1>6. InLog(n)' = InLog(n) /\ SyncedInLog(n)' = InLog(n)
    BY <1>1, <1>3 DEF InLog, SyncedInLog
  <1> QED
    BY <1>2, <1>3, <1>4, <1>5, <1>6

LEMMA NewLog ==
    ASSUME TypeOK, NEW n \in Numbers,
           logs' = [logs EXCEPT ![n] = [records |-> <<>>, synced |-> 0]]
    PROVE  /\ logs' \in [Numbers -> {NoFile} \cup LogFiles] /\ Logs' = Logs \cup {n}
           /\ \A m \in Numbers \ {n} : logs'[m] = logs[m]
           /\ logs'[n].records = <<>> /\ logs'[n].synced = 0
           /\ InLog(n)' = {} /\ SyncedInLog(n)' = {}
  <1> DEFINE f == [records |-> <<>>, synced |-> 0]
  <1>1. f \in LogFiles
    <2>1. <<>> \in Seq(Records) /\ 0 \in Nat
      OBVIOUS
    <2> QED
      BY <2>1 DEF LogFiles
  <1>2. f # NoFile /\ f.records = <<>> /\ f.synced = 0
    BY <1>1, Fields
  <1> HIDE DEF f
  <1>3. /\ logs'[n] = f
        /\ \A m \in Numbers \ {n} : logs'[m] = logs[m]
        /\ logs' \in [Numbers -> {NoFile} \cup LogFiles]
    <2>1. logs' = [logs EXCEPT ![n] = f]
      BY DEF f
    <2> QED
      BY <1>1, <2>1 DEF TypeOK
  <1>4. Logs' = Logs \cup {n}
    BY <1>2, <1>3 DEF Logs
  <1>5. Range(<<>>) = {}
    BY DEF Range
  <1>6. logs'[n].records = <<>> /\ logs'[n].synced = 0
    BY <1>2, <1>3
  <1> QED
    BY <1>3, <1>4, <1>5, <1>6 DEF InLog, SyncedInLog

LEMMA AppendToManifest ==
    ASSUME TypeOK, NEW n \in Manifests, NEW e \in Edits,
           manifests' = [manifests EXCEPT ![n].records = Append(@, e)]
    PROVE  /\ manifests' \in [Numbers -> {NoFile} \cup ManifestFiles] /\ Manifests' = Manifests
           /\ \A m \in Numbers \ {n} : manifests'[m] = manifests[m]
           /\ manifests'[n].records = Append(manifests[n].records, e)
           /\ manifests'[n].synced = manifests[n].synced
           /\ manifests'[n].synced <= Len(manifests'[n].records)
  <1> DEFINE s == manifests[n].records
  <1>1. /\ n \in Numbers /\ manifests[n] \in ManifestFiles /\ s \in Seq(Edits) /\ Len(s) \in Nat
        /\ manifests[n].synced \in 0..Len(s)
    BY ManifestFacts
  <1>2. Append(s, e) \in Seq(Edits) /\ Len(Append(s, e)) = Len(s) + 1
    BY <1>1, MembersOfAppend
  <1>3. /\ manifests'[n] = [manifests[n] EXCEPT !.records = Append(s, e)]
        /\ \A m \in Numbers \ {n} : manifests'[m] = manifests[m]
        /\ DOMAIN manifests' = Numbers /\ manifests' = [m \in Numbers |-> manifests'[m]]
    BY <1>1 DEF TypeOK
  <1>4. /\ manifests'[n] \in ManifestFiles /\ manifests'[n].records = Append(s, e)
        /\ manifests'[n].synced = manifests[n].synced
    BY <1>1, <1>2, <1>3 DEF ManifestFiles
  <1>5. manifests' \in [Numbers -> {NoFile} \cup ManifestFiles]
    BY <1>3, <1>4 DEF TypeOK
  <1>6. Manifests' = Manifests
    BY <1>1, <1>3, <1>4, Fields DEF Manifests
  <1> QED
    BY <1>1, <1>2, <1>3, <1>4, <1>5, <1>6

LEMMA SyncTheManifest ==
    ASSUME TypeOK, manifest_file_number \in Manifests, SyncManifest
    PROVE  /\ manifests' \in [Numbers -> {NoFile} \cup ManifestFiles] /\ Manifests' = Manifests
           /\ \A m \in Numbers \ {manifest_file_number} : manifests'[m] = manifests[m]
           /\ \A m \in Manifests : manifests'[m].records = manifests[m].records
           /\ manifests'[manifest_file_number].synced =
                 Len(manifests[manifest_file_number].records)
  <1> DEFINE n == manifest_file_number
             s == manifests[n].records
  <1>1. n \in Numbers /\ manifests[n] \in ManifestFiles /\ s \in Seq(Edits) /\ Len(s) \in Nat
    BY ManifestFacts
  <1>2. /\ manifests'[n] = [manifests[n] EXCEPT !.synced = Len(s)]
        /\ \A m \in Numbers \ {n} : manifests'[m] = manifests[m]
        /\ DOMAIN manifests' = Numbers /\ manifests' = [m \in Numbers |-> manifests'[m]]
    BY <1>1 DEF SyncManifest, TypeOK
  <1>3. /\ manifests'[n] \in ManifestFiles /\ manifests'[n].records = s
        /\ manifests'[n].synced = Len(s)
    BY <1>1, <1>2 DEF ManifestFiles
  <1>4. manifests' \in [Numbers -> {NoFile} \cup ManifestFiles]
    BY <1>2, <1>3 DEF TypeOK
  <1>5. Manifests' = Manifests
    BY <1>1, <1>2, <1>3, Fields DEF Manifests
  <1>6. \A m \in Manifests : manifests'[m].records = manifests[m].records
    BY <1>2, <1>3 DEF Manifests
  <1> QED
    BY <1>2, <1>3, <1>4, <1>5, <1>6

LEMMA NewManifest ==
    ASSUME TypeOK, NEW n \in Numbers, NEW f \in ManifestFiles,
           manifests' = [manifests EXCEPT ![n] = f]
    PROVE  /\ manifests' \in [Numbers -> {NoFile} \cup ManifestFiles]
           /\ Manifests' = Manifests \cup {n} /\ manifests'[n] = f
           /\ \A m \in Numbers \ {n} : manifests'[m] = manifests[m]
  <1>1. /\ manifests'[n] = f
        /\ \A m \in Numbers \ {n} : manifests'[m] = manifests[m]
        /\ manifests' \in [Numbers -> {NoFile} \cup ManifestFiles]
    BY DEF TypeOK
  <1> QED
    BY <1>1, Fields DEF Manifests

LEMMA WriteTable ==
    ASSUME TypeOK, NEW n \in Numbers, NEW t \in {NoFile, Partial} \cup SUBSET Records,
           tables' = [tables EXCEPT ![n] = t]
    PROVE  /\ tables' \in [Numbers -> {NoFile, Partial} \cup SUBSET Records]
           /\ tables'[n] = t /\ \A m \in Numbers \ {n} : tables'[m] = tables[m]
  BY DEF TypeOK

LEMMA SameLogs ==
    ASSUME TypeOK, UNCHANGED logs
    PROVE  /\ logs' \in [Numbers -> {NoFile} \cup LogFiles] /\ Logs' = Logs
           /\ \A n \in Logs' : logs'[n].synced <= Len(logs'[n].records)
           /\ \A n \in Logs : InLog(n)' = InLog(n) /\ SyncedInLog(n)' = SyncedInLog(n)
  BY DEF TypeOK, Logs, InLog, SyncedInLog

LEMMA SameManifests ==
    ASSUME TypeOK, UNCHANGED manifests
    PROVE  /\ manifests' \in [Numbers -> {NoFile} \cup ManifestFiles] /\ Manifests' = Manifests
           /\ \A n \in Manifests' : manifests'[n].synced <= Len(manifests'[n].records)
  BY DEF TypeOK, Manifests

-----------------------------------------------------------------------------
(* Type correctness.                                                       *)

\* What a crash of the machine leaves of a kind of files.
LEMMA KeptFacts ==
    ASSUME NEW files, NEW existing, NEW kept \in Kept(files, existing)
    PROVE  /\ DOMAIN kept = existing
           /\ \A n \in existing : /\ kept[n] \in Nat /\ files[n].synced <= kept[n]
                                  /\ kept[n] <= Len(files[n].records)
  <1> DEFINE longest == Max({0} \cup {Len(files[n].records) : n \in existing})
  <1>1. /\ kept \in [existing -> 0..longest]
        /\ \A n \in existing : files[n].synced <= kept[n] /\ kept[n] <= Len(files[n].records)
    BY DEF Kept
  <1> HIDE DEF longest
  <1>2. \A n \in existing : kept[n] \in 0..longest
    BY <1>1
  <1>3. \A i \in 0..longest : i \in Nat
    OBVIOUS
  <1> QED
    BY <1>1, <1>2, <1>3

LEMMA TruncatedLogs ==
    ASSUME TypeOK, NEW kept \in Kept(logs, Logs), logs' = Truncate(logs, kept)
    PROVE  /\ logs' \in [Numbers -> {NoFile} \cup LogFiles] /\ Logs' = Logs
           /\ \A n \in Logs :
                /\ logs'[n].records = SubSeq(logs[n].records, 1, kept[n])
                /\ logs'[n].synced = kept[n] /\ Len(logs'[n].records) = kept[n]
                /\ kept[n] \in Nat /\ logs[n].synced <= kept[n]
                /\ kept[n] \in 0..Len(logs[n].records)
                /\ \A i \in 1..kept[n] : logs'[n].records[i] = logs[n].records[i]
  <1>1. DOMAIN kept = Logs
    BY KeptFacts
  <1>2. ASSUME NEW n \in Logs
        PROVE  /\ logs'[n] = [records |-> SubSeq(logs[n].records, 1, kept[n]), synced |-> kept[n]]
               /\ kept[n] \in Nat /\ logs[n].synced <= kept[n]
               /\ kept[n] \in 0..Len(logs[n].records)
    <2>1. n \in Numbers
      BY DEF Logs
    <2>2. kept[n] \in Nat /\ logs[n].synced <= kept[n] /\ kept[n] <= Len(logs[n].records)
      BY KeptFacts
    <2> QED
      BY <1>1, <2>1, <2>2, LogFacts DEF Truncate
  <1>3. ASSUME NEW n \in Logs
        PROVE  /\ SubSeq(logs[n].records, 1, kept[n]) \in Seq(Records)
               /\ Len(SubSeq(logs[n].records, 1, kept[n])) = kept[n]
               /\ \A i \in 1..kept[n] : SubSeq(logs[n].records, 1, kept[n])[i] = logs[n].records[i]
    BY <1>2, LogFacts, MembersOfPrefix
  <1>4. \A n \in Logs : logs'[n] \in LogFiles /\ logs'[n] # NoFile
    BY <1>2, <1>3, Fields DEF LogFiles
  <1>5. ASSUME NEW n \in Logs
        PROVE  logs'[n].records = SubSeq(logs[n].records, 1, kept[n]) /\ logs'[n].synced = kept[n]
    <2> DEFINE s == SubSeq(logs[n].records, 1, kept[n])
    <2>1. logs'[n] = [records |-> s, synced |-> kept[n]]
      BY <1>2
    <2> HIDE DEF s
    <2>2. logs'[n].records = s /\ logs'[n].synced = kept[n]
      BY <2>1
    <2> QED
      BY <2>2 DEF s
  <1>6. \A n \in Numbers \ Logs : logs'[n] = NoFile
    BY <1>1 DEF Truncate
  <1>7. DOMAIN logs' = Numbers /\ logs' = [n \in Numbers |-> logs'[n]]
    BY DEF Truncate
  <1>8. logs' \in [Numbers -> {NoFile} \cup LogFiles] /\ Logs' = Logs
    BY <1>4, <1>6, <1>7 DEF Logs
  <1>9. \A n \in Logs :
          /\ logs'[n].records = SubSeq(logs[n].records, 1, kept[n])
          /\ logs'[n].synced = kept[n] /\ Len(logs'[n].records) = kept[n]
          /\ \A i \in 1..kept[n] : logs'[n].records[i] = logs[n].records[i]
    <2> TAKE n \in Logs
    <2> DEFINE s == SubSeq(logs[n].records, 1, kept[n])
    <2>1. Len(s) = kept[n] /\ \A i \in 1..kept[n] : s[i] = logs[n].records[i]
      BY <1>3
    <2>2. logs'[n].records = s /\ logs'[n].synced = kept[n]
      BY <1>5
    <2> HIDE DEF s
    <2>3. logs'[n].synced = kept[n] /\ Len(logs'[n].records) = kept[n]
      BY <2>1, <2>2
    <2>4. \A i \in 1..kept[n] : logs'[n].records[i] = logs[n].records[i]
      BY <2>1, <2>2
    <2> QED
      BY <2>2, <2>3, <2>4 DEF s
  <1>10. \A n \in Logs :
           kept[n] \in Nat /\ logs[n].synced <= kept[n] /\ kept[n] \in 0..Len(logs[n].records)
    BY <1>2
  <1> QED
    BY <1>8, <1>9, <1>10

LEMMA TruncatedManifests ==
    ASSUME TypeOK, NEW kept \in Kept(manifests, Manifests), manifests' = Truncate(manifests, kept)
    PROVE  /\ manifests' \in [Numbers -> {NoFile} \cup ManifestFiles] /\ Manifests' = Manifests
           /\ \A n \in Manifests :
                /\ manifests'[n].records = SubSeq(manifests[n].records, 1, kept[n])
                /\ manifests'[n].synced = kept[n] /\ Len(manifests'[n].records) = kept[n]
                /\ kept[n] \in Nat /\ manifests[n].synced <= kept[n]
                /\ kept[n] \in 0..Len(manifests[n].records)
                /\ \A i \in 1..kept[n] : manifests'[n].records[i] = manifests[n].records[i]
  <1>1. DOMAIN kept = Manifests
    BY KeptFacts
  <1>2. ASSUME NEW n \in Manifests
        PROVE  /\ manifests'[n] =
                     [records |-> SubSeq(manifests[n].records, 1, kept[n]), synced |-> kept[n]]
               /\ kept[n] \in Nat /\ manifests[n].synced <= kept[n]
               /\ kept[n] \in 0..Len(manifests[n].records)
    <2>1. n \in Numbers
      BY DEF Manifests
    <2>2. /\ kept[n] \in Nat /\ manifests[n].synced <= kept[n]
          /\ kept[n] <= Len(manifests[n].records)
      BY KeptFacts
    <2> QED
      BY <1>1, <2>1, <2>2, ManifestFacts DEF Truncate
  <1>3. ASSUME NEW n \in Manifests
        PROVE  /\ SubSeq(manifests[n].records, 1, kept[n]) \in Seq(Edits)
               /\ Len(SubSeq(manifests[n].records, 1, kept[n])) = kept[n]
               /\ \A i \in 1..kept[n] :
                    SubSeq(manifests[n].records, 1, kept[n])[i] = manifests[n].records[i]
    BY <1>2, ManifestFacts, MembersOfPrefix
  <1>4. \A n \in Manifests : manifests'[n] \in ManifestFiles /\ manifests'[n] # NoFile
    BY <1>2, <1>3, Fields DEF ManifestFiles
  <1>5. ASSUME NEW n \in Manifests
        PROVE  manifests'[n].records = SubSeq(manifests[n].records, 1, kept[n]) /\ manifests'[n].synced = kept[n]
    <2> DEFINE s == SubSeq(manifests[n].records, 1, kept[n])
    <2>1. manifests'[n] = [records |-> s, synced |-> kept[n]]
      BY <1>2
    <2> HIDE DEF s
    <2>2. manifests'[n].records = s /\ manifests'[n].synced = kept[n]
      BY <2>1
    <2> QED
      BY <2>2 DEF s
  <1>6. \A n \in Numbers \ Manifests : manifests'[n] = NoFile
    BY <1>1 DEF Truncate
  <1>7. DOMAIN manifests' = Numbers /\ manifests' = [n \in Numbers |-> manifests'[n]]
    BY DEF Truncate
  <1>8. manifests' \in [Numbers -> {NoFile} \cup ManifestFiles] /\ Manifests' = Manifests
    BY <1>4, <1>6, <1>7 DEF Manifests
  <1> QED
    BY <1>2, <1>3, <1>8, <1>5

\* A conjunction of what the actions below leave alone or set.
MemoryTypes ==
    /\ phase \in {"down", "logs", "save", "install", "clean", "open", "corrupt"}
    /\ mem \in Seq(Records) /\ imm \in Seq(Records) /\ has_imm \in BOOLEAN
    /\ writing \in {Nothing} \cup PendingWrites
    /\ logfile_number \in 0..MaxNumber /\ log_number \in 0..MaxNumber
    /\ next_file_number \in 1..(MaxNumber + 1) /\ last_sequence \in 0..MaxWrites
    /\ manifest_file_number \in 0..MaxNumber
    /\ live \subseteq Numbers /\ pending_outputs \subseteq Numbers
    /\ obsolete \in [logs : SUBSET Numbers, tables : SUBSET Numbers, manifests : SUBSET Numbers]
    /\ edit \in {Nothing} \cup PendingEdits
    /\ flushing \in {Nothing} \cup Numbers
    /\ compaction \in {Nothing} \cup Compactions
    /\ compaction # Nothing => compaction.inputs \subseteq live /\ compaction.inputs # {}
    /\ bg_error \in BOOLEAN /\ save_manifest \in BOOLEAN /\ reuse \in BOOLEAN
    /\ todo \subseteq Numbers /\ recovered \subseteq Numbers

HistoryTypes ==
    /\ written \in 0..MaxWrites /\ firm \subseteq promised /\ promised \subseteq Ids
    /\ crashes \in 0..MaxCrashes /\ compactions \in 0..MaxCompactions
    /\ failures \in 0..MaxFailures

LogTypes ==
    /\ logs \in [Numbers -> {NoFile} \cup LogFiles]
    /\ \A n \in Logs : logs[n].synced <= Len(logs[n].records)

ManifestTypes ==
    /\ manifests \in [Numbers -> {NoFile} \cup ManifestFiles]
    /\ \A n \in Manifests : manifests[n].synced <= Len(manifests[n].records)
    /\ current = NoFile \/ current \in Manifests

TableTypes == tables \in [Numbers -> {NoFile, Partial} \cup SUBSET Records]

LEMMA TypeParts ==
    TypeOK <=> LogTypes /\ ManifestTypes /\ TableTypes /\ MemoryTypes /\ HistoryTypes
  BY DEF TypeOK, LogTypes, ManifestTypes, TableTypes, MemoryTypes, HistoryTypes

LEMMA NextTypes ==
    ASSUME LogTypes', ManifestTypes', TableTypes', MemoryTypes', HistoryTypes'
    PROVE  TypeOK'
  BY DEF TypeOK, LogTypes, ManifestTypes, TableTypes, MemoryTypes, HistoryTypes

LEMMA PartsUnchanged ==
    ASSUME TypeOK
    PROVE  /\ UNCHANGED logs => LogTypes'
           /\ UNCHANGED <<manifests, current>> => ManifestTypes'
           /\ UNCHANGED tables => TableTypes'
           /\ UNCHANGED historyVars => HistoryTypes'
  <1>1. LogTypes /\ ManifestTypes /\ TableTypes /\ HistoryTypes
    BY TypeParts
  <1>2. UNCHANGED logs => LogTypes'
    BY <1>1 DEF LogTypes, Logs
  <1>3. UNCHANGED <<manifests, current>> => ManifestTypes'
    BY <1>1 DEF ManifestTypes, Manifests
  <1>4. UNCHANGED tables => TableTypes'
    BY <1>1 DEF TableTypes
  <1>5. UNCHANGED historyVars => HistoryTypes'
    BY <1>1 DEF HistoryTypes, historyVars
  <1> QED
    BY <1>2, <1>3, <1>4, <1>5

LEMMA CrashTypes ==
    ASSUME TypeOK, ProcessCrash \/ MachineCrash
    PROVE  TypeOK'
  <1>1. MemoryTypes'
    <2>1. MemoryLost
      BY DEF ProcessCrash, MachineCrash
    <2>2. [logs |-> {}, tables |-> {}, manifests |-> {}]
             \in [logs : SUBSET Numbers, tables : SUBSET Numbers, manifests : SUBSET Numbers]
      OBVIOUS
    <2>3. 0 \in 0..MaxNumber /\ 2 \in 1..(MaxNumber + 1) /\ 0 \in 0..MaxWrites
      BY Parameters
    <2>4. <<>> \in Seq(Records)
      OBVIOUS
    <2> QED
      BY <2>1, <2>2, <2>3, <2>4 DEF MemoryLost, MemoryTypes, NoObsolete
  <1>2. HistoryTypes'
    <2>1. crashes' \in 0..MaxCrashes
      BY Parameters DEF ProcessCrash, MachineCrash, TypeOK
    <2> QED
      BY <2>1 DEF ProcessCrash, MachineCrash, HistoryTypes, TypeOK
  <1>3. TableTypes'
    BY PartsUnchanged DEF ProcessCrash, MachineCrash, diskVars
  <1>4. LogTypes' /\ ManifestTypes'
    <2>1. CASE ProcessCrash
      BY <2>1, PartsUnchanged DEF ProcessCrash, diskVars
    <2>2. CASE MachineCrash
      <3>1. PICK kept \in Kept(logs, Logs) : logs' = Truncate(logs, kept)
        BY <2>2 DEF MachineCrash
      <3>2. LogTypes'
        BY <3>1, TruncatedLogs DEF LogTypes
      <3>3. PICK left \in Kept(manifests, Manifests) : manifests' = Truncate(manifests, left)
        BY <2>2 DEF MachineCrash
      <3>4. ManifestTypes'
        BY <2>2, <3>3, TruncatedManifests DEF ManifestTypes, MachineCrash, TypeOK
      <3> QED
        BY <3>2, <3>4
    <2> QED
      BY <2>1, <2>2
  <1> QED
    BY <1>1, <1>2, <1>3, <1>4, NextTypes

\* What the parts of the invariant say of the file numbers in use.
LEMMA InUse ==
    ASSUME RInv
    PROVE  /\ writing # Nothing \/ obsolete # NoObsolete => phase \in {"clean", "open"}
           /\ writing # Nothing => phase = "open" /\ writing \in PendingWrites
           /\ edit # Nothing => phase \in {"open", "install"} /\ edit \in PendingEdits
           /\ flushing # Nothing \/ compaction # Nothing => phase = "open"
           /\ phase \in {"clean", "open"} =>
                 /\ logfile_number \in Logs /\ current \in Manifests
                 /\ current = manifest_file_number
           /\ phase \in {"clean", "open", "save", "install"} =>
                 logfile_number \in Logs /\ next_file_number \in 2..(MaxNumber + 1)
           /\ phase = "install" => manifest_file_number \in Manifests
           /\ phase \in {"logs", "save", "install"} => manifest_file_number \in Numbers
  <1>1. TypeOK /\ QuietInv
    BY DEF RInv
  <1>2. /\ phase \in {"clean", "open"} =>
               /\ logfile_number \in Logs /\ current \in Manifests
               /\ current = manifest_file_number /\ logfile_number < next_file_number
        /\ phase \in {"logs", "save", "install"} =>
               /\ current \in Manifests /\ manifest_file_number < next_file_number
               /\ current <= manifest_file_number
        /\ phase \in {"save", "install"} => logfile_number \in Logs
        /\ phase = "install" => manifest_file_number \in Manifests
    BY <1>1 DEF RInv, RunningInv, OpeningInv, TypeOK
  <1>3. /\ next_file_number \in 1..(MaxNumber + 1) /\ Logs \subseteq Numbers
        /\ Manifests \subseteq Numbers /\ manifest_file_number \in 0..MaxNumber
    BY <1>1 DEF TypeOK, Logs, Manifests
  <1>4. /\ phase \in {"clean", "open", "save", "install"} => next_file_number \in 2..(MaxNumber + 1)
        /\ phase \in {"logs", "save", "install"} => manifest_file_number \in Numbers
    <2>1. /\ phase \in {"clean", "open", "save", "install"} => logfile_number \in 1..MaxNumber
          /\ phase \in {"logs", "save", "install"} => current \in 1..MaxNumber
      BY <1>2, <1>3, Parameters
    <2>2. phase \in {"clean", "open", "save", "install"} => logfile_number < next_file_number
      BY <1>1, <1>2 DEF RInv, OpeningInv
    <2> QED
      BY <1>2, <1>3, <2>1, <2>2, Parameters
  <1>5. /\ writing \in {Nothing} \cup PendingWrites /\ edit \in {Nothing} \cup PendingEdits
        /\ phase \in {"down", "logs", "save", "install", "clean", "open", "corrupt"}
    BY <1>1 DEF TypeOK
  <1> QED
    BY <1>1, <1>2, <1>4, <1>5 DEF QuietInv

LEMMA EditTypes ==
    ASSUME RInv, phase \in {"clean", "open", "save", "install"},
           NEW log \in 0..MaxNumber, NEW added \in SUBSET Numbers, NEW removed \in SUBSET Numbers
    PROVE  Edit(log, added, removed) \in Edits
  <1>1. next_file_number \in 2..(MaxNumber + 1) /\ last_sequence \in 0..MaxWrites
    BY InUse DEF RInv, TypeOK
  <1> QED
    BY <1>1 DEF Edit, Edits

LEMMA WriteTypes ==
    ASSUME RInv, (\E sync \in BOOLEAN : AddRecord(sync)) \/ FinishWrite \/ SwitchLog
    PROVE  TypeOK'
  <1> USE DEF historyVars, diskVars
  <1>1. TypeOK
    BY DEF RInv
  <1>2. ASSUME NEW sync \in BOOLEAN, AddRecord(sync)
        PROVE  TypeOK'
    <2> DEFINE record == [id |-> written + 1, seq |-> last_sequence + 1]
    <2>1. /\ record \in Records /\ written + 1 \in 0..MaxWrites
          /\ 1..written \subseteq 1..(written + 1)
      <3>1. /\ written \in 0..MaxWrites /\ last_sequence \in 0..MaxWrites
            /\ last_sequence <= written /\ written < MaxWrites
        BY <1>1, <1>2 DEF RInv, BoundInv, TypeOK, AddRecord
      <3>2. written + 1 \in 1..MaxWrites /\ last_sequence + 1 \in 1..MaxWrites
        BY <3>1, Parameters
      <3>3. record \in Records
        BY <3>2, Parameters DEF Records
      <3> QED
        BY <3>1, <3>2, <3>3, Parameters
    <2>2. logfile_number \in Logs
      BY <1>2, InUse DEF AddRecord
    <2>3. /\ logs' = [logs EXCEPT ![logfile_number].records = Append(@, record)]
          /\ writing' = [record |-> record, sync |-> sync]
      BY <1>2 DEF AddRecord
    <2>4. LogTypes'
      <3>1. /\ logs' \in [Numbers -> {NoFile} \cup LogFiles] /\ Logs' = Logs
            /\ \A m \in Numbers \ {logfile_number} : logs'[m] = logs[m]
            /\ logs'[logfile_number].synced <= Len(logs'[logfile_number].records)
        BY <1>1, <2>1, <2>2, <2>3, AppendToLog
      <3> QED
        BY <1>1, <3>1 DEF LogTypes, TypeOK, Logs
    <2>5. ManifestTypes' /\ TableTypes'
      BY <1>1, <1>2, PartsUnchanged DEF AddRecord
    <2>6. writing' \in PendingWrites
      BY <2>1, <2>3 DEF PendingWrites
    <2>7. MemoryTypes'
      BY <1>1, <1>2, <2>6
         DEF AddRecord, MemoryTypes, TypeOK, versionVars, workVars, openVars
    <2>8. HistoryTypes'
      BY <1>1, <1>2, <2>1 DEF AddRecord, HistoryTypes, TypeOK
    <2> QED
      BY <2>4, <2>5, <2>7, <2>8, NextTypes
  <1>3. CASE FinishWrite
    <2>1. /\ logfile_number \in Logs /\ writing \in PendingWrites
          /\ writing.record.id \in 1..written
          /\ writing.record \in Records /\ writing.record.seq \in 0..MaxWrites
      <3>1. logfile_number \in Logs /\ writing \in PendingWrites
        BY <1>3, InUse DEF FinishWrite
      <3>2. writing.record \in Records /\ writing.record.id \in Ids /\ writing.record.seq \in Ids
        BY <3>1, Fields
      <3>3. writing.record.id <= written /\ written \in Nat
        BY <1>1, <1>3, <3>1, Fields, Parameters DEF RInv, BoundInv, TypeOK
      <3> QED
        BY <3>1, <3>2, <3>3, Parameters
    <2>2. LogTypes'
      <3>1. CASE writing.sync
        <4>1. logs' = [logs EXCEPT ![logfile_number].synced = Len(logs[logfile_number].records)]
          BY <1>3, <3>1 DEF FinishWrite
        <4>2. /\ logs' \in [Numbers -> {NoFile} \cup LogFiles] /\ Logs' = Logs
              /\ \A m \in Numbers \ {logfile_number} : logs'[m] = logs[m]
              /\ logs'[logfile_number].synced <= Len(logs'[logfile_number].records)
          <5>1. /\ logs' \in [Numbers -> {NoFile} \cup LogFiles] /\ Logs' = Logs
                /\ \A m \in Numbers \ {logfile_number} : logs'[m] = logs[m]
                /\ logs'[logfile_number].records = logs[logfile_number].records
                /\ logs'[logfile_number].synced = Len(logs[logfile_number].records)
            BY <1>1, <2>1, <4>1, SyncLog
          <5>2. Len(logs[logfile_number].records) \in Nat
            BY <1>1, <2>1, LogFacts
          <5> QED
            BY <5>1, <5>2
        <4> QED
          BY <1>1, <4>2 DEF LogTypes, TypeOK, Logs
      <3>2. CASE ~writing.sync
        BY <1>1, <1>3, <3>2, PartsUnchanged DEF FinishWrite
      <3> QED
        BY <3>1, <3>2
    <2>3. ManifestTypes' /\ TableTypes'
      BY <1>1, <1>3, PartsUnchanged DEF FinishWrite
    <2>4. mem' \in Seq(Records)
      BY <1>1, <1>3, <2>1, MembersOfAppend DEF FinishWrite, TypeOK
    <2>5. MemoryTypes'
      <3>1. /\ last_sequence' = writing.record.seq /\ writing' = Nothing
            /\ UNCHANGED <<phase, log_number, next_file_number, manifest_file_number, live, imm,
                           has_imm, logfile_number, workVars, openVars>>
        BY <1>3 DEF FinishWrite
      <3>2. last_sequence' \in 0..MaxWrites
        BY <1>1, <1>3, <2>1, <3>1 DEF FinishWrite, TypeOK
      <3> QED
        BY <1>1, <2>4, <3>1, <3>2 DEF MemoryTypes, TypeOK, workVars, openVars
    <2>6. firm' = firm \/ firm' = firm \cup {writing.record.id}
      BY <1>3 DEF FinishWrite
    <2>7. writing.record.id \in Ids
      BY <2>1, Fields
    <2>8. HistoryTypes'
      BY <1>1, <1>3, <2>6, <2>7 DEF FinishWrite, HistoryTypes, TypeOK
    <2> QED
      BY <2>2, <2>3, <2>5, <2>8, NextTypes
  <1>4. CASE SwitchLog
    <2>1. /\ next_file_number \in Numbers /\ next_file_number \in 0..MaxNumber
          /\ next_file_number' \in 1..(MaxNumber + 1)
      BY <1>1, <1>4, Parameters DEF SwitchLog, NewFileNumber, TypeOK
    <2>2. LogTypes'
      <3>1. /\ logs' \in [Numbers -> {NoFile} \cup LogFiles] /\ Logs' = Logs \cup {next_file_number}
            /\ \A m \in Numbers \ {next_file_number} : logs'[m] = logs[m]
            /\ logs'[next_file_number].records = <<>> /\ logs'[next_file_number].synced = 0
        BY <1>1, <1>4, <2>1, NewLog DEF SwitchLog
      <3>2. Len(<<>>) = 0
        OBVIOUS
      <3> QED
        BY <1>1, <3>1, <3>2 DEF LogTypes, TypeOK, Logs
    <2>3. ManifestTypes' /\ TableTypes' /\ HistoryTypes'
      BY <1>1, <1>4, PartsUnchanged DEF SwitchLog
    <2>4. MemoryTypes'
      <3>1. <<>> \in Seq(Records)
        OBVIOUS
      <3> QED
        BY <1>1, <1>4, <2>1, <3>1 DEF SwitchLog, MemoryTypes, TypeOK, workVars, openVars
    <2> QED
      BY <2>2, <2>3, <2>4, NextTypes
  <1> QED
    BY <1>2, <1>3, <1>4

LEMMA RemovalTypes ==
    ASSUME RInv, RemoveObsoleteFile
    PROVE  TypeOK'
  <1>1. TypeOK
    BY DEF RInv
  <1>2. /\ obsolete.logs \subseteq Numbers /\ obsolete.tables \subseteq Numbers
        /\ obsolete.manifests \subseteq Numbers
        /\ obsolete \in [logs : SUBSET Numbers, tables : SUBSET Numbers, manifests : SUBSET Numbers]
    BY <1>1 DEF TypeOK
  <1>3. obsolete' \in [logs : SUBSET Numbers, tables : SUBSET Numbers, manifests : SUBSET Numbers]
    BY <1>2 DEF RemoveObsoleteFile, RemoveLog, RemoveTable, RemoveManifest
  <1>4. MemoryTypes'
    BY <1>1, <1>3 DEF RemoveObsoleteFile, MemoryTypes, TypeOK, versionVars, writeVars, openVars
  <1>5. HistoryTypes' /\ UNCHANGED current
    BY <1>1, PartsUnchanged DEF RemoveObsoleteFile
  <1>6. CASE RemoveLog
    <2>1. PICK n \in obsolete.logs : logs' = [logs EXCEPT ![n] = NoFile]
      BY <1>6 DEF RemoveLog
    <2>2. LogTypes'
      BY <1>1, <1>2, <2>1 DEF LogTypes, TypeOK, Logs
    <2> QED
      BY <1>1, <1>4, <1>5, <1>6, <2>2, PartsUnchanged, NextTypes DEF RemoveLog
  <1>7. CASE RemoveTable
    <2>1. PICK n \in obsolete.tables : tables' = [tables EXCEPT ![n] = NoFile]
      BY <1>7 DEF RemoveTable
    <2>2. TableTypes'
      BY <1>1, <1>2, <2>1 DEF TableTypes, TypeOK
    <2> QED
      BY <1>1, <1>4, <1>5, <1>7, <2>2, PartsUnchanged, NextTypes DEF RemoveTable
  <1>8. CASE RemoveManifest
    <2>1. PICK n \in obsolete.manifests : manifests' = [manifests EXCEPT ![n] = NoFile]
      BY <1>8 DEF RemoveManifest
    <2>2. obsolete # NoObsolete
      BY <2>1 DEF NoObsolete
    <2>3. current \in Manifests /\ current = manifest_file_number
      BY <2>2, InUse
    <2>4. n # current
      <3>1. n < manifest_file_number
        BY <2>1 DEF RInv, ObsoleteInv
      <3> QED
        BY <1>1, <1>2, <2>1, <2>3, <3>1, Parameters DEF Manifests
    <2>5. ManifestTypes'
      BY <1>1, <1>2, <1>5, <2>1, <2>3, <2>4 DEF ManifestTypes, TypeOK, Manifests
    <2> QED
      BY <1>1, <1>4, <1>5, <1>8, <2>5, PartsUnchanged, NextTypes DEF RemoveManifest
  <1> QED
    BY <1>6, <1>7, <1>8 DEF RemoveObsoleteFile

LEMMA ObsoleteTypes ==
    ASSUME NEW version, NEW log, NEW manifest, NEW pending
    PROVE  FindObsolete(version, log, manifest, pending)
              \in [logs : SUBSET Numbers, tables : SUBSET Numbers, manifests : SUBSET Numbers]
  <1>1. /\ {n \in Logs : n < log} \subseteq Numbers
        /\ Tables \ (version \cup pending) \subseteq Numbers
        /\ {n \in Manifests : n < manifest} \subseteq Numbers
    BY DEF Logs, Tables, Manifests
  <1> QED
    BY <1>1 DEF FindObsolete

\* LogAndApply succeeds: the MANIFEST that is in use gets its record synced.
LEMMA InstallTypes ==
    ASSUME RInv, edit \in PendingEdits, InstallVersion(edit.edit),
           manifest_file_number \in Manifests
    PROVE  /\ manifests' \in [Numbers -> {NoFile} \cup ManifestFiles]
           /\ Manifests' = Manifests
           /\ \A n \in Manifests' : manifests'[n].synced <= Len(manifests'[n].records)
           /\ live' \subseteq Numbers /\ log_number' \in 0..MaxNumber
           /\ edit' = Nothing /\ firm \subseteq firm' /\ firm' \subseteq promised
  <1>1. TypeOK /\ edit.edit \in Edits
    BY Fields DEF RInv
  <1>2. SyncManifest
    BY DEF InstallVersion
  <1>3. /\ manifests' \in [Numbers -> {NoFile} \cup ManifestFiles] /\ Manifests' = Manifests
        /\ \A m \in Numbers \ {manifest_file_number} : manifests'[m] = manifests[m]
        /\ \A m \in Manifests : manifests'[m].records = manifests[m].records
        /\ manifests'[manifest_file_number].synced =
                 Len(manifests[manifest_file_number].records)
    BY <1>1, <1>2, SyncTheManifest
  <1>4. \A n \in Manifests' : manifests'[n].synced <= Len(manifests'[n].records)
    <2>1. Len(manifests[manifest_file_number].records) \in Nat
      BY <1>1, ManifestFacts
    <2> TAKE n \in Manifests'
    <2>2. n \in Manifests /\ n \in Numbers /\ manifests'[n].records = manifests[n].records
      BY <1>3 DEF Manifests
    <2>3. CASE n = manifest_file_number
      BY <2>1, <2>2, <2>3, <1>3
    <2>4. CASE n # manifest_file_number
      <3>1. manifests'[n] = manifests[n]
        BY <2>2, <2>4, <1>3
      <3>2. manifests[n].synced <= Len(manifests[n].records)
        BY <1>1, <2>2 DEF TypeOK
      <3> QED
        BY <3>1, <3>2
    <2> QED
      BY <2>3, <2>4
  <1>5. /\ edit.edit.added \subseteq Numbers /\ edit.edit.log \in 0..MaxNumber
        /\ live \subseteq Numbers
    BY <1>1, Fields DEF TypeOK
  <1> QED
    BY <1>1, <1>3, <1>4, <1>5 DEF InstallVersion, SaveTo, TypeOK

LEMMA FlushTypes ==
    ASSUME RInv, StartFlush \/ BuildTable \/ FinishFlush
    PROVE  TypeOK'
  <1> USE DEF historyVars, diskVars
  <1>1. TypeOK
    BY DEF RInv
  <1>2. CASE StartFlush
    <2>1. /\ next_file_number \in Numbers /\ next_file_number' \in 1..(MaxNumber + 1)
      BY <1>1, <1>2, Parameters DEF StartFlush, NewFileNumber, TypeOK
    <2>2. TableTypes'
      BY <1>1, <1>2, <2>1, WriteTable DEF StartFlush, TableTypes
    <2>3. LogTypes' /\ ManifestTypes' /\ HistoryTypes'
      BY <1>1, <1>2, PartsUnchanged DEF StartFlush
    <2>4. MemoryTypes'
      BY <1>1, <1>2, <2>1 DEF StartFlush, MemoryTypes, TypeOK, writeVars, openVars
    <2> QED
      BY <2>2, <2>3, <2>4, NextTypes
  <1>3. CASE BuildTable
    <2>1. /\ phase = "open" /\ flushing \in Numbers /\ logfile_number \in 0..MaxNumber
          /\ manifest_file_number \in Manifests /\ Range(imm) \in SUBSET Records
      BY <1>1, <1>3, InUse, MembersOfSeq DEF BuildTable, TypeOK
    <2>2. TableTypes'
      BY <1>1, <1>3, <2>1, WriteTable DEF BuildTable, TableTypes
    <2> DEFINE e == Edit(logfile_number, {flushing}, {})
    <2>3. e \in Edits
      BY <2>1, EditTypes
    <2>4. edit' = [by |-> "flush", edit |-> e] /\ edit' \in PendingEdits /\ edit'.edit = e
      BY <1>3, <2>3 DEF BuildTable, PendingEdits
    <2> HIDE DEF e
    <2>5. manifests' = [manifests EXCEPT ![manifest_file_number].records = Append(@, e)]
      BY <1>3, <2>4 DEF BuildTable, AppendEdit
    <2>6. ManifestTypes'
      <3>1. /\ manifests' \in [Numbers -> {NoFile} \cup ManifestFiles] /\ Manifests' = Manifests
            /\ \A m \in Numbers \ {manifest_file_number} : manifests'[m] = manifests[m]
            /\ manifests'[manifest_file_number].synced <=
                  Len(manifests'[manifest_file_number].records)
        BY <1>1, <2>1, <2>3, <2>5, AppendToManifest
      <3> QED
        BY <1>1, <1>3, <3>1 DEF ManifestTypes, TypeOK, Manifests, BuildTable
    <2>7. LogTypes' /\ HistoryTypes'
      BY <1>1, <1>3, PartsUnchanged DEF BuildTable
    <2>8. MemoryTypes'
      BY <1>1, <1>3, <2>4 DEF BuildTable, MemoryTypes, TypeOK, versionVars, writeVars, openVars
    <2> QED
      BY <2>2, <2>6, <2>7, <2>8, NextTypes
  <1>4. CASE FinishFlush
    <2>1. edit \in PendingEdits /\ edit.by = "flush" /\ InstallVersion(edit.edit)
      BY <1>4, InUse DEF FinishFlush
    <2>2. phase = "open" /\ manifest_file_number \in Manifests /\ edit.edit.removed = {}
      BY <1>4, <2>1, InUse DEF FinishFlush, RInv, EditInv
    <2>3. ManifestTypes'
      BY <1>1, <1>4, <2>1, <2>2, InstallTypes DEF ManifestTypes, FinishFlush, TypeOK
    <2>4. LogTypes' /\ TableTypes'
      BY <1>1, <1>4, PartsUnchanged DEF FinishFlush
    <2>5. HistoryTypes'
      BY <1>1, <1>4, <2>1, <2>2, InstallTypes DEF FinishFlush, HistoryTypes, TypeOK
    <2>6. obsolete' \in [logs : SUBSET Numbers, tables : SUBSET Numbers, manifests : SUBSET Numbers]
      <3>1. NoObsolete \in [logs : SUBSET Numbers, tables : SUBSET Numbers,
                            manifests : SUBSET Numbers]
        BY DEF NoObsolete
      <3> QED
        BY <1>4, <3>1, ObsoleteTypes DEF FinishFlush
    <2>7. live \subseteq live' /\ live' \subseteq Numbers /\ log_number' \in 0..MaxNumber
      BY <2>1, <2>2, InstallTypes DEF InstallVersion, SaveTo
    <2>8. edit' = Nothing
      BY <2>1 DEF InstallVersion
    <2>9. <<>> \in Seq(Records)
      OBVIOUS
    <2>10. MemoryTypes'
      BY <1>1, <1>4, <2>6, <2>7, <2>8, <2>9 DEF FinishFlush, MemoryTypes, TypeOK, openVars
    <2> QED
      BY <2>3, <2>4, <2>5, <2>10, NextTypes
  <1> QED
    BY <1>2, <1>3, <1>4

LEMMA CompactionTypes ==
    ASSUME RInv, StartCompaction \/ InstallCompactionResults \/ FinishCompaction \/ LogAndApplyFails
    PROVE  TypeOK'
  <1> USE DEF historyVars, diskVars
  <1>1. TypeOK
    BY DEF RInv
  <1>2. CASE StartCompaction
    <2>1. /\ next_file_number \in Numbers /\ next_file_number' \in 1..(MaxNumber + 1)
      <3>1. next_file_number <= MaxNumber /\ next_file_number' = next_file_number + 1
        BY <1>2 DEF StartCompaction, NewFileNumber
      <3>2. next_file_number \in 1..(MaxNumber + 1)
        BY <1>1 DEF TypeOK
      <3> QED
        BY <3>1, <3>2, Parameters
    <2>2. TableTypes'
      BY <1>1, <1>2, <2>1, WriteTable DEF StartCompaction, TableTypes
    <2>3. LogTypes' /\ ManifestTypes'
      BY <1>1, <1>2, PartsUnchanged DEF StartCompaction
    <2>4. HistoryTypes'
      <3>1. compactions < MaxCompactions /\ compactions' = compactions + 1
        BY <1>2 DEF StartCompaction
      <3>2. compactions \in 0..MaxCompactions
        BY <1>1 DEF TypeOK
      <3>3. compactions' \in 0..MaxCompactions
        BY <3>1, <3>2, Parameters
      <3> QED
        BY <1>1, <1>2, <3>3 DEF StartCompaction, HistoryTypes, TypeOK
    <2>5. compaction' \in Compactions /\ compaction'.inputs \subseteq live /\ compaction'.inputs # {}
      <3>1. PICK inputs \in (SUBSET live) \ {{}} :
               compaction' = [inputs |-> inputs, output |-> next_file_number]
        BY <1>2 DEF StartCompaction
      <3>2. inputs \in SUBSET Numbers
        BY <1>1, <3>1 DEF TypeOK
      <3>3. compaction' \in Compactions
        BY <2>1, <3>1, <3>2 DEF Compactions
      <3>4. compaction'.inputs = inputs
        BY <3>1
      <3> QED
        BY <3>1, <3>3, <3>4
    <2>6. MemoryTypes'
      BY <1>1, <1>2, <2>1, <2>5 DEF StartCompaction, MemoryTypes, TypeOK, writeVars, openVars
    <2> QED
      BY <2>2, <2>3, <2>4, <2>6, NextTypes
  <1>3. CASE InstallCompactionResults
    <2>1. /\ phase = "open" /\ compaction \in Compactions /\ log_number \in 0..MaxNumber
          /\ compaction.inputs \subseteq Numbers /\ compaction.output \in Numbers
          /\ compaction.inputs \subseteq live /\ manifest_file_number \in Manifests
      BY <1>1, <1>3, InUse, Fields DEF InstallCompactionResults, Ready, TypeOK
    <2>2. UNION {tables[n] : n \in compaction.inputs} \in SUBSET Records
      BY <1>1, <2>1, TableFacts DEF RInv, RunningInv
    <2>3. TableTypes'
      <3> DEFINE t == IF tables[compaction.output] = NoFile THEN NoFile
                      ELSE UNION {tables[n] : n \in compaction.inputs}
      <3>1. t \in {NoFile, Partial} \cup SUBSET Records
        BY <2>2
      <3>2. tables' = [tables EXCEPT ![compaction.output] = t]
        BY <1>3 DEF InstallCompactionResults
      <3> HIDE DEF t
      <3> QED
        BY <1>1, <2>1, <3>1, <3>2, WriteTable DEF TableTypes
    <2> DEFINE e == Edit(log_number, {compaction.output}, compaction.inputs)
    <2>4. e \in Edits
      BY <2>1, EditTypes
    <2>5. edit' = [by |-> "compaction", edit |-> e] /\ edit' \in PendingEdits /\ edit'.edit = e
      BY <1>3, <2>4 DEF InstallCompactionResults, PendingEdits
    <2> HIDE DEF e
    <2>6. manifests' = [manifests EXCEPT ![manifest_file_number].records = Append(@, e)]
      BY <1>3, <2>5 DEF InstallCompactionResults, AppendEdit
    <2>7. ManifestTypes'
      <3>1. /\ manifests' \in [Numbers -> {NoFile} \cup ManifestFiles] /\ Manifests' = Manifests
            /\ \A m \in Numbers \ {manifest_file_number} : manifests'[m] = manifests[m]
            /\ manifests'[manifest_file_number].synced <=
                  Len(manifests'[manifest_file_number].records)
        BY <1>1, <2>1, <2>4, <2>6, AppendToManifest
      <3> QED
        BY <1>1, <1>3, <3>1 DEF ManifestTypes, TypeOK, Manifests, InstallCompactionResults
    <2>8. LogTypes' /\ HistoryTypes'
      BY <1>1, <1>3, PartsUnchanged DEF InstallCompactionResults
    <2>9. MemoryTypes'
      BY <1>1, <1>3, <2>5
         DEF InstallCompactionResults, MemoryTypes, TypeOK, versionVars, writeVars, openVars
    <2> QED
      BY <2>3, <2>7, <2>8, <2>9, NextTypes
  <1>4. CASE FinishCompaction
    <2>1. edit \in PendingEdits /\ edit.by = "compaction" /\ InstallVersion(edit.edit)
      BY <1>4, InUse DEF FinishCompaction
    <2>2. phase = "open" /\ manifest_file_number \in Manifests
      BY <1>4, <2>1, InUse DEF FinishCompaction, RInv, EditInv
    <2>3. ManifestTypes'
      BY <1>1, <1>4, <2>1, <2>2, InstallTypes DEF ManifestTypes, FinishCompaction, TypeOK
    <2>4. LogTypes' /\ TableTypes'
      BY <1>1, <1>4, PartsUnchanged DEF FinishCompaction
    <2>5. HistoryTypes'
      BY <1>1, <1>4, <2>1, <2>2, InstallTypes DEF FinishCompaction, HistoryTypes, TypeOK
    <2>6. obsolete' \in [logs : SUBSET Numbers, tables : SUBSET Numbers, manifests : SUBSET Numbers]
      <3>1. NoObsolete \in [logs : SUBSET Numbers, tables : SUBSET Numbers,
                            manifests : SUBSET Numbers]
        BY DEF NoObsolete
      <3> QED
        BY <1>4, <3>1, ObsoleteTypes DEF FinishCompaction
    <2>7. /\ live' \subseteq Numbers /\ log_number' \in 0..MaxNumber /\ edit' = Nothing
      BY <2>1, <2>2, InstallTypes
    <2>8. MemoryTypes'
      BY <1>1, <1>4, <2>6, <2>7 DEF FinishCompaction, MemoryTypes, TypeOK, writeVars, openVars
    <2> QED
      BY <2>3, <2>4, <2>5, <2>8, NextTypes
  <1>5. CASE LogAndApplyFails
    <2>1. /\ phase = "open" /\ manifest_file_number \in Manifests /\ edit.by # "open"
          /\ current = manifest_file_number
      BY <1>5, InUse DEF LogAndApplyFails, RInv, EditInv
    <2> DEFINE n == manifest_file_number
               s == manifests[n].records
    <2>2. /\ n \in Numbers /\ manifests[n] \in ManifestFiles /\ s \in Seq(Edits)
          /\ manifests[n].synced \in Nat /\ Len(s) \in Nat /\ manifests[n].synced < Len(s)
      BY <1>1, <1>5, <2>1, ManifestFacts DEF LogAndApplyFails, RInv, EditInv, CurrentEdits
    <2>3. ManifestTypes'
      <3>1. CASE UNCHANGED manifests
        BY <1>1, <1>5, <3>1, PartsUnchanged DEF LogAndApplyFails
      <3>2. CASE manifests' = [manifests EXCEPT ![n].records = Front(@)]
        <4>1. Front(s) \in Seq(Edits) /\ Len(Front(s)) = Len(s) - 1
          BY <2>2, MembersOfFront
        <4>2. [manifests[n] EXCEPT !.records = Front(s)] \in ManifestFiles
          BY <2>2, <4>1 DEF ManifestFiles
        <4>3. manifests' = [manifests EXCEPT ![n] = [manifests[n] EXCEPT !.records = Front(s)]]
          BY <3>2
        <4>4. /\ manifests' \in [Numbers -> {NoFile} \cup ManifestFiles]
              /\ Manifests' = Manifests \cup {n}
              /\ manifests'[n] = [manifests[n] EXCEPT !.records = Front(s)]
              /\ \A m \in Numbers \ {n} : manifests'[m] = manifests[m]
          BY <1>1, <2>2, <4>2, <4>3, NewManifest
        <4>5. manifests'[n].records = Front(s) /\ manifests'[n].synced = manifests[n].synced
          BY <2>2, <4>4 DEF ManifestFiles
        <4>6. manifests'[n].synced <= Len(manifests'[n].records)
          BY <2>2, <4>1, <4>5
        <4> QED
          BY <1>1, <1>5, <4>4, <4>6 DEF ManifestTypes, TypeOK, Manifests, LogAndApplyFails
      <3> QED
        BY <1>5, <3>1, <3>2 DEF LogAndApplyFails
    <2>4. LogTypes' /\ TableTypes'
      BY <1>1, <1>5, PartsUnchanged DEF LogAndApplyFails
    <2>5. HistoryTypes'
      <3>1. failures' \in 0..MaxFailures
        <4>1. failures \in 0..MaxFailures /\ failures < MaxFailures /\ failures' = failures + 1
          BY <1>1, <1>5 DEF LogAndApplyFails, TypeOK
        <4> QED
          BY <4>1, Parameters
      <3> QED
        BY <1>1, <1>5, <3>1 DEF LogAndApplyFails, HistoryTypes, TypeOK
    <2>6. MemoryTypes'
      BY <1>1, <1>5 DEF LogAndApplyFails, MemoryTypes, TypeOK, versionVars, writeVars, openVars
    <2> QED
      BY <2>3, <2>4, <2>5, <2>6, NextTypes
  <1> QED
    BY <1>2, <1>3, <1>4, <1>5

\* When the database is opened, what readers see is in tables, and is firm.
LEMMA OpenedFacts ==
    ASSUME RInv, OpenReturns
    PROVE  /\ Visible = InTable(live) /\ InTable(live) \subseteq Records
           /\ promised' = IdsOf(InTable(live)) /\ firm' = promised'
  <1>1. TypeOK /\ QuietInv /\ RunningInv /\ phase = "clean"
    BY DEF RInv, OpenReturns
  <1>2. Visible = InTable(live)
    <2>1. mem = <<>> /\ imm = <<>> /\ Range(<<>>) = {}
      BY <1>1 DEF QuietInv, Range
    <2> QED
      BY <2>1 DEF Visible, InTable
  <1>3. \A n \in live : n \in Tables /\ tables[n] \in SUBSET Records
    BY <1>1, TableFacts DEF RunningInv, TypeOK
  <1>4. InTable(live) \subseteq Records
    BY <1>3 DEF InTable
  <1>5. InTables(live) = IdsOf(InTable(live))
    <2>1. live \cap Tables = live
      BY <1>3
    <2> QED
      BY <2>1 DEF InTables, InTable, IdsOf
  <1>6. /\ promised' = promised \cup IdsOf(Visible)
        /\ firm' = firm \cup IdsOf(InTable(live))
    BY <1>5 DEF OpenReturns, IdsOf
  <1>7. promised \subseteq IdsOf(Visible) /\ firm \subseteq promised
    BY <1>1 DEF RunningInv, TypeOK
  <1> QED
    BY <1>2, <1>4, <1>6, <1>7

LEMMA OpeningTypes ==
    ASSUME RInv, CreateDatabase \/ RecoverVersion \/ OpenLog \/ OpenReturns,
           ReuseLogs = {FALSE}
    PROVE  TypeOK'
  <1> USE DEF historyVars, diskVars
  <1>1. TypeOK /\ QuietInv
    BY DEF RInv
  <1>2. CASE CreateDatabase
    <2> DEFINE f == [records |-> <<[log |-> 0, next |-> 2, last |-> 0, added |-> {}, removed |-> {}]>>,
                     synced |-> 1]
    <2>1. [log |-> 0, next |-> 2, last |-> 0, added |-> {}, removed |-> {}] \in Edits
      BY Parameters DEF Edits
    <2>2. f \in ManifestFiles /\ f.synced <= Len(f.records)
      BY <2>1 DEF ManifestFiles
    <2>3. manifests' = [manifests EXCEPT ![1] = f] /\ 1 \in Numbers
      BY <1>2, Parameters DEF CreateDatabase
    <2> HIDE DEF f
    <2>4. ManifestTypes'
      <3>1. /\ manifests' \in [Numbers -> {NoFile} \cup ManifestFiles]
            /\ Manifests' = Manifests \cup {1} /\ manifests'[1] = f
            /\ \A m \in Numbers \ {1} : manifests'[m] = manifests[m]
        BY <1>1, <2>2, <2>3, NewManifest
      <3>2. current' \in Manifests'
        BY <1>2, <3>1 DEF CreateDatabase
      <3>3. \A n \in Manifests' : manifests'[n].synced <= Len(manifests'[n].records)
        BY <1>1, <2>2, <3>1 DEF TypeOK, Manifests
      <3> QED
        BY <3>1, <3>2, <3>3 DEF ManifestTypes
    <2>5. LogTypes' /\ TableTypes' /\ HistoryTypes'
      BY <1>1, <1>2, PartsUnchanged DEF CreateDatabase
    <2>6. MemoryTypes'
      BY <1>1, <1>2
         DEF CreateDatabase, MemoryTypes, TypeOK, versionVars, writeVars, workVars, openVars
    <2> QED
      BY <2>4, <2>5, <2>6, NextTypes
  <1>3. CASE RecoverVersion
    <2> DEFINE edits == manifests[current].records
               e == Last(edits)
    <2>1. /\ phase = "down" /\ current # NoFile /\ e.next < MaxNumber /\ ReuseManifest(e.next)
          /\ next_file_number' = e.next + 1 /\ last_sequence' = e.last /\ log_number' = e.log
          /\ live' = VersionAfter(edits, Len(edits))
          /\ phase' \in {"logs", "corrupt"}
          /\ todo' = LogsToRecover(e.log)
          /\ UNCHANGED <<diskVars, writeVars, workVars, recovered, historyVars>>
      BY <1>3 DEF RecoverVersion
    <2>2. current \in Manifests /\ manifests[current].synced >= 1
      BY <1>1, <2>1 DEF RInv, DiskInv, TypeOK
    <2>3. e \in Edits
      <3>1. Len(edits) \in 1..Len(edits) /\ edits[Len(edits)] \in Edits
        BY <1>1, <2>2, ManifestFacts
      <3> QED
        BY <3>1 DEF Last
    <2>4. /\ e.next \in 0..MaxNumber /\ e.next + 1 \in 1..(MaxNumber + 1)
          /\ e.last \in 0..MaxWrites /\ e.log \in 0..MaxNumber
      BY <2>1, <2>3, Fields, Parameters
    <2>5. live' \subseteq Numbers /\ todo' \subseteq Numbers
      BY <2>1 DEF VersionAfter, LogsToRecover, Logs
    <2>6. manifest_file_number' \in 0..MaxNumber /\ reuse' \in BOOLEAN /\ save_manifest' \in BOOLEAN
      BY <2>1, <2>4 DEF ReuseManifest
    <2>7. compaction = Nothing
      BY <1>1, <2>1 DEF QuietInv
    <2> HIDE DEF e, edits
    <2>8. MemoryTypes'
      BY <1>1, <2>1, <2>4, <2>5, <2>6, <2>7 DEF MemoryTypes, TypeOK, writeVars, workVars
    <2>9. LogTypes' /\ ManifestTypes' /\ TableTypes' /\ HistoryTypes'
      BY <1>1, <2>1, PartsUnchanged
    <2> QED
      BY <2>8, <2>9, NextTypes
  <1>4. CASE OpenLog
    <2>1. logfile_number = 0
      BY <1>1, <1>4 DEF QuietInv, OpenLog
    <2>2. /\ NewFileNumber /\ logfile_number' = next_file_number
          /\ logs' = [logs EXCEPT ![next_file_number] = [records |-> <<>>, synced |-> 0]]
      BY <1>4, <2>1 DEF OpenLog
    <2>3. /\ next_file_number \in Numbers /\ logfile_number' \in 0..MaxNumber
          /\ next_file_number' \in 1..(MaxNumber + 1)
      BY <1>1, <2>2, Parameters DEF NewFileNumber, TypeOK
    <2>4. LogTypes'
      <3>1. /\ logs' \in [Numbers -> {NoFile} \cup LogFiles] /\ Logs' = Logs \cup {next_file_number}
            /\ \A m \in Numbers \ {next_file_number} : logs'[m] = logs[m]
            /\ logs'[next_file_number].records = <<>> /\ logs'[next_file_number].synced = 0
        BY <1>1, <2>2, <2>3, NewLog
      <3>2. Len(<<>>) = 0
        OBVIOUS
      <3> QED
        BY <1>1, <3>1, <3>2 DEF LogTypes, TypeOK, Logs
    <2>5. ManifestTypes' /\ TableTypes' /\ HistoryTypes'
      BY <1>1, <1>4, PartsUnchanged DEF OpenLog
    <2>6. /\ obsolete' \in [logs : SUBSET Numbers, tables : SUBSET Numbers,
                            manifests : SUBSET Numbers]
          /\ phase' \in {"save", "clean"}
      BY <1>1, <1>4, ObsoleteTypes DEF OpenLog, TypeOK
    <2>7. MemoryTypes'
      BY <1>1, <1>4, <2>3, <2>6 DEF OpenLog, MemoryTypes, TypeOK, openVars
    <2> QED
      BY <2>4, <2>5, <2>7, NextTypes
  <1>5. CASE OpenReturns
    <2>1. LogTypes' /\ ManifestTypes' /\ TableTypes'
      BY <1>1, <1>5, PartsUnchanged DEF OpenReturns
    <2>2. MemoryTypes'
      BY <1>1, <1>5
         DEF OpenReturns, MemoryTypes, TypeOK, versionVars, writeVars, workVars, openVars
    <2>3. HistoryTypes'
      <3>1. \A r \in InTable(live) : r.id \in Ids
        BY <1>5, OpenedFacts, Fields
      <3>2. promised' = IdsOf(InTable(live)) /\ firm' = promised'
        BY <1>5, OpenedFacts
      <3>3. UNCHANGED <<written, crashes, compactions, failures>>
        BY <1>5 DEF OpenReturns
      <3> QED
        BY <1>1, <3>1, <3>2, <3>3 DEF HistoryTypes, IdsOf, TypeOK
    <2> QED
      BY <2>1, <2>2, <2>3, NextTypes
  <1> QED
    BY <1>2, <1>3, <1>4, <1>5

\* The log that is read next, and what its records do to the counters.
LEMMA NextLog ==
    ASSUME RInv, RecoverLogFile
    PROVE  /\ Min(todo) \in todo /\ Min(todo) \in Logs /\ todo \subseteq Logs
           /\ \A n \in todo : Min(todo) <= n
           /\ logs[Min(todo)].records \in Seq(Records)
           /\ last_sequence' = MaxSequence(logs[Min(todo)].records)
           /\ last_sequence' \in 0..MaxWrites /\ last_sequence <= last_sequence'
           /\ \A r \in InLog(Min(todo)) : r.seq <= last_sequence'
           /\ last_sequence' = last_sequence
                 \/ \E r \in InLog(Min(todo)) : last_sequence' = r.seq
           /\ UNCHANGED <<mem, logfile_number>> /\ todo' = todo \ {Min(todo)}
           /\ IF logs[Min(todo)].records = <<>>
              THEN /\ UNCHANGED <<tables, recovered, save_manifest>>
                   /\ next_file_number' \in {next_file_number, Min(todo) + 1}
              ELSE /\ next_file_number \in Numbers
                   /\ tables' = [tables EXCEPT ![next_file_number] = InLog(Min(todo))]
                   /\ recovered' = recovered \cup {next_file_number}
                   /\ save_manifest' = TRUE
                   /\ next_file_number' \in {next_file_number + 1, Min(todo) + 1}
                   /\ next_file_number + 1 <= next_file_number'
           /\ next_file_number <= next_file_number' /\ Min(todo) + 1 <= next_file_number'
           /\ next_file_number' \in 1..(MaxNumber + 1)
  <1> DEFINE log == Min(todo)
             records == logs[log].records
             after == IF records = <<>> THEN next_file_number ELSE next_file_number + 1
  <1>1. TypeOK /\ ~reuse /\ phase = "logs"
    BY DEF RInv, QuietInv, RecoverLogFile
  <1>2. todo \subseteq Logs /\ todo # {} /\ Logs \subseteq Numbers
    BY <1>1 DEF RInv, OpeningInv, RecoverLogFile, Logs
  <1>3. log \in todo /\ \A n \in todo : log <= n
    BY <1>2, Parameters, MinIsLeast
  <1>4. log \in Logs /\ log \in 1..MaxNumber
    BY <1>2, <1>3, Parameters
  <1>5. /\ records \in Seq(Records)
        /\ InLog(log) = {records[i] : i \in 1..Len(records)} /\ InLog(log) \subseteq Records
    BY <1>1, <1>4, LogFacts
  <1>6. /\ last_sequence' = MaxSequence(records)
        /\ last_sequence' \in 0..MaxWrites /\ last_sequence <= last_sequence'
        /\ \A r \in InLog(log) : r.seq <= last_sequence'
        /\ last_sequence' = last_sequence \/ \E r \in InLog(log) : last_sequence' = r.seq
    <2> DEFINE T == {last_sequence} \cup {records[i].seq : i \in 1..Len(records)}
    <2>1. last_sequence' = Max(T)
      BY DEF RecoverLogFile, MaxSequence
    <2>2. T \in SUBSET (0..MaxWrites) /\ T # {} /\ MaxWrites \in Nat
      <3>1. \A r \in InLog(log) : r.seq \in 0..MaxWrites
        BY <1>5, Fields, Parameters
      <3>2. \A i \in 1..Len(records) : records[i].seq \in 0..MaxWrites
        BY <1>5, <3>1
      <3> QED
        BY <1>1, <3>2, Parameters DEF TypeOK
    <2>3. Max(T) \in T /\ \A y \in T : Max(T) >= y
      BY <2>2, MaxIsGreatest
    <2>4. last_sequence' \in T /\ \A y \in T : y <= last_sequence'
      BY <2>1, <2>2, <2>3
    <2> QED
      BY <1>5, <2>2, <2>4 DEF RecoverLogFile
  <1>7. /\ after <= MaxNumber + 1
        /\ UNCHANGED <<mem, logfile_number>>
        /\ IF records = <<>>
           THEN UNCHANGED <<tables, recovered, save_manifest>>
           ELSE /\ tables' = [tables EXCEPT ![next_file_number] = Range(records)]
                /\ recovered' = recovered \cup {next_file_number}
                /\ save_manifest' = TRUE
        /\ next_file_number' = Max({after, log + 1})
        /\ todo' = todo \ {log}
    BY <1>1 DEF RecoverLogFile
  <1>8. next_file_number \in 1..(MaxNumber + 1) /\ after \in 1..(MaxNumber + 1)
    BY <1>1, <1>7, Parameters DEF TypeOK
  <1>9. next_file_number' \in {after, log + 1} /\ after <= next_file_number' /\ log + 1 <= next_file_number'
    <2> DEFINE T == {after, log + 1}
    <2> HIDE DEF after
    <2>1. T \in SUBSET (0..(MaxNumber + 1)) /\ T # {} /\ MaxNumber + 1 \in Nat
      BY <1>4, <1>8, Parameters
    <2>2. Max(T) \in T /\ \A y \in T : Max(T) >= y
      BY <2>1, MaxIsGreatest
    <2> QED
      BY <1>4, <1>7, <1>8, <2>2
  <1>10. records # <<>> => next_file_number \in Numbers
    BY <1>7, <1>8, Parameters
  <1>11. next_file_number' \in 1..(MaxNumber + 1)
    BY <1>4, <1>8, <1>9, Parameters
  <1>12. next_file_number <= next_file_number'
    BY <1>4, <1>8, <1>9, Parameters
  <1>13. InLog(log) = Range(records)
    BY DEF InLog
  <1> QED
    BY <1>2, <1>3, <1>4, <1>5, <1>6, <1>7, <1>9, <1>10, <1>11, <1>12, <1>13

LEMMA SavingTypes ==
    ASSUME RInv, RecoverLogFile \/ SaveManifest \/ SetCurrentFile \/ FinishOpen
    PROVE  TypeOK'
  <1> USE DEF historyVars, diskVars
  <1>1. TypeOK /\ QuietInv
    BY DEF RInv
  <1>2. CASE RecoverLogFile
    <2> DEFINE log == Min(todo)
    <2>1. InLog(log) \in SUBSET Records
      BY <1>1, <1>2, NextLog, LogFacts
    <2>2. TableTypes'
      <3>1. CASE logs[log].records = <<>>
        BY <1>1, <1>2, <3>1, NextLog, PartsUnchanged
      <3>2. CASE logs[log].records # <<>>
        <4>1. next_file_number \in Numbers /\ tables' = [tables EXCEPT ![next_file_number] = InLog(log)]
          BY <1>2, <3>2, NextLog
        <4> QED
          BY <1>1, <2>1, <4>1, WriteTable DEF TableTypes
      <3> QED
        BY <3>1, <3>2
    <2>3. LogTypes' /\ ManifestTypes' /\ HistoryTypes'
      BY <1>1, <1>2, PartsUnchanged DEF RecoverLogFile
    <2>4. /\ recovered' \subseteq Numbers /\ save_manifest' \in BOOLEAN /\ todo' \subseteq Numbers
          /\ last_sequence' \in 0..MaxWrites /\ next_file_number' \in 1..(MaxNumber + 1)
          /\ UNCHANGED <<mem, logfile_number>>
      <3>1. /\ recovered \subseteq Numbers /\ save_manifest \in BOOLEAN /\ todo \subseteq Numbers
        BY <1>1 DEF TypeOK
      <3>2. /\ todo' = todo \ {log} /\ UNCHANGED <<mem, logfile_number>>
            /\ last_sequence' \in 0..MaxWrites /\ next_file_number' \in 1..(MaxNumber + 1)
        BY <1>2, NextLog
      <3>3. \/ UNCHANGED <<recovered, save_manifest>>
            \/ /\ next_file_number \in Numbers /\ save_manifest' = TRUE
               /\ recovered' = recovered \cup {next_file_number}
        <4>1. CASE logs[log].records = <<>>
          BY <1>2, <4>1, NextLog
        <4>2. CASE logs[log].records # <<>>
          BY <1>2, <4>2, NextLog
        <4> QED
          BY <4>1, <4>2
      <3> QED
        BY <3>1, <3>2, <3>3
    <2>5. MemoryTypes'
      BY <1>1, <1>2, <2>4 DEF RecoverLogFile, MemoryTypes, TypeOK, workVars
    <2> QED
      BY <2>2, <2>3, <2>5, NextTypes
  <1>3. CASE SaveManifest
    <2>1. /\ manifest_file_number \in Numbers /\ phase = "save" /\ ~reuse
          /\ live \in SUBSET Numbers /\ recovered \in SUBSET Numbers /\ logfile_number \in 0..MaxNumber
      BY <1>1, <1>3, InUse DEF SaveManifest, QuietInv, TypeOK
    <2> DEFINE e == Edit(logfile_number, recovered, {})
               f == [records |-> <<Snapshot, e>>, synced |-> 0]
    <2>2. e \in Edits
      BY <2>1, EditTypes
    <2>3. edit' = [by |-> "open", edit |-> e] /\ edit' \in PendingEdits
      BY <1>3, <2>2 DEF SaveManifest, PendingEdits
    <2>4. Snapshot \in Edits
      BY <2>1, Parameters DEF Snapshot, Edits
    <2> HIDE DEF e
    <2>5. f \in ManifestFiles /\ f.synced <= Len(f.records)
      BY <2>2, <2>4 DEF ManifestFiles
    <2>6. manifests' = [manifests EXCEPT ![manifest_file_number] = f]
      BY <1>3, <2>1 DEF SaveManifest, e
    <2> HIDE DEF f
    <2>7. ManifestTypes'
      <3>1. /\ manifests' \in [Numbers -> {NoFile} \cup ManifestFiles]
            /\ Manifests' = Manifests \cup {manifest_file_number}
            /\ manifests'[manifest_file_number] = f
            /\ \A m \in Numbers \ {manifest_file_number} : manifests'[m] = manifests[m]
        BY <1>1, <2>1, <2>5, <2>6, NewManifest
      <3> QED
        BY <1>1, <1>3, <2>5, <3>1 DEF ManifestTypes, TypeOK, Manifests, SaveManifest
    <2>8. LogTypes' /\ TableTypes' /\ HistoryTypes'
      BY <1>1, <1>3, PartsUnchanged DEF SaveManifest
    <2>9. MemoryTypes'
      BY <1>1, <1>3, <2>3 DEF SaveManifest, MemoryTypes, TypeOK, versionVars, writeVars, openVars
    <2> QED
      BY <2>7, <2>8, <2>9, NextTypes
  <1>4. CASE SetCurrentFile
    <2>1. manifest_file_number \in Manifests /\ SyncManifest
      BY <1>4, InUse DEF SetCurrentFile
    <2>2. ManifestTypes'
      <3>1. /\ manifests' \in [Numbers -> {NoFile} \cup ManifestFiles] /\ Manifests' = Manifests
            /\ \A m \in Numbers \ {manifest_file_number} : manifests'[m] = manifests[m]
            /\ \A m \in Manifests : manifests'[m].records = manifests[m].records
            /\ manifests'[manifest_file_number].synced =
                  Len(manifests[manifest_file_number].records)
        BY <1>1, <2>1, SyncTheManifest
      <3>2. Len(manifests[manifest_file_number].records) \in Nat
        BY <1>1, <2>1, ManifestFacts
      <3> QED
        <4>1. current' \in Manifests'
          BY <1>4, <2>1, <3>1 DEF SetCurrentFile
        <4>2. \A m \in Manifests : manifests[m].synced <= Len(manifests[m].records)
          BY <1>1 DEF TypeOK
        <4>3. \A m \in Manifests : manifests'[m].synced <= Len(manifests'[m].records)
          BY <3>1, <3>2, <4>2 DEF Manifests
        <4> QED
          BY <3>1, <4>1, <4>3 DEF ManifestTypes
    <2>3. LogTypes' /\ TableTypes' /\ HistoryTypes'
      BY <1>1, <1>4, PartsUnchanged DEF SetCurrentFile
    <2>4. MemoryTypes'
      BY <1>1, <1>4
         DEF SetCurrentFile, MemoryTypes, TypeOK, versionVars, writeVars, workVars, openVars
    <2> QED
      BY <2>2, <2>3, <2>4, NextTypes
  <1>5. CASE FinishOpen
    <2>1. /\ manifest_file_number \in Manifests /\ edit # Nothing /\ edit \in PendingEdits
          /\ InstallVersion(edit.edit) /\ compaction = Nothing
      BY <1>5, InUse DEF FinishOpen, RInv, OpeningInv, QuietInv
    <2>2. ManifestTypes'
      BY <1>1, <1>5, <2>1, InstallTypes DEF ManifestTypes, FinishOpen, TypeOK
    <2>3. LogTypes' /\ TableTypes'
      BY <1>1, <1>5, PartsUnchanged DEF FinishOpen
    <2>4. HistoryTypes'
      BY <1>1, <1>5, <2>1, InstallTypes DEF FinishOpen, HistoryTypes, TypeOK
    <2>5. obsolete' \in [logs : SUBSET Numbers, tables : SUBSET Numbers, manifests : SUBSET Numbers]
      BY <1>5, ObsoleteTypes DEF FinishOpen
    <2>6. live' \subseteq Numbers /\ log_number' \in 0..MaxNumber /\ edit' = Nothing
      BY <2>1, InstallTypes
    <2>7. MemoryTypes'
      BY <1>1, <1>5, <2>1, <2>5, <2>6 DEF FinishOpen, MemoryTypes, TypeOK, writeVars, openVars
    <2> QED
      BY <2>2, <2>3, <2>4, <2>7, NextTypes
  <1> QED
    BY <1>2, <1>3, <1>4, <1>5

LEMMA TypeStep ==
    ASSUME RInv, [Next]_vars, ReuseLogs = {FALSE}
    PROVE  TypeOK'
  <1>1. CASE Next
    BY <1>1, WriteTypes, FlushTypes, CompactionTypes, RemovalTypes, OpeningTypes, SavingTypes,
       CrashTypes DEF Next, RInv
  <1>2. CASE UNCHANGED vars
    <2>1. TypeOK /\ MemoryTypes
      BY TypeParts DEF RInv
    <2>2. LogTypes' /\ ManifestTypes' /\ TableTypes' /\ HistoryTypes'
      BY <1>2, <2>1, PartsUnchanged DEF vars, diskVars
    <2>3. MemoryTypes'
      BY <1>2, <2>1
         DEF vars, diskVars, versionVars, writeVars, workVars, openVars, MemoryTypes
    <2> QED
      BY <2>2, <2>3, NextTypes
  <1> QED
    BY <1>1, <1>2

-----------------------------------------------------------------------------
(* Versions, and what they hold.                                           *)

LEMMA VersionsAgree ==
    ASSUME NEW s, NEW t, NEW k \in Nat, \A i \in 1..k : s[i] = t[i]
    PROVE  VersionAfter(s, k) = VersionAfter(t, k)
  <1>1. \A i \in 1..k : \A j \in (i + 1)..k : j \in 1..k
    OBVIOUS
  <1> QED
    BY <1>1 DEF VersionAfter

LEMMA NextVersion ==
    ASSUME NEW s, NEW k \in Nat, s[k + 1] \in Edits
    PROVE  VersionAfter(s, k + 1) = SaveTo(VersionAfter(s, k), s[k + 1])
  <1>1. s[k + 1].added \subseteq Numbers
    BY Fields
  <1>2. ASSUME NEW n \in VersionAfter(s, k + 1)
        PROVE  n \in SaveTo(VersionAfter(s, k), s[k + 1])
    <2>1. PICK i \in 1..(k + 1) :
             n \in s[i].added /\ \A j \in (i + 1)..(k + 1) : n \notin s[j].removed
      BY <1>2 DEF VersionAfter
    <2>2. CASE i = k + 1
      BY <2>1, <2>2 DEF SaveTo
    <2>3. CASE i # k + 1
      <3>1. i \in 1..k /\ k + 1 \in (i + 1)..(k + 1)
        BY <2>3
      <3>2. n \in VersionAfter(s, k)
        BY <1>2, <2>1, <3>1 DEF VersionAfter
      <3> QED
        BY <2>1, <3>1, <3>2 DEF SaveTo
    <2> QED
      BY <2>2, <2>3
  <1>3. ASSUME NEW n \in SaveTo(VersionAfter(s, k), s[k + 1])
        PROVE  n \in VersionAfter(s, k + 1)
    <2>1. CASE n \in s[k + 1].added
      <3>1. k + 1 \in 1..(k + 1) /\ (k + 1 + 1)..(k + 1) = {}
        OBVIOUS
      <3> QED
        BY <1>1, <2>1, <3>1 DEF VersionAfter
    <2>2. CASE n \in VersionAfter(s, k) /\ n \notin s[k + 1].removed
      <3>1. PICK i \in 1..k : n \in s[i].added /\ \A j \in (i + 1)..k : n \notin s[j].removed
        BY <2>2 DEF VersionAfter
      <3>2. i \in 1..(k + 1) /\ \A j \in (i + 1)..(k + 1) : j \in (i + 1)..k \/ j = k + 1
        BY <3>1
      <3> QED
        BY <2>2, <3>1, <3>2 DEF VersionAfter
    <2> QED
      BY <1>3, <2>1, <2>2 DEF SaveTo
  <1> QED
    BY <1>2, <1>3

LEMMA FewerRecords ==
    ASSUME NEW S, NEW T, T \subseteq S
    PROVE  /\ DistinctSequences(S) => DistinctSequences(T)
           /\ IdsOf(T) \subseteq IdsOf(S)
  BY DEF DistinctSequences, IdsOf

\* The edits of the MANIFEST in use.
LEMMA EditsFacts ==
    ASSUME RInv, current # NoFile
    PROVE  /\ current \in Manifests /\ current \in Numbers
           /\ CurrentEdits \in Seq(Edits)
           /\ Len(CurrentEdits) \in Nat /\ Len(CurrentEdits) \in LastEdits
           /\ manifests[current].synced \in 1..Len(CurrentEdits)
           /\ \A k \in LastEdits : /\ k \in 1..Len(CurrentEdits) /\ CurrentEdits[k] \in Edits
                                   /\ Recoverable(k) /\ VersionAt(k) \subseteq Numbers
  <1>1. TypeOK /\ DiskInv
    BY DEF RInv
  <1>2. current \in Manifests /\ manifests[current].synced >= 1
    BY <1>1 DEF TypeOK, DiskInv
  <1>3. /\ CurrentEdits \in Seq(Edits) /\ Len(CurrentEdits) \in Nat
        /\ manifests[current].synced \in 0..Len(CurrentEdits)
        /\ \A i \in 1..Len(CurrentEdits) : CurrentEdits[i] \in Edits /\ current \in Numbers
    BY <1>1, <1>2, ManifestFacts DEF CurrentEdits
  <1>4. /\ manifests[current].synced \in 1..Len(CurrentEdits)
        /\ Len(CurrentEdits) \in LastEdits
        /\ \A k \in LastEdits : k \in 1..Len(CurrentEdits)
    BY <1>2, <1>3 DEF LastEdits
  <1>5. \A k \in LastEdits : Recoverable(k) /\ VersionAt(k) \subseteq Numbers
    BY <1>1 DEF DiskInv, VersionAt, VersionAfter
  <1> QED
    BY <1>1, <1>2, <1>3, <1>4, <1>5, ManifestFacts

LEMMA SameVersions ==
    ASSUME UNCHANGED current, manifests'[current] = manifests[current]
    PROVE  /\ CurrentEdits' = CurrentEdits /\ LastEdits' = LastEdits
           /\ \A k : VersionAt(k)' = VersionAt(k)
  BY DEF CurrentEdits, LastEdits, VersionAt

LEMMA AppendedVersions ==
    ASSUME RInv, current # NoFile, NEW e \in Edits, NEW L, L = Len(CurrentEdits),
           UNCHANGED current,
           manifests' = [manifests EXCEPT ![current].records = Append(@, e)]
    PROVE  /\ Len(CurrentEdits)' = L + 1 /\ CurrentEdits'[L + 1] = e
           /\ manifests'[current].synced = manifests[current].synced
           /\ LastEdits' = LastEdits \cup {L + 1}
           /\ \A k \in 1..L : CurrentEdits'[k] = CurrentEdits[k] /\ VersionAt(k)' = VersionAt(k)
           /\ VersionAt(L + 1)' = SaveTo(VersionAt(L), e)
  <1>1. /\ current \in Manifests /\ CurrentEdits \in Seq(Edits) /\ L \in Nat
        /\ manifests[current].synced \in 1..L
    BY EditsFacts
  <1>2. /\ manifests'[current].records = Append(CurrentEdits, e)
        /\ manifests'[current].synced = manifests[current].synced
    BY <1>1, AppendToManifest DEF RInv, CurrentEdits
  <1>3. CurrentEdits' = Append(CurrentEdits, e)
    BY <1>2 DEF CurrentEdits
  <1>4. /\ Len(CurrentEdits)' = L + 1 /\ CurrentEdits'[L + 1] = e
        /\ \A k \in 1..L : CurrentEdits'[k] = CurrentEdits[k]
    BY <1>1, <1>3, MembersOfAppend
  <1>5. LastEdits' = LastEdits \cup {L + 1}
    BY <1>1, <1>2, <1>4 DEF LastEdits
  <1>6. ASSUME NEW k \in 1..L
        PROVE  VersionAt(k)' = VersionAt(k)
    <2>1. k \in Nat /\ \A i \in 1..k : CurrentEdits'[i] = CurrentEdits[i]
      BY <1>1, <1>4
    <2>2. VersionAfter(CurrentEdits', k) = VersionAfter(CurrentEdits, k)
      BY <2>1, VersionsAgree
    <2> QED
      BY <2>2 DEF VersionAt
  <1>7. VersionAt(L + 1)' = SaveTo(VersionAt(L), e)
    <2>1. VersionAfter(CurrentEdits', L + 1) = SaveTo(VersionAfter(CurrentEdits', L), e)
      BY <1>1, <1>4, NextVersion
    <2>2. VersionAfter(CurrentEdits', L) = VersionAfter(CurrentEdits, L)
      BY <1>1, <1>4, VersionsAgree
    <2> QED
      BY <2>1, <2>2 DEF VersionAt
  <1> QED
    BY <1>2, <1>4, <1>5, <1>6, <1>7

\* What LogAndApply writes is synced: no crash loses it any more.
LEMMA SyncedVersions ==
    ASSUME RInv, current # NoFile, UNCHANGED current, current = manifest_file_number, SyncManifest
    PROVE  /\ CurrentEdits' = CurrentEdits /\ LastEdits' = {Len(CurrentEdits)}
           /\ \A k : VersionAt(k)' = VersionAt(k)
           /\ manifests'[current].synced = Len(CurrentEdits)
  <1>1. current \in Manifests /\ Len(CurrentEdits) \in Nat
    BY EditsFacts
  <1>2. /\ manifests'[current].records = manifests[current].records
        /\ manifests'[current].synced = Len(CurrentEdits)
    BY <1>1, SyncTheManifest DEF RInv, CurrentEdits
  <1>3. CurrentEdits' = CurrentEdits
    BY <1>2 DEF CurrentEdits
  <1>4. LastEdits' = {Len(CurrentEdits)}
    BY <1>1, <1>2, <1>3 DEF LastEdits
  <1> QED
    BY <1>2, <1>3, <1>4 DEF VersionAt

LEMMA SameTables ==
    ASSUME NEW files, \A n \in files : tables'[n] = tables[n]
    PROVE  InTable(files)' = InTable(files) /\ \A n \in files : Complete(n)' = Complete(n)
  BY DEF InTable, Complete

\* The MANIFEST in use and the tables it names stay; the logs still hold
\* what they must.
LEMMA DiskStep ==
    ASSUME RInv, current # NoFile, UNCHANGED current, manifests'[current] = manifests[current],
           \A k \in LastEdits : \A n \in VersionAt(k) : tables'[n] = tables[n],
           \A k \in LastEdits : /\ (promised \subseteq IdsOf(Found(k)))'
                                /\ (firm \subseteq IdsOf(FoundSynced(k)))'
                                /\ DistinctSequences(Found(k))'
    PROVE  DiskInv'
  <1>1. /\ CurrentEdits' = CurrentEdits /\ LastEdits' = LastEdits
        /\ \A k : VersionAt(k)' = VersionAt(k)
    BY SameVersions
  <1>2. manifests'[current].synced >= 1
    BY EditsFacts
  <1>3. ASSUME NEW k \in LastEdits
        PROVE  Recoverable(k)'
    <2>1. Recoverable(k)
      BY EditsFacts
    <2>2. /\ InTable(VersionAt(k))' = InTable(VersionAt(k))
          /\ \A n \in VersionAt(k) : Complete(n)' = Complete(n)
      BY <1>1 DEF InTable, Complete
    <2> QED
      BY <1>1, <2>1, <2>2 DEF Recoverable
  <1> QED
    BY <1>1, <1>2, <1>3 DEF DiskInv

LEMMA DiskKept ==
    ASSUME RInv, UNCHANGED <<current, logs, promised, firm>>,
           current = NoFile => phase' = "down",
           current # NoFile => manifests'[current] = manifests[current],
           current # NoFile =>
              \A k \in LastEdits : \A n \in VersionAt(k) : tables'[n] = tables[n]
    PROVE  DiskInv'
  <1>1. CASE current = NoFile
    BY <1>1 DEF RInv, DiskInv, Logs
  <1>2. CASE current # NoFile
    <2>1. /\ CurrentEdits' = CurrentEdits /\ LastEdits' = LastEdits
          /\ \A k : VersionAt(k)' = VersionAt(k)
      BY <1>2, SameVersions
    <2>2. ASSUME NEW k \in LastEdits
          PROVE  Found(k)' = Found(k) /\ FoundSynced(k)' = FoundSynced(k) /\ Recoverable(k)
      <3>1. InTable(VersionAt(k))' = InTable(VersionAt(k))
        BY <1>2, <2>1 DEF InTable
      <3>2. /\ LogsToRecover(CurrentEdits[k].log)' = LogsToRecover(CurrentEdits[k].log)
            /\ \A n : InLog(n)' = InLog(n) /\ SyncedInLog(n)' = SyncedInLog(n)
        BY <2>1 DEF LogsToRecover, Logs, InLog, SyncedInLog
      <3> QED
        BY <1>2, <3>1, <3>2, EditsFacts DEF Found, FoundSynced, InLogs, SyncedInLogs
    <2>3. \A k \in LastEdits : /\ (promised \subseteq IdsOf(Found(k)))'
                               /\ (firm \subseteq IdsOf(FoundSynced(k)))'
                               /\ DistinctSequences(Found(k))'
      <3> TAKE k \in LastEdits
      <3>1. Found(k)' = Found(k) /\ FoundSynced(k)' = FoundSynced(k) /\ Recoverable(k)
        BY <2>2
      <3>2. /\ promised \subseteq IdsOf(Found(k)) /\ firm \subseteq IdsOf(FoundSynced(k))
            /\ DistinctSequences(Found(k))
        BY <3>1 DEF Recoverable
      <3> QED
        BY <3>1, <3>2 DEF IdsOf, DistinctSequences
    <2> QED
      BY <1>2, <2>3, DiskStep
  <1> QED
    BY <1>1, <1>2

-----------------------------------------------------------------------------
(* Crashes.                                                                *)

\* Without a process there is nothing in memory that could be wrong.
LEMMA DownStep ==
    ASSUME RInv, MemoryLost
    PROVE  QuietInv' /\ OpeningInv' /\ RunningInv' /\ FlushInv' /\ CompactionInv' /\ EditInv'
              /\ ObsoleteInv'
  <1>1. QuietInv' /\ OpeningInv' /\ RunningInv' /\ FlushInv' /\ CompactionInv' /\ EditInv'
    BY DEF MemoryLost, QuietInv, OpeningInv, RunningInv, FlushInv, CompactionInv, EditInv
  <1>2. ObsoleteInv'
    BY DEF MemoryLost, ObsoleteInv, NoObsolete
  <1> QED
    BY <1>1, <1>2

\* A crash of the machine leaves the beginning of every log and of every
\* MANIFEST, with all that was synced.
LEMMA MachineLeaves ==
    ASSUME RInv, MachineCrash
    PROVE  /\ current # NoFile /\ Logs' = Logs /\ Manifests' = Manifests
           /\ \A n \in Logs : /\ InLog(n)' \subseteq InLog(n) /\ SyncedInLog(n) \subseteq SyncedInLog(n)'
                              /\ SyncedInLog(n) \subseteq InLog(n)'
           /\ \A n \in Manifests : \A i \in 1..Len(manifests'[n].records) :
                 /\ i \in 1..Len(manifests[n].records)
                 /\ manifests'[n].records[i] = manifests[n].records[i]
           /\ \E k \in LastEdits :
                 /\ k \in Nat /\ k >= 1 /\ k \in 1..Len(CurrentEdits) /\ Recoverable(k)
                 /\ LastEdits' = {k} /\ Len(CurrentEdits)' = k /\ CurrentEdits'[k] = CurrentEdits[k]
                 /\ manifests'[current].synced = k /\ VersionAt(k)' = VersionAt(k)
  <1>1. TypeOK /\ DiskInv
    BY DEF RInv
  <1>2. TypeOK'
    BY <1>1, CrashTypes
  <1>3. phase # "down" /\ UNCHANGED <<current, tables>>
    BY DEF MachineCrash
  <1>4. current # NoFile
    BY <1>1, <1>3 DEF DiskInv
  <1>5. PICK left \in Kept(logs, Logs) : logs' = Truncate(logs, left)
    BY DEF MachineCrash
  <1>6. PICK kept \in Kept(manifests, Manifests) : manifests' = Truncate(manifests, kept)
    BY DEF MachineCrash
  <1>7. /\ Logs' = Logs
        /\ \A n \in Logs : /\ Len(logs'[n].records) = left[n] /\ logs'[n].synced = left[n]
                           /\ left[n] \in 0..Len(logs[n].records) /\ left[n] \in Nat
                           /\ logs[n].synced <= left[n]
                           /\ \A i \in 1..left[n] : logs'[n].records[i] = logs[n].records[i]
    BY <1>1, <1>5, TruncatedLogs
  <1>8. ASSUME NEW n \in Logs
        PROVE  /\ InLog(n)' \subseteq InLog(n) /\ SyncedInLog(n) \subseteq SyncedInLog(n)'
               /\ SyncedInLog(n) \subseteq InLog(n)'
    <2>1. /\ InLog(n) = {logs[n].records[i] : i \in 1..Len(logs[n].records)}
          /\ Len(logs[n].records) \in Nat /\ logs[n].synced \in 0..Len(logs[n].records)
      BY <1>1, LogFacts
    <2>2. InLog(n)' = {logs'[n].records[i] : i \in 1..left[n]}
      <3>1. n \in Logs' /\ TypeOK'
        BY <1>2, <1>7
      <3>2. logs'[n] \in LogFiles
        BY <3>1 DEF TypeOK, Logs
      <3>3. Range(logs'[n].records) = {logs'[n].records[i] : i \in 1..Len(logs'[n].records)}
        BY <3>2, Fields, MembersOfSeq
      <3> QED
        BY <1>7, <3>3 DEF InLog
    <2>3. SyncedInLog(n)' = {logs'[n].records[i] : i \in 1..left[n]}
      BY <1>7 DEF SyncedInLog
    <2>4. 1..logs[n].synced \subseteq 1..left[n] /\ 1..left[n] \subseteq 1..Len(logs[n].records)
      BY <1>7, <2>1
    <2>5. \A i \in 1..left[n] : logs'[n].records[i] = logs[n].records[i]
      BY <1>7
    <2>6. InLog(n)' \subseteq InLog(n)
      BY <2>1, <2>2, <2>4, <2>5
    <2>7. SyncedInLog(n) = {logs[n].records[i] : i \in 1..logs[n].synced}
      BY DEF SyncedInLog
    <2>8. SyncedInLog(n) \subseteq SyncedInLog(n)' /\ SyncedInLog(n) \subseteq InLog(n)'
      BY <2>2, <2>3, <2>4, <2>5, <2>7
    <2> QED
      BY <2>6, <2>8
  <1>9. /\ Manifests' = Manifests
        /\ \A n \in Manifests :
              /\ Len(manifests'[n].records) = kept[n] /\ manifests'[n].synced = kept[n]
              /\ kept[n] \in 0..Len(manifests[n].records) /\ kept[n] \in Nat
              /\ manifests[n].synced <= kept[n]
              /\ \A i \in 1..kept[n] : manifests'[n].records[i] = manifests[n].records[i]
    BY <1>1, <1>6, TruncatedManifests
  <1>10. PICK k : k = kept[current]
    OBVIOUS
  <1>11. k \in LastEdits /\ k \in Nat /\ k >= 1 /\ k \in 1..Len(CurrentEdits) /\ Recoverable(k)
    <2>1. current \in Manifests /\ manifests[current].synced \in 1..Len(CurrentEdits)
      BY <1>4, EditsFacts
    <2>2. k \in LastEdits
      BY <1>9, <1>10, <2>1 DEF LastEdits, CurrentEdits
    <2> QED
      BY <1>4, <1>9, <1>10, <2>1, <2>2, EditsFacts
  <1>12. /\ LastEdits' = {k} /\ Len(CurrentEdits)' = k
        /\ CurrentEdits'[k] = CurrentEdits[k] /\ manifests'[current].synced = k
        /\ VersionAfter(CurrentEdits', k) = VersionAfter(CurrentEdits, k)
    <2>1. current \in Manifests
      BY <1>4, EditsFacts
    <2>2. /\ Len(CurrentEdits)' = k /\ manifests'[current].synced = k
          /\ \A i \in 1..k : CurrentEdits'[i] = CurrentEdits[i]
      BY <1>3, <1>9, <1>10, <2>1 DEF CurrentEdits
    <2>3. LastEdits' = {k}
      BY <1>3, <1>11, <2>2 DEF LastEdits
    <2> QED
      BY <1>11, <2>2, <2>3, VersionsAgree
  <1>13. VersionAt(k)' = VersionAt(k)
    BY <1>12 DEF VersionAt
  <1>14. \A n \in Manifests : \A i \in 1..Len(manifests'[n].records) :
            /\ i \in 1..Len(manifests[n].records)
            /\ manifests'[n].records[i] = manifests[n].records[i]
    <2> TAKE n \in Manifests
    <2>1. Len(manifests[n].records) \in Nat
      BY <1>1, ManifestFacts
    <2>2. /\ Len(manifests'[n].records) = kept[n] /\ kept[n] \in 0..Len(manifests[n].records)
          /\ \A i \in 1..kept[n] : manifests'[n].records[i] = manifests[n].records[i]
      BY <1>9
    <2>3. \A i \in 1..kept[n] : i \in 1..Len(manifests[n].records)
      BY <2>1, <2>2
    <2> QED
      BY <2>2, <2>3
  <1> QED
    BY <1>4, <1>7, <1>8, <1>9, <1>11, <1>12, <1>13, <1>14

LEMMA CrashStep ==
    ASSUME RInv, ProcessCrash \/ MachineCrash
    PROVE  RInv'
  <1>1. TypeOK /\ BoundInv /\ DiskInv
    BY DEF RInv
  <1>2. TypeOK'
    BY <1>1, CrashTypes
  <1>3. /\ MemoryLost /\ phase # "down"
        /\ phase' = "down" /\ last_sequence' = 0 /\ writing' = Nothing /\ written' = written
        /\ written \in Nat /\ UNCHANGED <<current, tables>>
    BY <1>1, Parameters DEF ProcessCrash, MachineCrash, MemoryLost, diskVars, TypeOK
  <1>4. CASE ProcessCrash
    <2>1. UNCHANGED <<logs, tables, manifests, current, promised, firm>>
      BY <1>4 DEF ProcessCrash, diskVars
    <2>2. BoundInv'
      BY <1>1, <1>3, <2>1 DEF BoundInv, Logs, Manifests, InLog
    <2>3. DiskInv'
      BY <1>3, <2>1, DiskKept
    <2> QED
      BY <1>2, <1>3, <2>2, <2>3, DownStep DEF RInv
  <1>5. CASE MachineCrash
    <2>1. /\ current # NoFile /\ Logs' = Logs /\ Manifests' = Manifests
          /\ \A n \in Logs : /\ InLog(n)' \subseteq InLog(n) /\ SyncedInLog(n) \subseteq SyncedInLog(n)'
                             /\ SyncedInLog(n) \subseteq InLog(n)'
          /\ \A n \in Manifests : \A i \in 1..Len(manifests'[n].records) :
                /\ i \in 1..Len(manifests[n].records)
                /\ manifests'[n].records[i] = manifests[n].records[i]
      BY <1>5, MachineLeaves
    <2>2. PICK k \in LastEdits :
             /\ k \in Nat /\ k >= 1 /\ k \in 1..Len(CurrentEdits) /\ Recoverable(k)
             /\ LastEdits' = {k} /\ Len(CurrentEdits)' = k /\ CurrentEdits'[k] = CurrentEdits[k]
             /\ manifests'[current].synced = k /\ VersionAt(k)' = VersionAt(k)
      BY <1>5, MachineLeaves
    <2>3. BoundInv'
      <3>1. \A n \in Logs' : \A r \in InLog(n)' : r.seq <= written'
        BY <1>1, <1>3, <2>1 DEF BoundInv
      <3>2. \A n \in Manifests' : \A i \in 1..Len(manifests'[n].records) :
               manifests'[n].records[i].last <= written'
        BY <1>1, <1>3, <2>1 DEF BoundInv
      <3> QED
        BY <1>3, <3>1, <3>2 DEF BoundInv
    <2>4. Recoverable(k)'
      <3>1. PICK e : e = CurrentEdits[k]
        OBVIOUS
      <3>2. /\ InTable(VersionAt(k))' = InTable(VersionAt(k))
            /\ \A n \in VersionAt(k) : Complete(n)' = Complete(n)
        BY <1>3, <2>2 DEF InTable, Complete
      <3>3. LogsToRecover(e.log)' = LogsToRecover(e.log) /\ LogsToRecover(e.log) \subseteq Logs
        BY <2>1 DEF LogsToRecover
      <3>4. /\ Found(k)' \subseteq Found(k) /\ FoundSynced(k) \subseteq FoundSynced(k)'
            /\ FoundSynced(k) \subseteq Found(k)'
        <4> DEFINE F == LogsToRecover(e.log)
        <4>1. /\ UNION {InLog(n)' : n \in F} \subseteq InLogs(F)
              /\ SyncedInLogs(F) \subseteq UNION {InLog(n)' : n \in F}
              /\ SyncedInLogs(F) \subseteq UNION {SyncedInLog(n)' : n \in F}
          BY <2>1, <3>3 DEF InLogs, SyncedInLogs
        <4>2. /\ Found(k)' = InTable(VersionAt(k)) \cup UNION {InLog(n)' : n \in F}
              /\ FoundSynced(k)' = InTable(VersionAt(k)) \cup UNION {SyncedInLog(n)' : n \in F}
          BY <2>2, <3>2, <3>3, <3>1 DEF Found, FoundSynced, InLogs, SyncedInLogs
        <4>3. /\ Found(k) = InTable(VersionAt(k)) \cup InLogs(F)
              /\ FoundSynced(k) = InTable(VersionAt(k)) \cup SyncedInLogs(F)
          BY <3>1 DEF Found, FoundSynced
        <4> QED
          BY <4>1, <4>2, <4>3
      <3>5. /\ firm \subseteq IdsOf(Found(k)') /\ firm \subseteq IdsOf(FoundSynced(k)')
            /\ DistinctSequences(Found(k)')
        BY <2>2, <3>4, FewerRecords DEF Recoverable, IdsOf
      <3>6. promised' = firm /\ firm' = firm
        BY <1>5 DEF MachineCrash
      <3>7. /\ (promised \subseteq IdsOf(Found(k)))' /\ (firm \subseteq IdsOf(FoundSynced(k)))'
            /\ DistinctSequences(Found(k))'
        BY <3>5, <3>6 DEF IdsOf, DistinctSequences
      <3>8. /\ \A n \in VersionAt(k) : Complete(n) /\ n < e.next
            /\ e.log < e.next /\ current < e.next
            /\ \A r \in InTable(VersionAt(k)) : r.seq <= e.last
            /\ e.next \in Nat
        <4>1. e \in Edits
          BY <2>1, <2>2, <3>1, EditsFacts
        <4> QED
          BY <2>2, <3>1, <4>1, Fields, Parameters DEF Recoverable
      <3>9. CurrentEdits'[k] = e /\ \A j \in k..Len(CurrentEdits)' : CurrentEdits'[j] = e
        BY <2>2, <3>1
      <3> QED
        BY <1>3, <2>2, <3>2, <3>7, <3>8, <3>9 DEF Recoverable
    <2>5. DiskInv'
      <3>1. current' # NoFile /\ manifests'[current'].synced >= 1
        BY <1>3, <2>1, <2>2
      <3>2. \A i \in LastEdits' : Recoverable(i)'
        BY <2>2, <2>4
      <3> QED
        BY <3>1, <3>2 DEF DiskInv
    <2> QED
      BY <1>2, <1>3, <2>3, <2>5, DownStep DEF RInv
  <1> QED
    BY <1>4, <1>5

-----------------------------------------------------------------------------
(* Writes.                                                                 *)

\* What a reader sees or will see, and what a crash would find of it.
LEMMA SeenFacts ==
    ASSUME RInv, phase \in {"clean", "open"}
    PROVE  /\ Seen \subseteq Records /\ Visible \subseteq Records /\ DistinctSequences(Seen)
           /\ current \in Manifests /\ current # NoFile /\ logfile_number \in Logs
           /\ next_file_number \in Nat /\ last_sequence \in Nat /\ logfile_number \in Nat
           /\ log_number \in Nat /\ next_file_number \notin Logs
           /\ \A k \in LastEdits :
                 /\ Found(k) \subseteq Seen
                 /\ CurrentEdits[k].log \in Nat /\ CurrentEdits[k].next \in Nat
                 /\ logfile_number \in LogsToRecover(CurrentEdits[k].log)
                 /\ \A n \in LogsToRecover(CurrentEdits[k].log) : n \in Logs /\ n >= log_number
                 /\ next_file_number \notin VersionAt(k)
           /\ next_file_number \notin live
  <1>1. TypeOK /\ RunningInv
    BY DEF RInv
  <1>2. /\ current # NoFile /\ current \in Manifests /\ logfile_number \in Logs
        /\ logfile_number \in Numbers /\ next_file_number \in Nat /\ last_sequence \in Nat
        /\ logfile_number \in Nat /\ log_number \in Nat
    BY <1>1, Parameters DEF RunningInv, TypeOK, Logs
  <1>3. Seen \subseteq Records /\ Visible \subseteq Records
    <2>1. Range(mem) \subseteq Records /\ Range(imm) \subseteq Records
      BY <1>1, MembersOfSeq DEF TypeOK
    <2>2. \A n \in live : tables[n] \subseteq Records
      BY <1>1, TableFacts DEF RunningInv, TypeOK
    <2>3. writing # Nothing => writing.record \in Records
      BY InUse, Fields
    <2> QED
      BY <2>1, <2>2, <2>3 DEF Seen, Visible
  <1>4. \A r \in Visible : r.seq \in Nat /\ r.seq <= last_sequence
    BY <1>1, <1>3, Fields, Parameters DEF RunningInv
  <1>5. DistinctSequences(Seen)
    <2>1. DistinctSequences(Visible) /\ (writing # Nothing => writing.record.seq = last_sequence + 1)
      BY <1>1 DEF RunningInv
    <2> QED
      BY <1>1, <1>2, <1>4, <2>1 DEF DistinctSequences, Seen, RunningInv
  <1>6. ASSUME NEW k \in LastEdits
        PROVE  /\ Found(k) \subseteq Seen
               /\ CurrentEdits[k].log \in Nat /\ CurrentEdits[k].next \in Nat
               /\ logfile_number \in LogsToRecover(CurrentEdits[k].log)
               /\ \A n \in LogsToRecover(CurrentEdits[k].log) : n \in Logs /\ n >= log_number
               /\ next_file_number \notin VersionAt(k)
    <2>1. /\ CurrentEdits[k] \in Edits /\ Recoverable(k) /\ VersionAt(k) \subseteq Numbers
      BY <1>2, EditsFacts
    <2>2. /\ CurrentEdits[k].log \in Nat /\ CurrentEdits[k].next \in Nat
      BY <2>1, Fields, Parameters
    <2>3. /\ log_number <= CurrentEdits[k].log /\ CurrentEdits[k].log <= logfile_number
          /\ CurrentEdits[k].next <= next_file_number
          /\ InTable(VersionAt(k)) \subseteq Visible
          /\ \A n \in Logs : n >= log_number => InLog(n) \subseteq Seen
      BY <1>1 DEF RunningInv
    <2>4. /\ logfile_number \in LogsToRecover(CurrentEdits[k].log)
          /\ \A n \in LogsToRecover(CurrentEdits[k].log) : n \in Logs /\ n >= log_number
      <3>1. log_number \in Nat /\ logfile_number \in Logs /\ \A n \in Logs : n \in Nat
        BY <1>2, Parameters DEF Logs
      <3>2. \A n \in Logs : n >= CurrentEdits[k].log => n >= log_number
        BY <2>2, <2>3, <3>1
      <3>3. logfile_number >= CurrentEdits[k].log
        BY <2>2, <2>3, <3>1
      <3> QED
        BY <3>1, <3>2, <3>3 DEF LogsToRecover
    <2>5. Found(k) \subseteq Seen
      BY <2>3, <2>4 DEF Found, Seen, InLogs
    <2>6. next_file_number \notin VersionAt(k)
      <3>1. \A n \in VersionAt(k) : n < CurrentEdits[k].next /\ n \in Nat
        BY <2>1, Parameters DEF Recoverable
      <3> QED
        BY <1>2, <2>2, <2>3, <3>1
    <2> QED
      BY <2>2, <2>4, <2>5, <2>6
  <1>7. next_file_number \notin live /\ next_file_number \notin Logs
    <2>1. /\ \A n \in live : n < next_file_number /\ n \in Nat
          /\ logfile_number < next_file_number
          /\ \A n \in Logs : n <= logfile_number /\ n \in Nat
      BY <1>1, Parameters DEF RunningInv, TypeOK, Logs
    <2> QED
      BY <1>2, <2>1
  <1> QED
    BY <1>2, <1>3, <1>5, <1>6, <1>7

\* What is not about the files stays as it is.
LEMMA WorkKept ==
    ASSUME RInv, UNCHANGED <<tables, manifests, current, phase, imm, has_imm, logfile_number,
                             versionVars, workVars>>
    PROVE  FlushInv' /\ CompactionInv' /\ EditInv' /\ ObsoleteInv'
  <1>1. FlushInv /\ CompactionInv /\ EditInv /\ ObsoleteInv
    BY DEF RInv
  <1>2. /\ CurrentEdits' = CurrentEdits /\ LastEdits' = LastEdits
        /\ \A k : VersionAt(k)' = VersionAt(k)
    BY SameVersions
  <1>3. UNCHANGED <<log_number, next_file_number, last_sequence, manifest_file_number, live,
                    pending_outputs, obsolete, edit, flushing, compaction, bg_error>>
    BY DEF versionVars, workVars
  <1>4. FlushInv'
    BY <1>1, <1>2, <1>3 DEF FlushInv, Tables
  <1>5. CompactionInv'
    BY <1>1, <1>2, <1>3 DEF CompactionInv, Tables
  <1>6. EditInv'
    BY <1>1, <1>2, <1>3 DEF EditInv, InTable
  <1>7. ObsoleteInv'
    BY <1>1, <1>3 DEF ObsoleteInv
  <1> QED
    BY <1>4, <1>5, <1>6, <1>7

LEMMA AddRecordStep ==
    ASSUME RInv, NEW sync \in BOOLEAN, AddRecord(sync)
    PROVE  BoundInv' /\ DiskInv' /\ QuietInv' /\ OpeningInv' /\ RunningInv'
              /\ FlushInv' /\ CompactionInv' /\ EditInv' /\ ObsoleteInv'
  <1> DEFINE record == [id |-> written + 1, seq |-> last_sequence + 1]
  <1>1. TypeOK /\ BoundInv /\ QuietInv /\ RunningInv
    BY DEF RInv
  <1>2. /\ phase = "open" /\ writing = Nothing /\ ~bg_error /\ written < MaxWrites
        /\ written' = written + 1
        /\ writing' = [record |-> record, sync |-> sync]
        /\ logs' = [logs EXCEPT ![logfile_number].records = Append(@, record)]
        /\ UNCHANGED <<tables, manifests, current, phase, versionVars, mem, imm, has_imm,
                       logfile_number, workVars, openVars, promised, firm>>
    BY DEF AddRecord
  <1>3. /\ UNCHANGED <<log_number, next_file_number, last_sequence, manifest_file_number, live,
                       pending_outputs, obsolete, edit, flushing, compaction, bg_error>>
        /\ UNCHANGED <<todo, recovered, save_manifest, reuse>>
    BY <1>2 DEF versionVars, workVars, openVars
  <1>4. /\ written \in Nat /\ last_sequence \in Nat /\ last_sequence <= written
        /\ record \in Records /\ record.seq = last_sequence + 1 /\ record.id = written + 1
    <2>1. /\ written \in 0..MaxWrites /\ last_sequence \in 0..MaxWrites
          /\ last_sequence <= written /\ written < MaxWrites
      BY <1>1, <1>2 DEF BoundInv, TypeOK
    <2>2. written + 1 \in 1..MaxWrites /\ last_sequence + 1 \in 1..MaxWrites
      BY <2>1, Parameters
    <2>3. record \in Records
      BY <2>2, Parameters DEF Records
    <2> QED
      BY <2>1, <2>3, Parameters
  <1>5. writing' # Nothing /\ writing'.record = record
    <2>1. writing' \in PendingWrites
      BY <1>2, <1>4 DEF PendingWrites
    <2> QED
      BY <1>2, <2>1, Fields
  <1> HIDE DEF record
  <1>6. PICK l \in Logs : l = logfile_number /\ current # NoFile
    BY <1>2, SeenFacts
  <1>7. /\ Logs' = Logs /\ \A m \in Numbers \ {l} : logs'[m] = logs[m]
        /\ InLog(l)' = InLog(l) \cup {record} /\ SyncedInLog(l)' = SyncedInLog(l)
    BY <1>1, <1>2, <1>4, <1>6, AppendToLog
  <1>8. \A n \in Logs \ {l} : InLog(n)' = InLog(n) /\ SyncedInLog(n)' = SyncedInLog(n)
    BY <1>7 DEF InLog, SyncedInLog, Logs
  <1>9. BoundInv'
    <2>1. \A n \in Logs : \A r \in InLog(n) : r \in Records /\ r.seq \in Nat /\ r.seq <= written
      BY <1>1, LogFacts, Fields, Parameters DEF BoundInv
    <2>2. \A n \in Logs' : \A r \in InLog(n)' : r.seq <= written'
      BY <1>2, <1>4, <1>7, <1>8, <2>1
    <2>3. \A n \in Manifests : \A i \in 1..Len(manifests[n].records) :
             manifests[n].records[i].last \in Nat /\ manifests[n].records[i].last <= written
      BY <1>1, ManifestFacts, Fields, Parameters DEF BoundInv
    <2>4. \A n \in Manifests' : \A i \in 1..Len(manifests'[n].records) :
             manifests'[n].records[i].last <= written'
      <3>1. Manifests' = Manifests /\ manifests' = manifests
        BY <1>2 DEF Manifests
      <3>2. written \in Nat /\ written <= written'
        BY <1>2, <1>4
      <3> QED
        BY <1>2, <1>4, <2>3, <3>1, <3>2
    <2> QED
      BY <1>2, <1>3, <1>4, <1>5, <2>2, <2>4 DEF BoundInv
  <1>10. /\ CurrentEdits' = CurrentEdits /\ LastEdits' = LastEdits
         /\ \A k : VersionAt(k)' = VersionAt(k)
    BY <1>2, SameVersions
  <1>11. DiskInv'
    <2>1. ASSUME NEW k \in LastEdits
          PROVE  /\ Found(k)' = Found(k) \cup {record} /\ FoundSynced(k)' = FoundSynced(k)
                 /\ Found(k) \subseteq Visible
      <3> DEFINE F == LogsToRecover(CurrentEdits[k].log)
      <3>1. l \in F /\ F \subseteq Logs /\ Found(k) \subseteq Seen
        BY <1>2, <1>6, SeenFacts
      <3>2. F' = F
        BY <1>7, <1>10 DEF LogsToRecover
      <3> HIDE DEF F
      <3>3. /\ UNION {InLog(n)' : n \in F} = InLogs(F) \cup {record}
            /\ UNION {SyncedInLog(n)' : n \in F} = SyncedInLogs(F)
        <4>1. \A n \in F : /\ n # l => InLog(n)' = InLog(n)
                           /\ n = l => InLog(n)' = InLog(n) \cup {record}
                           /\ SyncedInLog(n)' = SyncedInLog(n)
          BY <1>7, <1>8, <3>1
        <4>2. UNION {InLog(n)' : n \in F} = (UNION {InLog(n) : n \in F}) \cup {record}
          BY <3>1, <4>1
        <4>3. UNION {SyncedInLog(n)' : n \in F} = UNION {SyncedInLog(n) : n \in F}
          BY <4>1
        <4> QED
          BY <4>2, <4>3 DEF InLogs, SyncedInLogs
      <3>4. InLogs(F)' = InLogs(F) \cup {record} /\ SyncedInLogs(F)' = SyncedInLogs(F)
        BY <3>2, <3>3 DEF InLogs, SyncedInLogs
      <3>5. InTable(VersionAt(k))' = InTable(VersionAt(k))
        BY <1>2, <1>10 DEF InTable
      <3> QED
        BY <1>2, <3>1, <3>4, <3>5 DEF Found, FoundSynced, F, Seen
    <2>2. \A k \in LastEdits : /\ (promised \subseteq IdsOf(Found(k)))'
                               /\ (firm \subseteq IdsOf(FoundSynced(k)))'
                               /\ DistinctSequences(Found(k))'
      <3> TAKE k \in LastEdits
      <3>1. /\ promised \subseteq IdsOf(Found(k)) /\ firm \subseteq IdsOf(FoundSynced(k))
            /\ DistinctSequences(Found(k))
        BY <1>6, EditsFacts DEF Recoverable
      <3>2. \A r \in Found(k) : r.seq \in Nat /\ r.seq <= last_sequence
        <4>1. Visible \subseteq Records
          BY <1>2, SeenFacts
        <4> QED
          BY <1>1, <1>2, <2>1, <4>1, Fields, Parameters DEF RunningInv
      <3>3. DistinctSequences(Found(k) \cup {record})
        BY <1>4, <3>1, <3>2 DEF DistinctSequences
      <3> QED
        BY <1>2, <2>1, <3>1, <3>3 DEF IdsOf, DistinctSequences
    <2> QED
      BY <1>2, <1>6, <2>2, DiskStep
  <1>12. QuietInv' /\ OpeningInv'
    BY <1>1, <1>2, <1>3 DEF QuietInv, OpeningInv
  <1>13. RunningInv'
    <2>1. Visible' = Visible /\ Seen' = Seen \cup {record} /\ InTable(live)' = InTable(live)
      BY <1>2, <1>3, <1>5 DEF Visible, Seen, InTable
    <2>2. InLog(l)' = Range(mem) \cup {record}
      BY <1>1, <1>2, <1>6, <1>7 DEF RunningInv
    <2>3. \A n \in Logs : n >= log_number => InLog(n)' \subseteq Seen'
      BY <1>1, <1>2, <1>6, <1>7, <1>8, <2>1 DEF RunningInv
    <2>4. \A n \in live : Complete(n)' = Complete(n)
      BY <1>2 DEF Complete
    <2>5. \A k \in LastEdits : InTable(VersionAt(k))' = InTable(VersionAt(k))
      BY <1>2, <1>10 DEF InTable
    <2>6. firm' \subseteq IdsOf(SyncedInLog(l)' \cup Range(imm') \cup InTable(live)')
      BY <1>1, <1>2, <1>6, <1>7, <2>1 DEF RunningInv
    <2>7. promised' \subseteq IdsOf(Visible')
      BY <1>1, <1>2, <2>1 DEF RunningInv
    <2>8. DistinctSequences(Visible') /\ \A r \in Visible' : r.seq <= last_sequence'
      BY <1>1, <1>2, <1>3, <2>1 DEF RunningInv
    <2>9. \A k \in LastEdits' :
            /\ log_number' <= CurrentEdits'[k].log /\ CurrentEdits'[k].log <= logfile_number'
            /\ CurrentEdits'[k].next <= next_file_number'
            /\ InTable(live)' \subseteq InTable(VersionAt(k))'
            /\ InTable(VersionAt(k))' \subseteq Visible'
            /\ ~bg_error' /\ (edit' = Nothing \/ k < Len(CurrentEdits')) =>
                  VersionAt(k)' \subseteq live'
      BY <1>1, <1>2, <1>3, <1>10, <2>1, <2>5 DEF RunningInv
    <2>10. /\ current' = manifest_file_number' /\ current' # NoFile
           /\ \A n \in live' : Complete(n)' /\ n < next_file_number'
           /\ log_number' <= logfile_number' /\ logfile_number' < next_file_number'
           /\ logfile_number' \in Logs' /\ \A n \in Logs' : n <= logfile_number'
           /\ ~has_imm' => imm' = <<>>
      BY <1>1, <1>2, <1>3, <1>6, <1>7, <2>4 DEF RunningInv
    <2>11. writing'.record.seq = last_sequence' + 1
      BY <1>3, <1>4, <1>5
    <2> QED
      BY <1>2, <1>3, <1>5, <1>6, <1>7, <2>2, <2>3, <2>6, <2>7, <2>8, <2>9, <2>10, <2>11
         DEF RunningInv, IdsOf, DistinctSequences
  <1>14. FlushInv' /\ CompactionInv' /\ EditInv' /\ ObsoleteInv'
    BY <1>2, WorkKept
  <1> QED
    BY <1>9, <1>11, <1>12, <1>13, <1>14

LEMMA FinishWriteStep ==
    ASSUME RInv, FinishWrite
    PROVE  BoundInv' /\ DiskInv' /\ QuietInv' /\ OpeningInv' /\ RunningInv'
              /\ FlushInv' /\ CompactionInv' /\ EditInv' /\ ObsoleteInv'
  <1> DEFINE record == writing.record
  <1>1. TypeOK /\ BoundInv /\ QuietInv /\ RunningInv
    BY DEF RInv
  <1>2. /\ writing # Nothing /\ phase = "open"
        /\ mem' = Append(mem, record) /\ last_sequence' = record.seq
        /\ promised' = promised \cup {record.id} /\ writing' = Nothing
        /\ UNCHANGED <<tables, manifests, current, phase, log_number, next_file_number,
                       manifest_file_number, live, imm, has_imm, logfile_number, workVars, openVars,
                       written>>
    BY InUse DEF FinishWrite
  <1>3. UNCHANGED <<pending_outputs, obsolete, edit, flushing, compaction, bg_error,
                    todo, recovered, save_manifest, reuse>>
    BY <1>2 DEF workVars, openVars
  <1>4. /\ record \in Records /\ record.seq = last_sequence + 1 /\ last_sequence \in Nat
        /\ record.seq <= written /\ writing \in PendingWrites
    BY <1>1, <1>2, InUse, Fields, SeenFacts DEF BoundInv, RunningInv
  <1>5. PICK l \in Logs : l = logfile_number /\ current # NoFile
    BY <1>2, SeenFacts
  <1>6. /\ Logs' = Logs /\ \A m \in Numbers \ {l} : logs'[m] = logs[m]
        /\ InLog(l)' = InLog(l) /\ SyncedInLog(l) \subseteq SyncedInLog(l)'
        /\ \/ firm' = firm
           \/ firm' = firm \cup {record.id} /\ SyncedInLog(l)' = InLog(l)
    <2>1. CASE writing.sync
      <3>1. /\ logs' = [logs EXCEPT ![l].synced = Len(logs[l].records)]
            /\ firm' = firm \cup {record.id}
        BY <1>5, <2>1 DEF FinishWrite
      <3>2. /\ Logs' = Logs /\ \A m \in Numbers \ {l} : logs'[m] = logs[m]
            /\ InLog(l)' = InLog(l) /\ SyncedInLog(l)' = InLog(l)
        BY <1>1, <3>1, SyncLog
      <3>3. SyncedInLog(l) \subseteq InLog(l)
        BY <1>1, LogFacts
      <3> QED
        BY <3>1, <3>2, <3>3
    <2>2. CASE ~writing.sync
      <3>1. logs' = logs /\ firm' = firm
        BY <2>2 DEF FinishWrite
      <3>2. InLog(l)' = InLog(l) /\ SyncedInLog(l)' = SyncedInLog(l)
        BY <3>1 DEF InLog, SyncedInLog
      <3> QED
        BY <3>1, <3>2 DEF Logs
    <2> QED
      BY <2>1, <2>2
  <1>7. \A n \in Logs \ {l} : InLog(n)' = InLog(n) /\ SyncedInLog(n)' = SyncedInLog(n)
    BY <1>6 DEF InLog, SyncedInLog, Logs
  <1>8. /\ record \in InLog(l) /\ Range(mem') = Range(mem) \cup {record}
        /\ InLog(l) = Range(mem')
    <2>1. Range(mem') = Range(mem) \cup {record}
      BY <1>1, <1>2, <1>4, MembersOfAppend DEF TypeOK
    <2> QED
      BY <1>1, <1>2, <1>5, <2>1 DEF RunningInv
  <1>9. Seen = Visible \cup {record}
    BY <1>2 DEF Seen
  <1> HIDE DEF record
  <1>10. BoundInv'
    <2>1. \A n \in Logs' : \A r \in InLog(n)' : r.seq <= written'
      BY <1>1, <1>2, <1>6, <1>7 DEF BoundInv
    <2>2. \A n \in Manifests' : \A i \in 1..Len(manifests'[n].records) :
             manifests'[n].records[i].last <= written'
      BY <1>1, <1>2 DEF BoundInv, Manifests
    <2> QED
      BY <1>2, <1>4, <2>1, <2>2 DEF BoundInv
  <1>11. /\ CurrentEdits' = CurrentEdits /\ LastEdits' = LastEdits
         /\ \A k : VersionAt(k)' = VersionAt(k)
    BY <1>2, SameVersions
  <1>12. DiskInv'
    <2>1. ASSUME NEW k \in LastEdits
          PROVE  /\ Found(k)' = Found(k) /\ record \in Found(k)
                 /\ FoundSynced(k) \subseteq FoundSynced(k)'
                 /\ \/ firm' = firm
                    \/ firm' = firm \cup {record.id} /\ record \in FoundSynced(k)'
      <3> DEFINE F == LogsToRecover(CurrentEdits[k].log)
      <3>1. l \in F /\ F \subseteq Logs
        BY <1>2, <1>5, SeenFacts
      <3>2. F' = F
        BY <1>6, <1>11 DEF LogsToRecover
      <3> HIDE DEF F
      <3>3. /\ \A n \in F : InLog(n)' = InLog(n) /\ SyncedInLog(n) \subseteq SyncedInLog(n)'
            /\ record \in InLogs(F)
            /\ \/ firm' = firm
               \/ firm' = firm \cup {record.id} /\ record \in UNION {SyncedInLog(n)' : n \in F}
        <4>1. \A n \in F : InLog(n)' = InLog(n) /\ SyncedInLog(n) \subseteq SyncedInLog(n)'
          BY <1>6, <1>7, <3>1
        <4> QED
          BY <1>6, <1>8, <3>1, <4>1 DEF InLogs
      <3>4. InLogs(F)' = InLogs(F) /\ SyncedInLogs(F) \subseteq SyncedInLogs(F)'
        BY <3>2, <3>3 DEF InLogs, SyncedInLogs
      <3>5. InTable(VersionAt(k))' = InTable(VersionAt(k))
        BY <1>2, <1>11 DEF InTable
      <3>6. \/ firm' = firm
            \/ firm' = firm \cup {record.id} /\ record \in SyncedInLogs(F)'
        BY <3>2, <3>3 DEF SyncedInLogs
      <3> QED
        BY <3>3, <3>4, <3>5, <3>6 DEF Found, FoundSynced, F
    <2>2. \A k \in LastEdits : /\ (promised \subseteq IdsOf(Found(k)))'
                               /\ (firm \subseteq IdsOf(FoundSynced(k)))'
                               /\ DistinctSequences(Found(k))'
      <3> TAKE k \in LastEdits
      <3>1. /\ promised \subseteq IdsOf(Found(k)) /\ firm \subseteq IdsOf(FoundSynced(k))
            /\ DistinctSequences(Found(k))
        BY <1>5, EditsFacts DEF Recoverable
      <3> QED
        BY <1>2, <2>1, <3>1 DEF IdsOf, DistinctSequences
    <2> QED
      BY <1>2, <1>5, <2>2, DiskStep
  <1>13. QuietInv' /\ OpeningInv'
    BY <1>1, <1>2, <1>3 DEF QuietInv, OpeningInv
  <1>14. RunningInv'
    <2>1. Visible' = Seen /\ Seen' = Seen /\ InTable(live)' = InTable(live)
      BY <1>2, <1>8, <1>9 DEF Visible, Seen, InTable
    <2>2. \A n \in Logs : n >= log_number => InLog(n)' \subseteq Seen'
      BY <1>1, <1>6, <1>7, <2>1, <1>2 DEF RunningInv
    <2>3. \A n \in live : Complete(n)' = Complete(n)
      BY <1>2 DEF Complete
    <2>4. \A k \in LastEdits : InTable(VersionAt(k))' = InTable(VersionAt(k))
      BY <1>2, <1>11 DEF InTable
    <2>5. firm' \subseteq IdsOf(SyncedInLog(l)' \cup Range(imm') \cup InTable(live)')
      BY <1>1, <1>2, <1>5, <1>6, <1>8, <2>1 DEF RunningInv, IdsOf
    <2>6. promised' \subseteq IdsOf(Visible')
      BY <1>1, <1>2, <1>9, <2>1 DEF RunningInv, IdsOf
    <2>7. DistinctSequences(Visible')
      BY <1>2, <2>1, SeenFacts
    <2>8. \A r \in Visible' : r.seq <= last_sequence'
      <3>1. \A r \in Visible : r.seq \in Nat /\ r.seq <= last_sequence
        BY <1>1, <1>2, SeenFacts, Fields, Parameters DEF RunningInv
      <3> QED
        BY <1>2, <1>4, <1>9, <2>1, <3>1
    <2>9. \A k \in LastEdits' :
            /\ log_number' <= CurrentEdits'[k].log /\ CurrentEdits'[k].log <= logfile_number'
            /\ CurrentEdits'[k].next <= next_file_number'
            /\ InTable(live)' \subseteq InTable(VersionAt(k))'
            /\ InTable(VersionAt(k))' \subseteq Visible'
            /\ ~bg_error' /\ (edit' = Nothing \/ k < Len(CurrentEdits')) =>
                  VersionAt(k)' \subseteq live'
      BY <1>1, <1>2, <1>3, <1>9, <1>11, <2>1, <2>4 DEF RunningInv
    <2>10. /\ current' = manifest_file_number' /\ current' # NoFile
           /\ \A n \in live' : Complete(n)' /\ n < next_file_number'
           /\ log_number' <= logfile_number' /\ logfile_number' < next_file_number'
           /\ logfile_number' \in Logs' /\ \A n \in Logs' : n <= logfile_number'
           /\ ~has_imm' => imm' = <<>>
      BY <1>1, <1>2, <1>3, <1>5, <1>6, <2>3 DEF RunningInv
    <2>11. InLog(l)' = Range(mem')
      BY <1>6, <1>8
    <2> QED
      BY <1>2, <1>5, <1>6, <2>2, <2>5, <2>6, <2>7, <2>8, <2>9, <2>10, <2>11
         DEF RunningInv, IdsOf, DistinctSequences
  <1>15. FlushInv' /\ CompactionInv' /\ EditInv' /\ ObsoleteInv'
    <2>1. FlushInv'
      BY <1>2, <1>3, <1>11 DEF RInv, FlushInv, Tables
    <2>2. CompactionInv'
      BY <1>2, <1>3, <1>11 DEF RInv, CompactionInv, Tables
    <2>3. EditInv'
      BY <1>2, <1>3, <1>11 DEF RInv, EditInv, InTable
    <2>4. ObsoleteInv'
      BY <1>2, <1>3 DEF RInv, ObsoleteInv
    <2> QED
      BY <2>1, <2>2, <2>3, <2>4
  <1> QED
    BY <1>10, <1>12, <1>13, <1>14, <1>15

\* An empty log is begun: nothing more and nothing less is found on disk.
LEMMA NewLogKeepsFound ==
    ASSUME RInv, NEW n \in Numbers, n \notin Logs, current # NoFile,
           logs' = [logs EXCEPT ![n] = [records |-> <<>>, synced |-> 0]],
           UNCHANGED <<tables, manifests, current, promised, firm>>
    PROVE  /\ Logs' = Logs \cup {n} /\ InLog(n)' = {} /\ logs'[n].records = <<>>
           /\ \A m \in Logs : InLog(m)' = InLog(m) /\ SyncedInLog(m)' = SyncedInLog(m)
           /\ DiskInv' /\ (written' = written => \A m \in Logs' : \A r \in InLog(m)' : r.seq <= written')
  <1>1. /\ Logs' = Logs \cup {n} /\ InLog(n)' = {} /\ SyncedInLog(n)' = {}
        /\ logs'[n].records = <<>>
        /\ \A m \in Numbers \ {n} : logs'[m] = logs[m]
    BY NewLog DEF RInv
  <1>2. \A m \in Logs : InLog(m)' = InLog(m) /\ SyncedInLog(m)' = SyncedInLog(m)
    BY <1>1 DEF InLog, SyncedInLog, Logs
  <1>3. /\ CurrentEdits' = CurrentEdits /\ LastEdits' = LastEdits
        /\ \A k : VersionAt(k)' = VersionAt(k)
    BY SameVersions
  <1>4. ASSUME NEW k \in LastEdits
        PROVE  Found(k)' = Found(k) /\ FoundSynced(k)' = FoundSynced(k)
    <2> DEFINE log == CurrentEdits[k].log
               F == LogsToRecover(log)
               G == {m \in Logs \cup {n} : m >= log}
    <2>1. /\ F' = G /\ F \subseteq Logs /\ G \subseteq F \cup {n} /\ F \subseteq G
      BY <1>1, <1>3 DEF LogsToRecover
    <2> HIDE DEF F, G
    <2>2. /\ UNION {InLog(m)' : m \in G} = InLogs(F)
          /\ UNION {SyncedInLog(m)' : m \in G} = SyncedInLogs(F)
      BY <1>1, <1>2, <2>1 DEF InLogs, SyncedInLogs
    <2>3. InLogs(F)' = InLogs(F) /\ SyncedInLogs(F)' = SyncedInLogs(F)
      BY <2>1, <2>2 DEF InLogs, SyncedInLogs
    <2>4. InTable(VersionAt(k))' = InTable(VersionAt(k))
      BY <1>3 DEF InTable
    <2> QED
      BY <2>3, <2>4 DEF Found, FoundSynced, F
  <1>5. \A k \in LastEdits : /\ (promised \subseteq IdsOf(Found(k)))'
                             /\ (firm \subseteq IdsOf(FoundSynced(k)))'
                             /\ DistinctSequences(Found(k))'
    <2> TAKE k \in LastEdits
    <2>1. /\ promised \subseteq IdsOf(Found(k)) /\ firm \subseteq IdsOf(FoundSynced(k))
          /\ DistinctSequences(Found(k))
      BY EditsFacts DEF Recoverable
    <2> QED
      BY <1>4, <2>1 DEF IdsOf, DistinctSequences
  <1>6. DiskInv'
    BY <1>5, DiskStep
  <1>7. written' = written => \A m \in Logs' : \A r \in InLog(m)' : r.seq <= written'
    BY <1>1, <1>2 DEF RInv, BoundInv
  <1> QED
    BY <1>1, <1>2, <1>6, <1>7

LEMMA SwitchLogStep ==
    ASSUME RInv, SwitchLog
    PROVE  BoundInv' /\ DiskInv' /\ QuietInv' /\ OpeningInv' /\ RunningInv'
              /\ FlushInv' /\ CompactionInv' /\ EditInv' /\ ObsoleteInv'
  <1>1. PICK n : n = next_file_number
    OBVIOUS
  <1>2. TypeOK /\ BoundInv /\ QuietInv /\ RunningInv
    BY DEF RInv
  <1>3. /\ phase = "open" /\ writing = Nothing /\ ~has_imm
        /\ n <= MaxNumber /\ next_file_number' = n + 1
        /\ logs' = [logs EXCEPT ![n] = [records |-> <<>>, synced |-> 0]]
        /\ logfile_number' = n /\ imm' = mem /\ has_imm' = TRUE /\ mem' = <<>>
        /\ UNCHANGED <<tables, manifests, current, phase, log_number, last_sequence,
                       manifest_file_number, live, writing, workVars, openVars, historyVars>>
    BY <1>1 DEF SwitchLog, NewFileNumber
  <1>4. UNCHANGED <<pending_outputs, obsolete, edit, flushing, compaction, bg_error,
                    todo, recovered, save_manifest, reuse, written, promised, firm>>
    BY <1>3 DEF workVars, openVars, historyVars
  <1>5. /\ n \in Numbers /\ n \notin Logs /\ current # NoFile /\ logfile_number \in Logs
        /\ n \in Nat /\ logfile_number \in Nat /\ log_number \in Nat
        /\ imm = <<>> /\ Range(imm) = {} /\ flushing = Nothing
    <2>1. flushing = Nothing
      BY <1>3 DEF RInv, FlushInv
    <2>2. imm = <<>>
      BY <1>2, <1>3 DEF RunningInv
    <2>3. Range(imm) = {}
      BY <2>2 DEF Range
    <2> QED
      BY <1>1, <1>2, <1>3, <2>1, <2>2, <2>3, SeenFacts, Parameters DEF TypeOK
  <1>6. /\ Logs' = Logs \cup {n} /\ InLog(n)' = {}
        /\ \A m \in Logs : InLog(m)' = InLog(m) /\ SyncedInLog(m)' = SyncedInLog(m)
        /\ DiskInv' /\ \A m \in Logs' : \A r \in InLog(m)' : r.seq <= written'
    BY <1>3, <1>4, <1>5, NewLogKeepsFound
  <1>7. BoundInv'
    BY <1>2, <1>3, <1>4, <1>6 DEF BoundInv, Manifests
  <1>8. /\ CurrentEdits' = CurrentEdits /\ LastEdits' = LastEdits
        /\ \A k : VersionAt(k)' = VersionAt(k)
    BY <1>3, SameVersions
  <1>9. QuietInv' /\ OpeningInv'
    BY <1>2, <1>3, <1>4 DEF QuietInv, OpeningInv
  <1>10. RunningInv'
    <2>1. Range(mem') = {}
      BY <1>3 DEF Range
    <2>2. Visible' = Visible /\ Seen' = Visible /\ Seen = Visible /\ InTable(live)' = InTable(live)
      BY <1>3, <1>5, <2>1 DEF Visible, Seen, InTable
    <2>3. \A m \in Logs' : m >= log_number => InLog(m)' \subseteq Seen'
      BY <1>2, <1>3, <1>6, <2>2 DEF RunningInv
    <2>4. \A m \in live : Complete(m)' = Complete(m)
      BY <1>3 DEF Complete
    <2>5. \A k \in LastEdits : InTable(VersionAt(k))' = InTable(VersionAt(k))
      BY <1>3, <1>8 DEF InTable
    <2>6. firm' \subseteq IdsOf(SyncedInLog(n)' \cup Range(imm') \cup InTable(live)')
      <3>1. SyncedInLog(logfile_number) \subseteq Range(mem)
        BY <1>2, <1>3, <1>5, LogFacts DEF RunningInv
      <3>2. firm \subseteq IdsOf(SyncedInLog(logfile_number) \cup Range(imm) \cup InTable(live))
        BY <1>2, <1>3 DEF RunningInv
      <3> QED
        BY <1>3, <1>4, <1>5, <2>2, <3>1, <3>2 DEF IdsOf
    <2>7. promised' \subseteq IdsOf(Visible')
      BY <1>2, <1>3, <1>4, <2>2 DEF RunningInv
    <2>8. DistinctSequences(Visible') /\ \A r \in Visible' : r.seq <= last_sequence'
      BY <1>2, <1>3, <1>4, <2>2 DEF RunningInv
    <2>9. /\ logfile_number < n
          /\ \A m \in Logs : m <= logfile_number /\ m \in Nat
          /\ \A m \in live : m < n /\ m \in Nat
          /\ log_number <= logfile_number
          /\ \A k \in LastEdits : /\ CurrentEdits[k].log <= logfile_number
                                  /\ CurrentEdits[k].next <= n
                                  /\ CurrentEdits[k].log \in Nat /\ CurrentEdits[k].next \in Nat
      BY <1>2, <1>3, <1>1, SeenFacts, Parameters DEF RunningInv, TypeOK, Logs
    <2>10. \A k \in LastEdits' :
            /\ log_number' <= CurrentEdits'[k].log /\ CurrentEdits'[k].log <= logfile_number'
            /\ CurrentEdits'[k].next <= next_file_number'
            /\ InTable(live)' \subseteq InTable(VersionAt(k))'
            /\ InTable(VersionAt(k))' \subseteq Visible'
            /\ ~bg_error' /\ (edit' = Nothing \/ k < Len(CurrentEdits')) =>
                  VersionAt(k)' \subseteq live'
      BY <1>2, <1>3, <1>4, <1>5, <1>8, <2>2, <2>5, <2>9 DEF RunningInv
    <2>11. /\ current' = manifest_file_number' /\ current' # NoFile
           /\ \A m \in live' : Complete(m)'
      BY <1>2, <1>3, <1>4, <2>4 DEF RunningInv
    <2>12. /\ \A m \in live' : m < next_file_number'
           /\ log_number' <= logfile_number' /\ logfile_number' < next_file_number'
           /\ logfile_number' \in Logs' /\ \A m \in Logs' : m <= logfile_number'
      BY <1>3, <1>5, <1>6, <2>9
    <2> QED
      BY <1>3, <1>6, <2>1, <2>3, <2>6, <2>7, <2>8, <2>10, <2>11, <2>12
         DEF RunningInv, IdsOf, DistinctSequences
  <1>11. FlushInv' /\ CompactionInv' /\ EditInv' /\ ObsoleteInv'
    <2>1. FlushInv'
      BY <1>4, <1>5 DEF FlushInv
    <2>2. CompactionInv'
      <3>1. compaction # Nothing => compaction.output \in Nat
        BY <1>2, Fields, Parameters DEF TypeOK
      <3> QED
        BY <1>1, <1>3, <1>4, <1>5, <1>8, <3>1 DEF RInv, CompactionInv, Tables
    <2>3. EditInv'
      BY <1>3, <1>4, <1>5, <1>8 DEF RInv, EditInv, InTable
    <2>4. ObsoleteInv'
      BY <1>3, <1>4 DEF RInv, ObsoleteInv
    <2> QED
      BY <2>1, <2>2, <2>3, <2>4
  <1> QED
    BY <1>6, <1>7, <1>9, <1>10, <1>11

-----------------------------------------------------------------------------
(* Files are begun and removed.                                            *)

\* A file that is in no version and no log that is needed comes or goes.
LEMMA RunningKept ==
    ASSUME RInv, phase \in {"clean", "open"}, phase' \in {"clean", "open"},
           UNCHANGED <<current, mem, imm, has_imm, writing, logfile_number, log_number,
                       last_sequence, manifest_file_number, live, edit, bg_error>>,
           promised' \subseteq promised \cup IdsOf(Visible),
           firm' \subseteq firm \cup IdsOf(InTable(live)),
           next_file_number' \in {next_file_number, next_file_number + 1},
           manifests'[current] = manifests[current],
           Logs' \subseteq Logs, logfile_number \in Logs', \A n \in Logs' : logs'[n] = logs[n],
           \A n \in live : tables'[n] = tables[n],
           \A k \in LastEdits : \A n \in VersionAt(k) : tables'[n] = tables[n]
    PROVE  RunningInv'
  <1>1. TypeOK /\ RunningInv
    BY DEF RInv
  <1>2. /\ CurrentEdits' = CurrentEdits /\ LastEdits' = LastEdits
        /\ \A k : VersionAt(k)' = VersionAt(k)
    BY SameVersions
  <1>3. /\ Visible' = Visible /\ Seen' = Seen /\ InTable(live)' = InTable(live)
        /\ \A n \in live : Complete(n)' = Complete(n)
    BY DEF Visible, Seen, InTable, Complete
  <1>4. \A n \in Logs' : InLog(n)' = InLog(n) /\ SyncedInLog(n)' = SyncedInLog(n)
    BY DEF InLog, SyncedInLog
  <1>5. PICK l \in Logs' : l = logfile_number
    OBVIOUS
  <1>6. \A k \in LastEdits : InTable(VersionAt(k))' = InTable(VersionAt(k))
    BY <1>2 DEF InTable
  <1>7. /\ \A n \in live : n < next_file_number'
        /\ logfile_number < next_file_number'
        /\ \A k \in LastEdits : CurrentEdits[k].next <= next_file_number'
    <2>1. /\ logfile_number < next_file_number
          /\ \A n \in live : n < next_file_number
          /\ \A k \in LastEdits : CurrentEdits[k].next <= next_file_number
      BY <1>1 DEF RunningInv
    <2>2. \A n \in live : n \in Nat
      BY <1>1, Parameters DEF TypeOK
    <2>3. /\ logfile_number \in Nat /\ next_file_number \in Nat
          /\ \A k \in LastEdits : CurrentEdits[k].next \in Nat
      BY SeenFacts
    <2>4. next_file_number' \in {next_file_number, next_file_number + 1}
      OBVIOUS
    <2>5. next_file_number' \in Nat /\ next_file_number <= next_file_number'
      BY <2>3, <2>4
    <2>6. \A a, b, c \in Nat : (a <= b /\ b <= c => a <= c) /\ (a < b /\ b <= c => a < c)
      OBVIOUS
    <2>7. \A n \in live : n < next_file_number'
      BY <2>1, <2>2, <2>3, <2>5, <2>6
    <2>8. logfile_number < next_file_number'
      BY <2>1, <2>3, <2>5, <2>6
    <2>9. \A k \in LastEdits : CurrentEdits[k].next <= next_file_number'
      BY <2>1, <2>3, <2>5, <2>6
    <2> QED
      BY <2>7, <2>8, <2>9
  <1>8. /\ InLog(l)' = Range(mem') \cup (IF writing' = Nothing THEN {} ELSE {writing'.record})
        /\ firm' \subseteq IdsOf(SyncedInLog(l)' \cup Range(imm') \cup InTable(live)')
    BY <1>1, <1>3, <1>4, <1>5 DEF RunningInv, IdsOf
  <1>9. /\ promised' \subseteq IdsOf(Visible') /\ DistinctSequences(Visible')
        /\ \A r \in Visible' : r.seq <= last_sequence'
        /\ writing' # Nothing => writing'.record.seq = last_sequence' + 1
        /\ ~has_imm' => imm' = <<>>
    BY <1>1, <1>3 DEF RunningInv
  <1>10. /\ \A n \in Logs' : n >= log_number => InLog(n)' \subseteq Seen'
         /\ \A n \in Logs' : n <= logfile_number
    BY <1>1, <1>3, <1>4 DEF RunningInv
  <1>11. \A k \in LastEdits' :
            /\ log_number' <= CurrentEdits'[k].log /\ CurrentEdits'[k].log <= logfile_number'
            /\ CurrentEdits'[k].next <= next_file_number'
            /\ InTable(live)' \subseteq InTable(VersionAt(k))'
            /\ InTable(VersionAt(k))' \subseteq Visible'
            /\ ~bg_error' /\ (edit' = Nothing \/ k < Len(CurrentEdits')) =>
                  VersionAt(k)' \subseteq live'
    BY <1>1, <1>2, <1>3, <1>6, <1>7 DEF RunningInv
  <1>12. /\ current' = manifest_file_number' /\ current' # NoFile
         /\ \A n \in live' : Complete(n)' /\ n < next_file_number'
         /\ log_number' <= logfile_number'
    BY <1>1, <1>3, <1>7 DEF RunningInv
  <1> QED
    BY <1>5, <1>7, <1>8, <1>9, <1>10, <1>11, <1>12 DEF RunningInv, IdsOf, DistinctSequences

LEMMA StartFlushStep ==
    ASSUME RInv, StartFlush
    PROVE  BoundInv' /\ DiskInv' /\ QuietInv' /\ OpeningInv' /\ RunningInv'
              /\ FlushInv' /\ CompactionInv' /\ EditInv' /\ ObsoleteInv'
  <1>1. TypeOK /\ BoundInv /\ QuietInv
    BY DEF RInv
  <1>2. PICK t : t = next_file_number
    OBVIOUS
  <1>3. /\ phase = "open" /\ obsolete = NoObsolete /\ edit = Nothing /\ has_imm
        /\ t <= MaxNumber /\ next_file_number' = t + 1 /\ flushing' = t
        /\ tables' = [tables EXCEPT ![t] = Partial]
        /\ pending_outputs' = pending_outputs \cup {t}
        /\ UNCHANGED <<logs, manifests, current, phase, log_number, last_sequence,
                       manifest_file_number, live, writeVars, obsolete, edit, compaction, bg_error,
                       openVars, historyVars>>
    BY <1>2 DEF StartFlush, Ready, NewFileNumber
  <1>4. UNCHANGED <<mem, imm, has_imm, writing, logfile_number,
                    todo, recovered, save_manifest, reuse, written, promised, firm>>
    BY <1>3 DEF writeVars, openVars, historyVars
  <1>5. /\ current # NoFile /\ logfile_number \in Logs
        /\ t \notin live /\ \A k \in LastEdits : t \notin VersionAt(k)
    BY <1>2, <1>3, SeenFacts
  <1>6. t \in Numbers /\ t \in Nat
    BY <1>1, <1>2, <1>3, Parameters DEF TypeOK
  <1>7. tables'[t] = Partial /\ \A n \in Numbers \ {t} : tables'[n] = tables[n]
    BY <1>1, <1>3, <1>6, WriteTable
  <1>8. \A n \in live : tables'[n] = tables[n]
    BY <1>1, <1>5, <1>7 DEF TypeOK
  <1>9. \A k \in LastEdits : \A n \in VersionAt(k) : tables'[n] = tables[n]
    BY <1>5, <1>7, EditsFacts
  <1>10. /\ CurrentEdits' = CurrentEdits /\ LastEdits' = LastEdits
         /\ \A k : VersionAt(k)' = VersionAt(k)
    BY <1>3, SameVersions
  <1>11. BoundInv'
    BY <1>1, <1>3, <1>4 DEF BoundInv, Logs, Manifests, InLog
  <1>12. DiskInv'
    BY <1>3, <1>4, <1>5, <1>9, DiskKept
  <1>13. QuietInv' /\ OpeningInv'
    BY <1>1, <1>3, <1>4 DEF QuietInv, OpeningInv
  <1>14. RunningInv'
    <2>1. Logs' = Logs
      BY <1>3 DEF Logs
    <2> QED
      BY <1>2, <1>3, <1>4, <1>5, <1>8, <1>9, <2>1, RunningKept
  <1>15. FlushInv' /\ CompactionInv'
    <2>1. compaction # Nothing =>
             /\ compaction.output \in Tables /\ compaction.output \in pending_outputs
             /\ compaction.output \notin live /\ compaction.output < t
             /\ \A k \in LastEdits : compaction.output \notin VersionAt(k)
             /\ compaction.output \in Numbers /\ compaction.output \in Nat
      <3>1. CompactionInv /\ edit = Nothing
        BY <1>3 DEF RInv
      <3>2. compaction \in {Nothing} \cup Compactions
        BY <1>1 DEF TypeOK
      <3>3. compaction # Nothing =>
               compaction.output \in Numbers /\ compaction.output \in Nat
        BY <3>2, Fields, Parameters
      <3> QED
        BY <1>2, <3>1, <3>3 DEF CompactionInv
    <2>2. Partial # NoFile
      BY NamesAssumption
    <2>3. t \in Tables' /\ \A n \in Tables : n # t => n \in Tables'
      BY <1>6, <1>7, <2>2 DEF Tables
    <2>4. FlushInv'
      BY <1>3, <1>4, <1>5, <1>6, <1>10, <2>1, <2>3 DEF FlushInv
    <2>5. CompactionInv'
      BY <1>3, <1>6, <1>10, <2>1, <2>3 DEF CompactionInv
    <2> QED
      BY <2>4, <2>5
  <1>16. EditInv' /\ ObsoleteInv'
    BY <1>3 DEF EditInv, ObsoleteInv, NoObsolete
  <1> QED
    BY <1>11, <1>12, <1>13, <1>14, <1>15, <1>16

LEMMA StartCompactionStep ==
    ASSUME RInv, StartCompaction
    PROVE  BoundInv' /\ DiskInv' /\ QuietInv' /\ OpeningInv' /\ RunningInv'
              /\ FlushInv' /\ CompactionInv' /\ EditInv' /\ ObsoleteInv'
  <1>1. TypeOK /\ BoundInv /\ QuietInv
    BY DEF RInv
  <1>2. PICK t : t = next_file_number
    OBVIOUS
  <1>3. /\ phase = "open" /\ obsolete = NoObsolete /\ edit = Nothing /\ flushing = Nothing
        /\ t <= MaxNumber /\ next_file_number' = t + 1
        /\ tables' = [tables EXCEPT ![t] = Partial]
        /\ pending_outputs' = pending_outputs \cup {t}
        /\ UNCHANGED <<logs, manifests, current, phase, log_number, last_sequence,
                       manifest_file_number, live, writeVars, obsolete, edit, flushing, bg_error,
                       openVars, written, promised, firm>>
    BY <1>2 DEF StartCompaction, Ready, NewFileNumber
  <1>4. UNCHANGED <<mem, imm, has_imm, writing, logfile_number,
                    todo, recovered, save_manifest, reuse>>
    BY <1>3 DEF writeVars, openVars
  <1>5. /\ current # NoFile /\ logfile_number \in Logs
        /\ t \notin live /\ \A k \in LastEdits : t \notin VersionAt(k)
    BY <1>2, <1>3, SeenFacts
  <1>6. t \in Numbers /\ t \in Nat
    BY <1>1, <1>2, <1>3, Parameters DEF TypeOK
  <1>7. tables'[t] = Partial /\ \A n \in Numbers \ {t} : tables'[n] = tables[n]
    BY <1>1, <1>3, <1>6, WriteTable
  <1>8. \A n \in live : tables'[n] = tables[n]
    BY <1>1, <1>5, <1>7 DEF TypeOK
  <1>9. \A k \in LastEdits : \A n \in VersionAt(k) : tables'[n] = tables[n]
    BY <1>5, <1>7, EditsFacts
  <1>10. /\ CurrentEdits' = CurrentEdits /\ LastEdits' = LastEdits
         /\ \A k : VersionAt(k)' = VersionAt(k)
    BY <1>3, SameVersions
  <1>11. BoundInv'
    BY <1>1, <1>3, <1>4 DEF BoundInv, Logs, Manifests, InLog
  <1>12. DiskInv'
    BY <1>3, <1>4, <1>5, <1>9, DiskKept
  <1>13. QuietInv' /\ OpeningInv'
    BY <1>1, <1>3, <1>4 DEF QuietInv, OpeningInv
  <1>14. RunningInv'
    <2>1. Logs' = Logs
      BY <1>3 DEF Logs
    <2> QED
      BY <1>2, <1>3, <1>4, <1>5, <1>8, <1>9, <2>1, RunningKept
  <1>15. CompactionInv'
    <2>1. compaction'.output = t
      BY <1>2 DEF StartCompaction
    <2>2. t \in Tables'
      BY <1>6, <1>7, NamesAssumption DEF Tables
    <2> QED
      BY <1>3, <1>5, <1>6, <1>10, <2>1, <2>2 DEF CompactionInv
  <1>16. FlushInv' /\ EditInv' /\ ObsoleteInv'
    BY <1>3 DEF FlushInv, EditInv, ObsoleteInv, NoObsolete
  <1> QED
    BY <1>11, <1>12, <1>13, <1>14, <1>15, <1>16

LEMMA RemovalStep ==
    ASSUME RInv, RemoveObsoleteFile
    PROVE  BoundInv' /\ DiskInv' /\ QuietInv' /\ OpeningInv' /\ RunningInv'
              /\ FlushInv' /\ CompactionInv' /\ EditInv' /\ ObsoleteInv'
  <1>1. TypeOK /\ BoundInv /\ QuietInv /\ RunningInv /\ CompactionInv /\ ObsoleteInv
    BY DEF RInv
  <1>2. /\ RemoveLog \/ RemoveTable \/ RemoveManifest
        /\ UNCHANGED <<current, phase, versionVars, writeVars, pending_outputs, edit, flushing,
                       compaction, bg_error, openVars, historyVars>>
    BY DEF RemoveObsoleteFile
  <1>3. UNCHANGED <<log_number, next_file_number, last_sequence, manifest_file_number, live,
                    mem, imm, has_imm, writing, logfile_number,
                    todo, recovered, save_manifest, reuse, written, promised, firm>>
    BY <1>2 DEF versionVars, writeVars, openVars, historyVars
  <1>4. /\ obsolete # NoObsolete
        /\ obsolete'.logs \subseteq obsolete.logs /\ obsolete'.tables \subseteq obsolete.tables
        /\ obsolete'.manifests \subseteq obsolete.manifests
        /\ obsolete.logs \subseteq Numbers /\ obsolete.tables \subseteq Numbers
        /\ obsolete.manifests \subseteq Numbers
    <2>1. obsolete \in [logs : SUBSET Numbers, tables : SUBSET Numbers, manifests : SUBSET Numbers]
      BY <1>1 DEF TypeOK
    <2>2. obsolete # NoObsolete
      BY <1>2 DEF RemoveLog, RemoveTable, RemoveManifest, NoObsolete
    <2>3. /\ obsolete'.logs \subseteq obsolete.logs /\ obsolete'.tables \subseteq obsolete.tables
          /\ obsolete'.manifests \subseteq obsolete.manifests
      BY <1>2, <2>1 DEF RemoveLog, RemoveTable, RemoveManifest
    <2> QED
      BY <2>1, <2>2, <2>3
  <1>5. /\ phase \in {"clean", "open"} /\ edit = Nothing /\ flushing = Nothing /\ ~bg_error
        /\ current # NoFile /\ current \in Manifests
        /\ logfile_number \in Logs /\ current = manifest_file_number
        /\ \A k \in LastEdits : VersionAt(k) \subseteq live
    BY <1>1, <1>4, InUse DEF ObsoleteInv, RunningInv
  <1>6. ObsoleteInv'
    BY <1>1, <1>2, <1>3, <1>4, <1>5 DEF ObsoleteInv
  <1>7. QuietInv' /\ OpeningInv' /\ FlushInv' /\ EditInv'
    BY <1>1, <1>2, <1>3, <1>5 DEF QuietInv, OpeningInv, FlushInv, EditInv
  <1>8. CASE RemoveLog
    <2>1. PICK n \in obsolete.logs : logs' = [logs EXCEPT ![n] = NoFile]
      BY <1>8 DEF RemoveLog
    <2>2. UNCHANGED <<tables, manifests>>
      BY <1>8 DEF RemoveLog
    <2>3. n \in Numbers /\ n < log_number
      BY <1>1, <1>4 DEF ObsoleteInv
    <2>4. logs'[n] = NoFile /\ \A m \in Numbers \ {n} : logs'[m] = logs[m]
      BY <1>1, <2>1, <2>3 DEF TypeOK
    <2>5. Logs' = Logs \ {n} /\ \A m \in Logs' : logs'[m] = logs[m]
      BY <2>3, <2>4 DEF Logs
    <2>6. n # logfile_number
      BY <1>1, <1>5, <2>3, SeenFacts, Parameters DEF RunningInv
    <2>7. RunningInv'
      BY <1>2, <1>3, <1>5, <2>2, <2>5, <2>6, RunningKept
    <2>8. \A m \in Logs' : InLog(m)' = InLog(m) /\ SyncedInLog(m)' = SyncedInLog(m)
      BY <2>5 DEF InLog, SyncedInLog
    <2>9. /\ CurrentEdits' = CurrentEdits /\ LastEdits' = LastEdits
          /\ \A k : VersionAt(k)' = VersionAt(k)
      BY <1>2, <2>2, SameVersions
    <2>10. DiskInv'
      <3>1. ASSUME NEW k \in LastEdits
            PROVE  /\ (promised \subseteq IdsOf(Found(k)))'
                   /\ (firm \subseteq IdsOf(FoundSynced(k)))'
                   /\ DistinctSequences(Found(k))'
        <4>1. PICK F : F = LogsToRecover(CurrentEdits[k].log)
          OBVIOUS
        <4>2. \A m \in F : m \in Logs /\ m >= log_number /\ m \in Nat
          <5>1. \A m \in F : m \in Logs /\ m >= log_number
            BY <1>5, <4>1, SeenFacts
          <5>2. \A m \in Logs : m \in Nat
            BY Parameters DEF Logs
          <5> QED
            BY <5>1, <5>2
        <4>3. F \subseteq Logs' /\ LogsToRecover(CurrentEdits[k].log)' = F
          <5>1. \A m \in F : m # n
            BY <1>5, <2>3, <4>2, SeenFacts, Parameters
          <5>2. F \subseteq Logs'
            BY <2>5, <4>2, <5>1
          <5> QED
            BY <2>5, <2>9, <4>1, <5>2 DEF LogsToRecover
        <4>4. /\ InLogs(F)' = InLogs(F) /\ SyncedInLogs(F)' = SyncedInLogs(F)
          BY <2>8, <4>3 DEF InLogs, SyncedInLogs
        <4>5. InTable(VersionAt(k))' = InTable(VersionAt(k))
          BY <2>2, <2>9 DEF InTable
        <4>6. Found(k)' = Found(k) /\ FoundSynced(k)' = FoundSynced(k)
          BY <4>1, <4>3, <4>4, <4>5 DEF Found, FoundSynced, InLogs, SyncedInLogs
        <4>7. /\ promised \subseteq IdsOf(Found(k)) /\ firm \subseteq IdsOf(FoundSynced(k))
              /\ DistinctSequences(Found(k))
          BY <1>5, EditsFacts DEF Recoverable
        <4> QED
          BY <1>3, <4>6, <4>7 DEF IdsOf, DistinctSequences
      <3> QED
        BY <1>2, <1>5, <2>2, <3>1, DiskStep
    <2>11. BoundInv'
      BY <1>1, <1>3, <2>2, <2>5, <2>8 DEF BoundInv, Manifests
    <2>12. CompactionInv'
      BY <1>1, <1>2, <1>3, <2>2, <2>9 DEF CompactionInv, Tables
    <2> QED
      BY <1>6, <1>7, <2>7, <2>10, <2>11, <2>12
  <1>9. CASE RemoveTable
    <2>1. PICK n \in obsolete.tables : tables' = [tables EXCEPT ![n] = NoFile]
      BY <1>9 DEF RemoveTable
    <2>2. UNCHANGED <<logs, manifests>>
      BY <1>9 DEF RemoveTable
    <2>3. n \in Numbers /\ n \notin live /\ n \notin pending_outputs
      BY <1>1, <1>4, <2>1 DEF ObsoleteInv
    <2>4. \A m \in Numbers \ {n} : tables'[m] = tables[m]
      BY <1>1, <2>1, <2>3 DEF TypeOK
    <2>5. /\ \A m \in live : tables'[m] = tables[m]
          /\ \A k \in LastEdits : \A m \in VersionAt(k) : tables'[m] = tables[m]
      BY <1>1, <1>5, <2>3, <2>4 DEF TypeOK
    <2>6. Logs' = Logs
      BY <2>2 DEF Logs
    <2>7. RunningInv'
      BY <1>2, <1>3, <1>5, <2>2, <2>5, <2>6, RunningKept
    <2>8. DiskInv'
      BY <1>2, <1>3, <1>5, <2>2, <2>5, DiskKept
    <2>9. BoundInv'
      BY <1>1, <1>3, <2>2 DEF BoundInv, Logs, Manifests, InLog
    <2>10. /\ CurrentEdits' = CurrentEdits /\ LastEdits' = LastEdits
           /\ \A k : VersionAt(k)' = VersionAt(k)
      BY <1>2, <2>2, SameVersions
    <2>11. \A m \in Tables : m # n => m \in Tables'
      BY <2>4 DEF Tables
    <2>12. CompactionInv'
      BY <1>1, <1>2, <1>3, <2>3, <2>10, <2>11 DEF CompactionInv
    <2> QED
      BY <1>6, <1>7, <2>7, <2>8, <2>9, <2>12
  <1>10. CASE RemoveManifest
    <2>1. PICK n \in obsolete.manifests : manifests' = [manifests EXCEPT ![n] = NoFile]
      BY <1>10 DEF RemoveManifest
    <2>2. UNCHANGED <<logs, tables>>
      BY <1>10 DEF RemoveManifest
    <2>3. n \in Numbers /\ n < manifest_file_number
      BY <1>1, <1>4 DEF ObsoleteInv
    <2>4. manifests'[n] = NoFile /\ \A m \in Numbers \ {n} : manifests'[m] = manifests[m]
      BY <1>1, <2>1, <2>3 DEF TypeOK
    <2>5. current \in Numbers /\ current # n
      BY <1>5, <2>3, Parameters DEF Manifests
    <2>6. manifests'[current] = manifests[current]
      BY <2>4, <2>5
    <2>7. Logs' = Logs
      BY <2>2 DEF Logs
    <2>8. RunningInv'
      BY <1>2, <1>3, <1>5, <2>2, <2>6, <2>7, RunningKept
    <2>9. DiskInv'
      BY <1>2, <1>3, <1>5, <2>2, <2>6, DiskKept
    <2>10. BoundInv'
      <3>1. Manifests' \subseteq Manifests /\ \A m \in Manifests' : manifests'[m] = manifests[m]
        BY <2>4 DEF Manifests
      <3> QED
        BY <1>1, <1>3, <2>2, <3>1 DEF BoundInv, Logs, InLog
    <2>11. /\ CurrentEdits' = CurrentEdits /\ LastEdits' = LastEdits
           /\ \A k : VersionAt(k)' = VersionAt(k)
      BY <1>2, <2>6, SameVersions
    <2>12. CompactionInv'
      BY <1>1, <1>2, <1>3, <2>2, <2>11 DEF CompactionInv, Tables
    <2> QED
      BY <1>6, <1>7, <2>8, <2>9, <2>10, <2>12
  <1> QED
    BY <1>2, <1>8, <1>9, <1>10

-----------------------------------------------------------------------------
(* Edits of an open database.                                              *)

\* A record is written to the MANIFEST: a crash may leave it or not, and
\* either way what was promised is found.
LEMMA EditWritten ==
    ASSUME RInv, phase = "open", edit = Nothing, edit' # Nothing,
           NEW e \in Edits, NEW L, L = Len(CurrentEdits), AppendEdit(e),
           UNCHANGED <<logs, current, phase, mem, imm, has_imm, writing, logfile_number,
                       log_number, next_file_number, last_sequence, manifest_file_number, live,
                       bg_error, written, promised, firm>>,
           e.next = next_file_number, e.last = last_sequence,
           log_number <= e.log, e.log <= logfile_number,
           \A n \in live : tables'[n] = tables[n],
           \A k \in LastEdits : \A n \in VersionAt(k) : tables'[n] = tables[n],
           NEW version, version = SaveTo(VersionAt(L), e),
           \A n \in version : Complete(n)' /\ n < next_file_number,
           InTable(live) \subseteq InTable(version)', InTable(version)' \subseteq Visible,
           promised \subseteq IdsOf(InTable(version)' \cup InLogs(LogsToRecover(e.log))),
           firm \subseteq IdsOf(InTable(version)' \cup SyncedInLogs(LogsToRecover(e.log)))
    PROVE  /\ BoundInv' /\ DiskInv' /\ RunningInv'
           /\ LastEdits' = LastEdits \cup {L + 1} /\ Len(CurrentEdits)' = L + 1
           /\ CurrentEdits'[L + 1] = e /\ manifests'[current].synced < L + 1
           /\ \A k \in LastEdits : VersionAt(k)' = VersionAt(k)
           /\ VersionAt(L + 1)' = version
  <1>1. TypeOK /\ BoundInv /\ RunningInv
    BY DEF RInv
  <1>2. /\ current # NoFile /\ current \in Manifests /\ current = manifest_file_number
        /\ Seen \subseteq Records /\ Visible \subseteq Seen /\ DistinctSequences(Seen)
        /\ next_file_number \in Nat /\ last_sequence \in Nat /\ logfile_number \in Nat
    BY <1>1, SeenFacts DEF RunningInv, Seen
  <1>3. /\ L \in Nat /\ L \in LastEdits /\ manifests[current].synced \in 1..L
        /\ \A k \in LastEdits : /\ k \in 1..L /\ CurrentEdits[k] \in Edits /\ Recoverable(k)
                                /\ Found(k) \subseteq Seen
                                /\ CurrentEdits[k].next \in Nat
    BY <1>2, EditsFacts, SeenFacts
  <1>4. manifests' = [manifests EXCEPT ![current].records = Append(@, e)]
    BY <1>2 DEF AppendEdit
  <1>5. /\ Len(CurrentEdits)' = L + 1 /\ CurrentEdits'[L + 1] = e
        /\ manifests'[current].synced = manifests[current].synced
        /\ LastEdits' = LastEdits \cup {L + 1}
        /\ \A k \in 1..L : CurrentEdits'[k] = CurrentEdits[k] /\ VersionAt(k)' = VersionAt(k)
        /\ VersionAt(L + 1)' = version
    BY <1>2, <1>4, AppendedVersions
  <1>6. /\ \A n : InLog(n)' = InLog(n) /\ SyncedInLog(n)' = SyncedInLog(n)
        /\ Logs' = Logs /\ \A l : LogsToRecover(l)' = LogsToRecover(l)
        /\ \A F : InLogs(F)' = InLogs(F) /\ SyncedInLogs(F)' = SyncedInLogs(F)
    BY DEF InLog, SyncedInLog, Logs, LogsToRecover, InLogs, SyncedInLogs
  <1>7. \A k \in LastEdits : /\ InTable(VersionAt(k))' = InTable(VersionAt(k))
                             /\ \A n \in VersionAt(k) : Complete(n)' = Complete(n)
    BY <1>3, <1>5 DEF InTable, Complete
  <1>8. BoundInv'
    <2>1. /\ Manifests' = Manifests /\ \A m \in Numbers \ {current} : manifests'[m] = manifests[m]
          /\ manifests'[current].records = Append(CurrentEdits, e)
      BY <1>1, <1>2, <1>4, AppendToManifest DEF CurrentEdits
    <2>2. \A i \in 1..Len(CurrentEdits)' : CurrentEdits'[i].last <= written
      <3>1. \A i \in 1..L : CurrentEdits[i].last <= written
        BY <1>1, <1>2 DEF BoundInv, CurrentEdits
      <3>2. e.last <= written
        BY <1>1 DEF BoundInv
      <3>3. \A i \in 1..(L + 1) : i \in 1..L \/ i = L + 1
        BY <1>3
      <3> QED
        BY <1>5, <3>1, <3>2, <3>3
    <2>3. \A m \in Manifests : \A i \in 1..Len(manifests'[m].records) :
             manifests'[m].records[i].last <= written
      <3>1. \A i \in 1..Len(manifests'[current].records) :
               manifests'[current].records[i].last <= written
        BY <2>2 DEF CurrentEdits
      <3> QED
        BY <1>1, <2>1, <3>1 DEF BoundInv, Manifests
    <2> QED
      BY <1>1, <1>6, <2>1, <2>3 DEF BoundInv
  <1>9. ASSUME NEW k \in LastEdits
        PROVE  Recoverable(k)'
    <2>1. Recoverable(k) /\ k \in 1..L /\ CurrentEdits[k].next <= next_file_number
      BY <1>1, <1>3 DEF RunningInv
    <2>2. /\ CurrentEdits'[k] = CurrentEdits[k] /\ VersionAt(k)' = VersionAt(k)
      BY <1>5, <2>1
    <2>3. Found(k)' = Found(k) /\ FoundSynced(k)' = FoundSynced(k)
      BY <1>6, <1>7, <2>2 DEF Found, FoundSynced
    <2>4. \A j \in k..Len(CurrentEdits)' : CurrentEdits'[k].next <= CurrentEdits'[j].next
      <3>1. \A j \in k..(L + 1) : j = L + 1 \/ j \in k..L
        BY <1>3, <2>1
      <3>2. \A j \in k..L : CurrentEdits'[j] = CurrentEdits[j]
        BY <1>5, <2>1
      <3> QED
        BY <1>5, <2>1, <2>2, <3>1, <3>2 DEF Recoverable
    <2>5. /\ \A n \in VersionAt(k)' : Complete(n)' /\ n < CurrentEdits'[k].next
          /\ \A r \in InTable(VersionAt(k))' : r.seq <= CurrentEdits'[k].last
      BY <1>7, <2>1, <2>2 DEF Recoverable
    <2>6. /\ promised' \subseteq IdsOf(Found(k)') /\ firm' \subseteq IdsOf(FoundSynced(k)')
          /\ DistinctSequences(Found(k)')
      BY <2>1, <2>3 DEF Recoverable
    <2> QED
      BY <2>1, <2>2, <2>4, <2>5, <2>6 DEF Recoverable, IdsOf, DistinctSequences
  <1>10. PICK F : F = LogsToRecover(e.log)
    OBVIOUS
  <1>11. InTable(version)' \subseteq Visible /\ Found(L + 1)' = InTable(version)' \cup InLogs(F)
         /\ FoundSynced(L + 1)' = InTable(version)' \cup SyncedInLogs(F)
    <2>1. LogsToRecover(CurrentEdits[L + 1].log)' = F
      BY <1>5, <1>6, <1>10
    <2>2. InTable(VersionAt(L + 1))' = InTable(version)'
      BY <1>5 DEF InTable
    <2> QED
      BY <1>6, <2>1, <2>2 DEF Found, FoundSynced
  <1>12. Recoverable(L + 1)'
    <2>1. \A n \in VersionAt(L + 1)' : Complete(n)' /\ n < CurrentEdits'[L + 1].next
      BY <1>5
    <2>2. /\ e.log < e.next /\ current < e.next
      <3>1. logfile_number < next_file_number /\ e.log \in Nat
        BY <1>1, Fields, Parameters DEF RunningInv
      <3>2. current < CurrentEdits[L].next /\ CurrentEdits[L].next <= next_file_number
        BY <1>1, <1>3 DEF Recoverable, RunningInv
      <3> QED
        BY <1>1, <1>2, <1>3, <3>1, <3>2, Parameters DEF TypeOK, Manifests
    <2>3. \A j \in (L + 1)..Len(CurrentEdits)' : CurrentEdits'[L + 1].next <= CurrentEdits'[j].next
      <3>1. \A j \in (L + 1)..(L + 1) : j = L + 1
        BY <1>3
      <3> QED
        BY <1>2, <1>5, <3>1
    <2>4. \A r \in InTable(VersionAt(L + 1))' : r.seq <= CurrentEdits'[L + 1].last
      <3>1. InTable(VersionAt(L + 1))' = InTable(version)'
        BY <1>5 DEF InTable
      <3> QED
        BY <1>1, <1>5, <3>1 DEF RunningInv
    <2>5. DistinctSequences(Found(L + 1)')
      <3>1. \A n \in F : n \in Logs /\ n >= log_number
        <4>1. /\ log_number \in Nat /\ e.log \in Nat /\ log_number <= e.log
          BY <1>1, Fields, Parameters DEF TypeOK
        <4>2. \A n \in F : n \in Logs /\ n >= e.log /\ n \in Nat
          BY <1>10, Parameters DEF LogsToRecover, Logs
        <4> QED
          BY <4>1, <4>2
      <3>2. InLogs(F) \subseteq Seen
        BY <1>1, <3>1 DEF RunningInv, InLogs
      <3> QED
        BY <1>2, <1>11, <3>2, FewerRecords
    <2>6. promised' \subseteq IdsOf(Found(L + 1)') /\ firm' \subseteq IdsOf(FoundSynced(L + 1)')
      BY <1>10, <1>11
    <2> QED
      BY <1>5, <2>1, <2>2, <2>3, <2>4, <2>5, <2>6 DEF Recoverable, IdsOf, DistinctSequences
  <1>13. DiskInv'
    BY <1>2, <1>3, <1>5, <1>9, <1>12 DEF DiskInv
  <1>14. RunningInv'
    <2>1. /\ Visible' = Visible /\ Seen' = Seen /\ InTable(live)' = InTable(live)
          /\ \A n \in live : Complete(n)' = Complete(n)
      BY DEF Visible, Seen, InTable, Complete
    <2>2. PICK l \in Logs : l = logfile_number
      BY <1>1 DEF RunningInv
    <2>3. /\ InLog(l)' = Range(mem') \cup (IF writing' = Nothing THEN {} ELSE {writing'.record})
          /\ firm' \subseteq IdsOf(SyncedInLog(l)' \cup Range(imm') \cup InTable(live)')
      BY <1>1, <1>6, <2>1, <2>2 DEF RunningInv
    <2>4. /\ promised' \subseteq IdsOf(Visible') /\ DistinctSequences(Visible')
          /\ \A r \in Visible' : r.seq <= last_sequence'
          /\ writing' # Nothing => writing'.record.seq = last_sequence' + 1
          /\ ~has_imm' => imm' = <<>>
      BY <1>1, <2>1 DEF RunningInv
    <2>5. /\ \A n \in Logs' : n >= log_number => InLog(n)' \subseteq Seen'
          /\ \A n \in Logs' : n <= logfile_number /\ logfile_number \in Logs'
      BY <1>1, <1>6, <2>1 DEF RunningInv
    <2>6. /\ current' = manifest_file_number' /\ current' # NoFile
          /\ \A n \in live' : Complete(n)' /\ n < next_file_number'
          /\ log_number' <= logfile_number' /\ logfile_number' < next_file_number'
      BY <1>1, <2>1 DEF RunningInv
    <2>7. ASSUME NEW k \in LastEdits
          PROVE  /\ log_number' <= CurrentEdits'[k].log /\ CurrentEdits'[k].log <= logfile_number'
                 /\ CurrentEdits'[k].next <= next_file_number'
                 /\ InTable(live)' \subseteq InTable(VersionAt(k))'
                 /\ InTable(VersionAt(k))' \subseteq Visible'
                 /\ ~bg_error' => VersionAt(k)' \subseteq live'
      BY <1>1, <1>3, <1>5, <1>7, <2>1 DEF RunningInv
    <2>8. /\ log_number' <= CurrentEdits'[L + 1].log
          /\ CurrentEdits'[L + 1].log <= logfile_number'
          /\ CurrentEdits'[L + 1].next <= next_file_number'
          /\ InTable(live)' \subseteq InTable(VersionAt(L + 1))'
          /\ InTable(VersionAt(L + 1))' \subseteq Visible'
      <3>1. InTable(VersionAt(L + 1))' = InTable(version)'
        BY <1>5 DEF InTable
      <3> QED
        BY <1>2, <1>5, <2>1, <3>1
    <2>9. \A k \in LastEdits' :
            /\ log_number' <= CurrentEdits'[k].log /\ CurrentEdits'[k].log <= logfile_number'
            /\ CurrentEdits'[k].next <= next_file_number'
            /\ InTable(live)' \subseteq InTable(VersionAt(k))'
            /\ InTable(VersionAt(k))' \subseteq Visible'
            /\ ~bg_error' /\ (edit' = Nothing \/ k < Len(CurrentEdits')) =>
                  VersionAt(k)' \subseteq live'
      <3>1. ~(L + 1 < L + 1)
        BY <1>3
      <3> QED
        BY <1>5, <2>7, <2>8, <3>1
    <2> QED
      BY <1>6, <2>2, <2>3, <2>4, <2>5, <2>6, <2>9 DEF RunningInv, IdsOf, DistinctSequences
  <1>15. manifests'[current].synced < L + 1 /\ \A k \in LastEdits : VersionAt(k)' = VersionAt(k)
    BY <1>3, <1>5
  <1> QED
    BY <1>5, <1>8, <1>13, <1>14, <1>15

LEMMA BuildTableStep ==
    ASSUME RInv, BuildTable
    PROVE  BoundInv' /\ DiskInv' /\ QuietInv' /\ OpeningInv' /\ RunningInv'
              /\ FlushInv' /\ CompactionInv' /\ EditInv' /\ ObsoleteInv'
  <1>1. TypeOK /\ QuietInv /\ RunningInv /\ FlushInv /\ CompactionInv /\ ObsoleteInv
    BY DEF RInv
  <1>2. PICK t, e, L : t = flushing /\ e = Edit(logfile_number, {flushing}, {})
                        /\ L = Len(CurrentEdits)
    OBVIOUS
  <1>3. /\ flushing # Nothing /\ edit = Nothing
        /\ tables' = [tables EXCEPT ![t] = Range(imm)]
        /\ pending_outputs' = pending_outputs \ {t}
        /\ edit' = [by |-> "flush", edit |-> e]
        /\ AppendEdit(edit'.edit)
        /\ UNCHANGED <<logs, current, phase, obsolete, flushing, compaction, bg_error>>
        /\ UNCHANGED <<log_number, next_file_number, last_sequence, manifest_file_number, live,
                       mem, imm, has_imm, writing, logfile_number,
                       todo, recovered, save_manifest, reuse, written, promised, firm>>
    BY <1>2 DEF BuildTable, versionVars, writeVars, openVars, historyVars
  <1>4. /\ phase = "open" /\ current = manifest_file_number /\ current \in Manifests
        /\ current # NoFile /\ logfile_number \in Logs
    BY <1>1, <1>3, InUse DEF RunningInv
  <1>5. /\ t \in Numbers /\ t \in Nat /\ has_imm /\ t \in Tables /\ t \notin live
        /\ t < next_file_number
        /\ compaction # Nothing => t # compaction.output
        /\ \A k \in LastEdits : t \notin VersionAt(k)
    BY <1>1, <1>2, <1>3, Parameters DEF FlushInv, Tables
  <1>6. /\ e \in Edits /\ e.log = logfile_number /\ e.next = next_file_number
        /\ e.last = last_sequence /\ e.added = {t} /\ e.removed = {}
    <2>1. {t} \in SUBSET Numbers /\ {} \in SUBSET Numbers /\ logfile_number \in 0..MaxNumber
      BY <1>1, <1>5 DEF TypeOK
    <2>2. e \in Edits
      BY <1>2, <1>4, <2>1, EditTypes
    <2> QED
      BY <1>2, <2>2 DEF Edit
  <1>7. edit' \in PendingEdits /\ edit' # Nothing /\ edit'.by = "flush" /\ edit'.edit = e
    <2>1. edit' \in PendingEdits
      BY <1>3, <1>6 DEF PendingEdits
    <2> QED
      BY <1>3, <2>1, Fields
  <1>8. AppendEdit(e)
    BY <1>3, <1>7
  <1>9. /\ Range(imm) \in SUBSET Records
        /\ tables'[t] = Range(imm) /\ \A m \in Numbers \ {t} : tables'[m] = tables[m]
    <2>1. Range(imm) \in SUBSET Records
      BY <1>1, MembersOfSeq DEF TypeOK
    <2> QED
      BY <1>1, <1>3, <1>5, <2>1, WriteTable
  <1>10. Complete(t)'
    <2>1. Range(imm) # NoFile /\ Range(imm) # Partial
      BY <1>9, Fields
    <2> QED
      BY <1>9, <2>1 DEF Complete
  <1>11. \A n \in live : tables'[n] = tables[n]
    BY <1>1, <1>5, <1>9 DEF TypeOK
  <1>12. \A k \in LastEdits : \A n \in VersionAt(k) : tables'[n] = tables[n]
    BY <1>4, <1>5, <1>9, EditsFacts
  <1>13. /\ L \in LastEdits /\ Recoverable(L) /\ VersionAt(L) \subseteq Numbers
         /\ CurrentEdits[L].next <= next_file_number /\ CurrentEdits[L].next \in Nat
         /\ InTable(live) \subseteq InTable(VersionAt(L))
         /\ InTable(VersionAt(L)) \subseteq Visible
    BY <1>1, <1>2, <1>4, EditsFacts, SeenFacts DEF RunningInv
  <1>14. PICK version : version = SaveTo(VersionAt(L), e)
    OBVIOUS
  <1>15. version = VersionAt(L) \cup {t}
    BY <1>6, <1>14 DEF SaveTo
  <1>16. \A n \in version : Complete(n)' /\ n < next_file_number
    <2>1. \A n \in VersionAt(L) : Complete(n)'
      BY <1>12, <1>13 DEF Recoverable, Complete
    <2>2. \A n \in VersionAt(L) : n < next_file_number
      <3>1. \A n \in VersionAt(L) : n \in Nat /\ n < CurrentEdits[L].next
        BY <1>13, Parameters DEF Recoverable
      <3> QED
        BY <1>4, <1>13, <3>1, SeenFacts
    <2> QED
      BY <1>5, <1>10, <1>15, <2>1, <2>2
  <1>17. InTable(version)' = InTable(VersionAt(L)) \cup Range(imm)
    BY <1>9, <1>12, <1>13, <1>15 DEF InTable
  <1>18. /\ logfile_number \in LogsToRecover(e.log)
         /\ InLog(logfile_number) = Range(mem) \cup (IF writing = Nothing THEN {} ELSE {writing.record})
         /\ promised \subseteq IdsOf(Visible)
         /\ firm \subseteq IdsOf(SyncedInLog(logfile_number) \cup Range(imm) \cup InTable(live))
         /\ log_number <= logfile_number
    <2>1. logfile_number <= logfile_number
      BY <1>4, SeenFacts
    <2> QED
      BY <1>1, <1>4, <1>6, <2>1 DEF RunningInv, LogsToRecover
  <1>19. InTable(version)' \subseteq Visible /\ InTable(live) \subseteq InTable(version)'
    BY <1>13, <1>17 DEF Visible
  <1>20. promised \subseteq IdsOf(InTable(version)' \cup InLogs(LogsToRecover(e.log)))
    <2>1. Range(mem) \subseteq InLogs(LogsToRecover(e.log))
      BY <1>18 DEF InLogs
    <2>2. Visible \subseteq InTable(version)' \cup InLogs(LogsToRecover(e.log))
      BY <1>13, <1>17, <2>1 DEF Visible, InTable
    <2> QED
      BY <1>18, <2>2, FewerRecords
  <1>21. firm \subseteq IdsOf(InTable(version)' \cup SyncedInLogs(LogsToRecover(e.log)))
    <2>1. SyncedInLog(logfile_number) \subseteq SyncedInLogs(LogsToRecover(e.log))
      BY <1>18 DEF SyncedInLogs
    <2>2. SyncedInLog(logfile_number) \cup Range(imm) \cup InTable(live)
             \subseteq InTable(version)' \cup SyncedInLogs(LogsToRecover(e.log))
      BY <1>13, <1>17, <2>1
    <2> QED
      BY <1>18, <2>2, FewerRecords
  <1>22. e.log <= logfile_number /\ log_number <= e.log
    BY <1>4, <1>6, <1>18, SeenFacts
  <1>23. /\ BoundInv' /\ DiskInv' /\ RunningInv'
         /\ LastEdits' = LastEdits \cup {L + 1} /\ Len(CurrentEdits)' = L + 1
         /\ CurrentEdits'[L + 1] = e /\ manifests'[current].synced < L + 1
         /\ \A k \in LastEdits : VersionAt(k)' = VersionAt(k)
         /\ VersionAt(L + 1)' = version
    <2>1. UNCHANGED <<logs, current, phase, mem, imm, has_imm, writing, logfile_number,
                      log_number, next_file_number, last_sequence, manifest_file_number, live,
                      bg_error, written, promised, firm>>
      BY <1>3
    <2>2. edit = Nothing /\ phase = "open" /\ edit' # Nothing
      BY <1>3, <1>4, <1>7
    <2> QED
      BY <2>1, <2>2, <1>2, <1>6, <1>8, <1>11, <1>12, <1>14, <1>16, <1>19, <1>20, <1>21, <1>22,
         EditWritten
  <1>24. t \in Tables' /\ \A n \in Tables : n # t => n \in Tables'
    <2>1. Range(imm) # NoFile
      BY <1>9, Fields
    <2> QED
      BY <1>5, <1>9, <2>1 DEF Tables
  <1>25. FlushInv'
    BY <1>2, <1>3, <1>5, <1>7, <1>24 DEF FlushInv
  <1>26. CompactionInv'
    <2>1. compaction # Nothing =>
             /\ compaction.output \in Tables /\ compaction.output \in pending_outputs
             /\ compaction.output \notin live /\ compaction.output < next_file_number
             /\ \A k \in LastEdits : compaction.output \notin VersionAt(k)
      BY <1>1, <1>3 DEF CompactionInv
    <2>2. compaction # Nothing => compaction.output \notin version
      BY <1>5, <1>13, <1>15, <2>1
    <2> QED
      BY <1>3, <1>5, <1>23, <1>24, <2>1, <2>2 DEF CompactionInv
  <1>27. EditInv'
    BY <1>2, <1>3, <1>4, <1>6, <1>7, <1>9, <1>23 DEF EditInv
  <1>28. ObsoleteInv'
    <2>1. obsolete = NoObsolete
      BY <1>1, <1>3 DEF ObsoleteInv
    <2> QED
      BY <1>3, <2>1 DEF ObsoleteInv, NoObsolete
  <1>29. QuietInv' /\ OpeningInv'
    BY <1>1, <1>3, <1>4 DEF QuietInv, OpeningInv
  <1> QED
    BY <1>23, <1>25, <1>26, <1>27, <1>28, <1>29

LEMMA InstallStep ==
    ASSUME RInv, InstallCompactionResults
    PROVE  BoundInv' /\ DiskInv' /\ QuietInv' /\ OpeningInv' /\ RunningInv'
              /\ FlushInv' /\ CompactionInv' /\ EditInv' /\ ObsoleteInv'
  <1>1. TypeOK /\ QuietInv /\ RunningInv /\ CompactionInv
    BY DEF RInv
  <1>2. PICK t, inputs, e, L :
           /\ t = compaction.output /\ inputs = compaction.inputs
           /\ e = Edit(log_number, {compaction.output}, compaction.inputs)
           /\ L = Len(CurrentEdits)
    OBVIOUS
  <1>3. /\ phase = "open" /\ obsolete = NoObsolete /\ edit = Nothing /\ flushing = Nothing
        /\ compaction # Nothing
        /\ tables' = [tables EXCEPT ![t] = IF @ = NoFile THEN NoFile ELSE InTable(inputs)]
        /\ edit' = [by |-> "compaction", edit |-> e]
        /\ AppendEdit(edit'.edit)
        /\ UNCHANGED <<logs, current, phase, pending_outputs, obsolete, flushing, compaction,
                       bg_error>>
        /\ UNCHANGED <<log_number, next_file_number, last_sequence, manifest_file_number, live,
                       mem, imm, has_imm, writing, logfile_number,
                       todo, recovered, save_manifest, reuse, written, promised, firm>>
    BY <1>2 DEF InstallCompactionResults, Ready, InTable, versionVars, writeVars, openVars,
                historyVars
  <1>4. /\ current = manifest_file_number /\ current \in Manifests
        /\ current # NoFile /\ logfile_number \in Logs
    BY <1>1, <1>3, InUse DEF RunningInv
  <1>5. /\ t \in Tables /\ t \in pending_outputs /\ t \notin live /\ t < next_file_number
        /\ t \in Numbers /\ t \in Nat /\ inputs \subseteq live /\ inputs \subseteq Numbers
        /\ \A k \in LastEdits : t \notin VersionAt(k)
    BY <1>1, <1>2, <1>3, Fields, Parameters DEF CompactionInv, TypeOK
  <1>6. /\ e \in Edits /\ e.log = log_number /\ e.next = next_file_number
        /\ e.last = last_sequence /\ e.added = {t} /\ e.removed = inputs
    <2>1. {t} \in SUBSET Numbers /\ inputs \in SUBSET Numbers /\ log_number \in 0..MaxNumber
      BY <1>1, <1>5 DEF TypeOK
    <2>2. e \in Edits
      BY <1>2, <1>3, <2>1, EditTypes
    <2> QED
      BY <1>2, <2>2 DEF Edit
  <1>7. edit' \in PendingEdits /\ edit' # Nothing /\ edit'.by = "compaction" /\ edit'.edit = e
    <2>1. edit' \in PendingEdits
      BY <1>3, <1>6 DEF PendingEdits
    <2> QED
      BY <1>3, <2>1, Fields
  <1>8. AppendEdit(e)
    BY <1>3, <1>7
  <1>9. InTable(inputs) \in SUBSET Records /\ InTable(inputs) \subseteq InTable(live)
    <2>1. \A n \in live : tables[n] \in SUBSET Records
      BY <1>1, <1>3, TableFacts DEF RunningInv, TypeOK
    <2> QED
      BY <1>5, <2>1 DEF InTable
  <1>10. /\ tables'[t] = InTable(inputs) /\ \A m \in Numbers \ {t} : tables'[m] = tables[m]
    <2>1. tables[t] # NoFile
      BY <1>5 DEF Tables
    <2>2. tables' = [tables EXCEPT ![t] = InTable(inputs)]
      BY <1>1, <1>3, <1>5, <2>1 DEF TypeOK
    <2> QED
      BY <1>1, <1>5, <1>9, <2>2, WriteTable
  <1>11. Complete(t)'
    <2>1. InTable(inputs) # NoFile /\ InTable(inputs) # Partial
      BY <1>9, Fields
    <2> QED
      BY <1>10, <2>1 DEF Complete
  <1>12. \A n \in live : tables'[n] = tables[n]
    BY <1>1, <1>5, <1>10 DEF TypeOK
  <1>13. \A k \in LastEdits : \A n \in VersionAt(k) : tables'[n] = tables[n]
    BY <1>4, <1>5, <1>10, EditsFacts
  <1>14. /\ L \in LastEdits /\ Recoverable(L) /\ VersionAt(L) \subseteq Numbers
         /\ CurrentEdits[L].next <= next_file_number /\ CurrentEdits[L].next \in Nat
         /\ InTable(live) \subseteq InTable(VersionAt(L))
         /\ InTable(VersionAt(L)) \subseteq Visible
         /\ log_number <= CurrentEdits[L].log /\ CurrentEdits[L].log \in Nat
    BY <1>1, <1>2, <1>3, <1>4, EditsFacts, SeenFacts DEF RunningInv
  <1>15. PICK version : version = SaveTo(VersionAt(L), e)
    OBVIOUS
  <1>16. version = (VersionAt(L) \ inputs) \cup {t}
    BY <1>6, <1>15 DEF SaveTo
  <1>17. \A n \in version : Complete(n)' /\ n < next_file_number
    <2>1. \A n \in VersionAt(L) : Complete(n)'
      BY <1>13, <1>14 DEF Recoverable, Complete
    <2>2. \A n \in VersionAt(L) : n < next_file_number
      <3>1. \A n \in VersionAt(L) : n \in Nat /\ n < CurrentEdits[L].next
        BY <1>14, Parameters DEF Recoverable
      <3> QED
        BY <1>3, <1>14, <3>1, SeenFacts
    <2> QED
      BY <1>5, <1>11, <1>16, <2>1, <2>2
  <1>18. InTable(version)' = InTable(VersionAt(L) \ inputs) \cup InTable(inputs)
    BY <1>10, <1>13, <1>14, <1>16 DEF InTable
  <1>19. InTable(VersionAt(L)) \subseteq InTable(version)'
    <2>1. InTable(VersionAt(L)) \subseteq InTable(VersionAt(L) \ inputs) \cup InTable(inputs)
      BY DEF InTable
    <2> QED
      BY <1>18, <2>1
  <1>20. InTable(version)' \subseteq Visible
    <2>1. InTable(VersionAt(L) \ inputs) \subseteq InTable(VersionAt(L))
      BY DEF InTable
    <2>2. InTable(live) \subseteq Visible
      BY DEF InTable, Visible
    <2> QED
      BY <1>9, <1>14, <1>18, <2>1, <2>2
  <1>21. PICK F, G : F = LogsToRecover(CurrentEdits[L].log) /\ G = LogsToRecover(e.log)
    OBVIOUS
  <1>22. F \subseteq G
    <2>1. \A n \in F : n \in Logs /\ n \in Nat /\ n >= CurrentEdits[L].log
      BY <1>21, Parameters DEF LogsToRecover, Logs
    <2>2. log_number \in Nat
      BY <1>3, SeenFacts
    <2>3. \A n \in F : n >= log_number
      BY <1>14, <2>1, <2>2
    <2> QED
      BY <1>6, <1>21, <2>1, <2>3 DEF LogsToRecover
  <1>23. /\ promised \subseteq IdsOf(InTable(version)' \cup InLogs(G))
         /\ firm \subseteq IdsOf(InTable(version)' \cup SyncedInLogs(G))
    <2>1. /\ promised \subseteq IdsOf(InTable(VersionAt(L)) \cup InLogs(F))
          /\ firm \subseteq IdsOf(InTable(VersionAt(L)) \cup SyncedInLogs(F))
      BY <1>14, <1>21 DEF Recoverable, Found, FoundSynced
    <2>2. InLogs(F) \subseteq InLogs(G) /\ SyncedInLogs(F) \subseteq SyncedInLogs(G)
      BY <1>22 DEF InLogs, SyncedInLogs
    <2>3. InTable(VersionAt(L)) \cup InLogs(F) \subseteq InTable(version)' \cup InLogs(G)
      BY <1>19, <2>2
    <2>4. InTable(VersionAt(L)) \cup SyncedInLogs(F)
             \subseteq InTable(version)' \cup SyncedInLogs(G)
      BY <1>19, <2>2
    <2> QED
      BY <2>1, <2>3, <2>4, FewerRecords
  <1>24. /\ promised \subseteq IdsOf(InTable(version)' \cup InLogs(LogsToRecover(e.log)))
         /\ firm \subseteq IdsOf(InTable(version)' \cup SyncedInLogs(LogsToRecover(e.log)))
         /\ InTable(live) \subseteq InTable(version)'
    BY <1>14, <1>19, <1>21, <1>23
  <1>25. e.log <= logfile_number /\ log_number <= e.log
    BY <1>1, <1>3, <1>6, SeenFacts DEF RunningInv
  <1>26. /\ BoundInv' /\ DiskInv' /\ RunningInv'
         /\ LastEdits' = LastEdits \cup {L + 1} /\ Len(CurrentEdits)' = L + 1
         /\ CurrentEdits'[L + 1] = e /\ manifests'[current].synced < L + 1
    <2>1. UNCHANGED <<logs, current, phase, mem, imm, has_imm, writing, logfile_number,
                      log_number, next_file_number, last_sequence, manifest_file_number, live,
                      bg_error, written, promised, firm>>
      BY <1>3
    <2>2. edit = Nothing /\ phase = "open" /\ edit' # Nothing
      BY <1>3, <1>7
    <2> QED
      BY <2>1, <2>2, <1>2, <1>6, <1>8, <1>12, <1>13, <1>15, <1>17, <1>20, <1>24, <1>25,
         EditWritten
  <1>27. t \in Tables'
    BY <1>5, <1>9, <1>10, Fields DEF Tables
  <1>28. FlushInv' /\ CompactionInv'
    BY <1>2, <1>3, <1>5, <1>7, <1>27 DEF FlushInv, CompactionInv
  <1>29. EditInv'
    <2>1. tables'[t] = InTable(compaction.inputs)'
      <3>1. \A n \in inputs : tables'[n] = tables[n]
        BY <1>5, <1>12
      <3>2. InTable(inputs)' = InTable(inputs)
        BY <3>1 DEF InTable
      <3>3. InTable(compaction.inputs)' = InTable(inputs)'
        BY <1>2, <1>3 DEF InTable
      <3> QED
        BY <1>10, <3>2, <3>3
    <2>2. /\ edit'.by # "open" /\ edit'.by # "flush" /\ compaction' # Nothing
          /\ flushing' = Nothing /\ phase' # "install"
      BY <1>3, <1>7
    <2>3. /\ edit'.edit.log = log_number' /\ edit'.edit.added = {compaction'.output}
          /\ edit'.edit.removed = compaction'.inputs /\ compaction'.output = t
      BY <1>2, <1>3, <1>6, <1>7
    <2>4. /\ manifests'[current'].synced < Len(CurrentEdits)'
          /\ CurrentEdits'[Len(CurrentEdits)'] = edit'.edit
      BY <1>3, <1>7, <1>26
    <2> QED
      BY <2>1, <2>2, <2>3, <2>4 DEF EditInv
  <1>30. ObsoleteInv'
    BY <1>3 DEF ObsoleteInv, NoObsolete
  <1>31. QuietInv' /\ OpeningInv'
    BY <1>1, <1>3 DEF QuietInv, OpeningInv
  <1> QED
    BY <1>26, <1>28, <1>29, <1>30, <1>31

\* The record is synced and its version installed: no crash undoes it.
LEMMA EditInstalled ==
    ASSUME RInv, phase = "open", edit # Nothing, edit.by # "open", InstallVersion(edit.edit),
           UNCHANGED <<logs, tables, current, phase, next_file_number, last_sequence,
                       manifest_file_number, mem, writing, logfile_number, bg_error, written,
                       promised>>,
           ~has_imm' => imm' = <<>>, Range(imm') \subseteq Range(imm),
           Range(imm) \subseteq Range(imm') \cup InTable(SaveTo(live, edit.edit)),
           InTable(live) \subseteq InTable(SaveTo(live, edit.edit))
    PROVE  /\ BoundInv' /\ DiskInv' /\ RunningInv'
           /\ LastEdits' \subseteq LastEdits /\ \A k : VersionAt(k)' = VersionAt(k)
  <1>1. TypeOK /\ BoundInv /\ RunningInv /\ EditInv
    BY DEF RInv
  <1>2. PICK e, L, version : /\ e = edit.edit /\ L = Len(CurrentEdits)
                             /\ version = SaveTo(live, edit.edit)
    OBVIOUS
  <1>3. /\ SyncManifest /\ live' = version /\ log_number' = e.log /\ edit' = Nothing
        /\ firm' = firm \cup (promised \cap InTables(version))
    BY <1>2 DEF InstallVersion
  <1>4. /\ current # NoFile /\ current \in Manifests /\ current = manifest_file_number
        /\ logfile_number \in Logs /\ log_number \in Nat /\ logfile_number \in Nat
        /\ next_file_number \in Nat
    BY <1>1, SeenFacts DEF RunningInv
  <1>5. /\ L \in Nat /\ L \in LastEdits /\ L \in 1..L /\ L - 1 \in Nat /\ L - 1 \in LastEdits
        /\ CurrentEdits[L] = e /\ e \in Edits /\ e.log \in Nat /\ e.next \in Nat
        /\ Recoverable(L) /\ VersionAt(L) \subseteq Numbers
    <2>1. /\ manifests[current].synced \in 1..L /\ L \in Nat /\ L \in LastEdits
          /\ \A k \in LastEdits : k \in 1..L /\ CurrentEdits[k] \in Edits /\ Recoverable(k)
                                  /\ VersionAt(k) \subseteq Numbers
      BY <1>2, <1>4, EditsFacts
    <2>2. manifests[current].synced < L /\ CurrentEdits[L] = e
      BY <1>1, <1>2 DEF EditInv
    <2>3. L - 1 \in LastEdits
      BY <1>2, <2>1, <2>2 DEF LastEdits
    <2> QED
      BY <2>1, <2>2, <2>3, Fields, Parameters
  <1>6. VersionAt(L) = SaveTo(VersionAt(L - 1), e)
    <2>1. L - 1 + 1 = L
      BY <1>5
    <2>2. CurrentEdits[L - 1 + 1] \in Edits
      BY <1>5, <2>1
    <2>3. VersionAfter(CurrentEdits, L - 1 + 1)
             = SaveTo(VersionAfter(CurrentEdits, L - 1), CurrentEdits[L - 1 + 1])
      BY <1>5, <2>2, NextVersion
    <2> QED
      BY <1>5, <2>1, <2>3 DEF VersionAt
  <1>7. /\ CurrentEdits' = CurrentEdits /\ LastEdits' = {L}
        /\ \A k : VersionAt(k)' = VersionAt(k)
        /\ manifests'[current].synced = L
    BY <1>2, <1>3, <1>4, SyncedVersions
  <1>8. e.added \subseteq VersionAt(L) /\ version = (live \ e.removed) \cup e.added
    BY <1>2, <1>6 DEF SaveTo
  <1>9. /\ log_number <= e.log /\ e.log <= logfile_number /\ e.next <= next_file_number
        /\ InTable(live) \subseteq InTable(VersionAt(L)) /\ InTable(VersionAt(L)) \subseteq Visible
        /\ ~bg_error => VersionAt(L - 1) \subseteq live
    <2>1. L - 1 < L
      BY <1>5
    <2> QED
      BY <1>1, <1>2, <1>5, <2>1 DEF RunningInv
  <1>10. InTable(version) \subseteq InTable(VersionAt(L)) /\ InTable(live) \subseteq InTable(version)
    <2>1. InTable(version) \subseteq InTable(live) \cup InTable(e.added)
      BY <1>8 DEF InTable
    <2>2. InTable(e.added) \subseteq InTable(VersionAt(L))
      BY <1>8 DEF InTable
    <2> QED
      BY <1>2, <1>9, <2>1, <2>2
  <1>11. InTable(live)' = InTable(version)
    BY <1>3 DEF InTable
  <1>12. Visible' = Visible /\ Seen' = Seen
    <2>1. /\ Visible' = Range(mem) \cup Range(imm') \cup InTable(version)
          /\ Visible = Range(mem) \cup Range(imm) \cup InTable(live)
      BY <1>11 DEF Visible, InTable
    <2>2. Range(imm) \subseteq Range(imm') \cup InTable(version)
      BY <1>2
    <2>3. Visible \subseteq Visible'
      BY <1>10, <2>1, <2>2
    <2>4. Visible' \subseteq Visible
      BY <1>9, <1>10, <2>1
    <2>5. Visible' = Visible
      BY <2>3, <2>4
    <2> QED
      BY <2>5 DEF Seen
  <1>13. /\ \A n : InLog(n)' = InLog(n) /\ SyncedInLog(n)' = SyncedInLog(n)
         /\ Logs' = Logs /\ \A l : LogsToRecover(l)' = LogsToRecover(l)
         /\ \A F : InLogs(F)' = InLogs(F) /\ SyncedInLogs(F)' = SyncedInLogs(F)
         /\ \A n : Complete(n)' = Complete(n)
         /\ InTable(VersionAt(L))' = InTable(VersionAt(L))
    BY <1>7 DEF InLog, SyncedInLog, Logs, LogsToRecover, InLogs, SyncedInLogs, Complete, InTable
  <1>14. BoundInv'
    <2>1. Manifests' = Manifests /\ \A m \in Manifests : manifests'[m].records = manifests[m].records
      BY <1>1, <1>3, <1>4, SyncTheManifest
    <2> QED
      BY <1>1, <1>13, <2>1 DEF BoundInv
  <1>15. firm' \subseteq firm \cup IdsOf(InTable(version))
    BY <1>3 DEF InTables, InTable, IdsOf
  <1>16. DiskInv'
    <2>1. /\ \A n \in VersionAt(L) : Complete(n) /\ n < e.next
          /\ e.log < e.next /\ current < e.next
          /\ \A j \in L..Len(CurrentEdits) : e.next <= CurrentEdits[j].next
          /\ \A r \in InTable(VersionAt(L)) : r.seq <= e.last
          /\ promised \subseteq IdsOf(Found(L))
          /\ firm \subseteq IdsOf(FoundSynced(L))
          /\ DistinctSequences(Found(L))
      BY <1>5 DEF Recoverable
    <2>2. Found(L)' = Found(L) /\ FoundSynced(L)' = FoundSynced(L)
      BY <1>7, <1>13 DEF Found, FoundSynced
    <2>3. firm' \subseteq IdsOf(FoundSynced(L))
      <3>1. InTable(version) \subseteq FoundSynced(L)
        BY <1>10 DEF FoundSynced
      <3>2. IdsOf(InTable(version)) \subseteq IdsOf(FoundSynced(L))
        BY <3>1, FewerRecords
      <3> QED
        BY <1>15, <2>1, <3>2
    <2>4. Recoverable(L)'
      <3>1. /\ \A n \in VersionAt(L)' : Complete(n)' /\ n < CurrentEdits'[L].next
            /\ \A r \in InTable(VersionAt(L))' : r.seq <= CurrentEdits'[L].last
        BY <1>5, <1>7, <1>13, <2>1
      <3>2. /\ CurrentEdits'[L].log < CurrentEdits'[L].next /\ current' < CurrentEdits'[L].next
            /\ \A j \in L..Len(CurrentEdits') : CurrentEdits'[L].next <= CurrentEdits'[j].next
        BY <1>5, <1>7, <2>1
      <3>3. /\ promised' \subseteq IdsOf(Found(L)') /\ firm' \subseteq IdsOf(FoundSynced(L)')
            /\ DistinctSequences(Found(L)')
        BY <2>1, <2>2, <2>3
      <3> QED
        BY <3>1, <3>2, <3>3 DEF Recoverable, IdsOf, DistinctSequences
    <2> QED
      BY <1>4, <1>5, <1>7, <2>4 DEF DiskInv
  <1>17. RunningInv'
    <2>1. PICK l \in Logs : l = logfile_number
      BY <1>4
    <2>2. InLog(l)' = Range(mem') \cup (IF writing' = Nothing THEN {} ELSE {writing'.record})
      BY <1>1, <1>13, <2>1 DEF RunningInv
    <2>3. firm' \subseteq IdsOf(SyncedInLog(l)' \cup Range(imm') \cup InTable(live)')
      <3>1. SyncedInLog(l) \cup Range(imm) \cup InTable(live)
               \subseteq SyncedInLog(l) \cup Range(imm') \cup InTable(version)
        BY <1>2, <1>10
      <3>2. firm \subseteq IdsOf(SyncedInLog(l) \cup Range(imm) \cup InTable(live))
        BY <1>1, <2>1 DEF RunningInv
      <3>3. firm \subseteq IdsOf(SyncedInLog(l) \cup Range(imm') \cup InTable(version))
        BY <3>1, <3>2, FewerRecords
      <3>4. IdsOf(InTable(version))
               \subseteq IdsOf(SyncedInLog(l) \cup Range(imm') \cup InTable(version))
        BY FewerRecords
      <3> QED
        BY <1>11, <1>13, <1>15, <3>3, <3>4
    <2>4. /\ promised' \subseteq IdsOf(Visible') /\ DistinctSequences(Visible')
          /\ \A r \in Visible' : r.seq <= last_sequence'
          /\ writing' # Nothing => writing'.record.seq = last_sequence' + 1
      BY <1>1, <1>12 DEF RunningInv
    <2>5. \A n \in Logs' : n >= log_number' => InLog(n)' \subseteq Seen'
      <3>1. \A n \in Logs : n \in Nat /\ (n >= log_number => InLog(n) \subseteq Seen)
        BY <1>1, Parameters DEF RunningInv, Logs
      <3>2. \A n \in Logs : n >= e.log => n >= log_number
        <4>1. log_number \in Nat /\ e.log \in Nat /\ log_number <= e.log
          BY <1>4, <1>5, <1>9
        <4> QED
          BY <3>1, <4>1
      <3> QED
        BY <1>3, <1>12, <1>13, <3>1, <3>2
    <2>6. \A n \in version : Complete(n)' /\ n < next_file_number
      <3>1. \A n \in live : Complete(n) /\ n < next_file_number
        BY <1>1 DEF RunningInv
      <3>2. \A n \in VersionAt(L) : Complete(n) /\ n < e.next /\ n \in Nat
        BY <1>5, Parameters DEF Recoverable
      <3>3. \A n \in VersionAt(L) : n < next_file_number
        BY <1>4, <1>5, <1>9, <3>2
      <3> QED
        BY <1>8, <1>13, <3>1, <3>2, <3>3
    <2>7. /\ current' = manifest_file_number' /\ current' # NoFile
          /\ log_number' <= logfile_number' /\ logfile_number' < next_file_number'
          /\ logfile_number' \in Logs' /\ \A n \in Logs' : n <= logfile_number'
      BY <1>1, <1>3, <1>9, <1>13 DEF RunningInv
    <2>8. ~bg_error => VersionAt(L) \subseteq version
      BY <1>6, <1>8, <1>9 DEF SaveTo
    <2>9. \A k \in LastEdits' :
            /\ log_number' <= CurrentEdits'[k].log /\ CurrentEdits'[k].log <= logfile_number'
            /\ CurrentEdits'[k].next <= next_file_number'
            /\ InTable(live)' \subseteq InTable(VersionAt(k))'
            /\ InTable(VersionAt(k))' \subseteq Visible'
            /\ ~bg_error' /\ (edit' = Nothing \/ k < Len(CurrentEdits')) =>
                  VersionAt(k)' \subseteq live'
      <3>1. e.log <= e.log
        BY <1>5
      <3> QED
        BY <1>3, <1>5, <1>7, <1>9, <1>10, <1>11, <1>12, <1>13, <2>8, <3>1
    <2> QED
      BY <1>3, <2>1, <2>2, <2>3, <2>4, <2>5, <2>6, <2>7, <2>9
         DEF RunningInv, IdsOf, DistinctSequences
  <1> QED
    BY <1>5, <1>7, <1>14, <1>16, <1>17

\* What RemoveObsoleteFiles finds is not in the version.
LEMMA ObsoleteFound ==
    ASSUME edit' = Nothing, flushing' = Nothing,
           \/ obsolete' = NoObsolete
           \/ /\ obsolete' = FindObsolete(live', log_number', manifest_file_number, pending_outputs')
              /\ ~bg_error' /\ UNCHANGED manifest_file_number
    PROVE  ObsoleteInv'
  BY DEF ObsoleteInv, NoObsolete, FindObsolete

LEMMA FinishFlushStep ==
    ASSUME RInv, FinishFlush
    PROVE  BoundInv' /\ DiskInv' /\ QuietInv' /\ OpeningInv' /\ RunningInv'
              /\ FlushInv' /\ CompactionInv' /\ EditInv' /\ ObsoleteInv'
  <1>1. TypeOK /\ QuietInv /\ CompactionInv /\ EditInv /\ FlushInv
    BY DEF RInv
  <1>2. /\ edit # Nothing /\ edit.by = "flush" /\ InstallVersion(edit.edit)
        /\ imm' = <<>> /\ has_imm' = FALSE /\ flushing' = Nothing
        /\ obsolete' = IF bg_error THEN NoObsolete
                       ELSE FindObsolete(live', log_number', manifest_file_number, pending_outputs)
        /\ UNCHANGED <<logs, tables, current, phase, next_file_number, last_sequence,
                       manifest_file_number, mem, writing, logfile_number, pending_outputs,
                       compaction, bg_error, openVars, written, promised>>
    BY DEF FinishFlush
  <1>3. phase = "open"
    BY <1>1, <1>2, InUse DEF EditInv
  <1>4. /\ flushing # Nothing /\ tables[flushing] = Range(imm)
        /\ edit.edit.added = {flushing} /\ edit.edit.removed = {}
    BY <1>1, <1>2 DEF EditInv
  <1>5. PICK version : version = SaveTo(live, edit.edit)
    OBVIOUS
  <1>6. version = live \cup {flushing}
    BY <1>4, <1>5 DEF SaveTo
  <1>7. /\ Range(imm') = {} /\ Range(imm) \subseteq InTable(version)
        /\ InTable(live) \subseteq InTable(version)
    <2>1. Range(<<>>) = {}
      BY DEF Range
    <2> QED
      BY <1>2, <1>4, <1>6, <2>1 DEF InTable
  <1>8. /\ BoundInv' /\ DiskInv' /\ RunningInv'
        /\ LastEdits' \subseteq LastEdits /\ \A k : VersionAt(k)' = VersionAt(k)
    <2>1. Range(imm') \subseteq Range(imm)
      BY <1>7
    <2>2. Range(imm) \subseteq Range(imm') \cup InTable(SaveTo(live, edit.edit))
      BY <1>5, <1>7
    <2>3. InTable(live) \subseteq InTable(SaveTo(live, edit.edit))
      BY <1>5, <1>7
    <2>4. edit.by # "open"
      BY <1>2
    <2>5. UNCHANGED <<logs, tables, current, phase, next_file_number, last_sequence,
                      manifest_file_number, mem, writing, logfile_number, bg_error, written,
                      promised>>
      BY <1>2
    <2> QED
      BY <1>2, <1>3, <2>1, <2>2, <2>3, <2>4, <2>5, EditInstalled
  <1>9. edit' = Nothing /\ live' = version
    BY <1>2, <1>5 DEF InstallVersion
  <1>10. CompactionInv'
    <2>1. compaction # Nothing =>
             /\ compaction.output \in Tables /\ compaction.output \in pending_outputs
             /\ compaction.output \notin live /\ compaction.output < next_file_number
             /\ \A k \in LastEdits : compaction.output \notin VersionAt(k)
             /\ compaction.output # flushing
      BY <1>1, <1>2, <1>4 DEF CompactionInv, FlushInv
    <2>2. Tables' = Tables
      BY <1>2 DEF Tables
    <2> QED
      BY <1>2, <1>6, <1>8, <1>9, <2>1, <2>2 DEF CompactionInv
  <1>11. FlushInv' /\ EditInv'
    BY <1>2, <1>9 DEF FlushInv, EditInv
  <1>12. ObsoleteInv'
    BY <1>2, <1>9, ObsoleteFound
  <1>13. QuietInv' /\ OpeningInv'
    BY <1>1, <1>2, <1>3 DEF QuietInv, OpeningInv, openVars
  <1> QED
    BY <1>8, <1>10, <1>11, <1>12, <1>13

LEMMA FinishCompactionStep ==
    ASSUME RInv, FinishCompaction
    PROVE  BoundInv' /\ DiskInv' /\ QuietInv' /\ OpeningInv' /\ RunningInv'
              /\ FlushInv' /\ CompactionInv' /\ EditInv' /\ ObsoleteInv'
  <1>1. TypeOK /\ QuietInv /\ RunningInv /\ EditInv
    BY DEF RInv
  <1>2. /\ edit # Nothing /\ edit.by = "compaction" /\ InstallVersion(edit.edit)
        /\ compaction' = Nothing
        /\ obsolete' = IF bg_error THEN NoObsolete
                       ELSE FindObsolete(live', log_number', manifest_file_number, pending_outputs')
        /\ UNCHANGED <<logs, tables, current, phase, next_file_number, last_sequence,
                       manifest_file_number, mem, imm, has_imm, writing, logfile_number,
                       flushing, bg_error, openVars, written, promised>>
    BY DEF FinishCompaction, writeVars
  <1>3. phase = "open"
    BY <1>1, <1>2, InUse DEF EditInv
  <1>4. /\ flushing = Nothing /\ tables[compaction.output] = InTable(compaction.inputs)
        /\ edit.edit.added = {compaction.output} /\ edit.edit.removed = compaction.inputs
    BY <1>1, <1>2 DEF EditInv
  <1>5. PICK version, t, inputs : /\ version = SaveTo(live, edit.edit)
                                  /\ t = compaction.output /\ inputs = compaction.inputs
    OBVIOUS
  <1>6. version = (live \ inputs) \cup {t} /\ tables[t] = InTable(inputs)
    BY <1>4, <1>5 DEF SaveTo
  <1>7. InTable(live) \subseteq InTable(version)
    <2>1. InTable(live) \subseteq InTable(live \ inputs) \cup InTable(inputs)
      BY DEF InTable
    <2>2. InTable(version) = InTable(live \ inputs) \cup InTable(inputs)
      BY <1>6 DEF InTable
    <2> QED
      BY <2>1, <2>2
  <1>8. BoundInv' /\ DiskInv' /\ RunningInv'
    <2>1. ~has_imm' => imm' = <<>>
      BY <1>1, <1>2, <1>3 DEF RunningInv
    <2>2. /\ Range(imm') \subseteq Range(imm)
          /\ Range(imm) \subseteq Range(imm') \cup InTable(SaveTo(live, edit.edit))
      BY <1>2
    <2>3. InTable(live) \subseteq InTable(SaveTo(live, edit.edit))
      BY <1>5, <1>7
    <2>4. edit.by # "open"
      BY <1>2
    <2>5. UNCHANGED <<logs, tables, current, phase, next_file_number, last_sequence,
                      manifest_file_number, mem, writing, logfile_number, bg_error, written,
                      promised>>
      BY <1>2
    <2> QED
      BY <1>2, <1>3, <2>1, <2>2, <2>3, <2>4, <2>5, EditInstalled
  <1>9. edit' = Nothing
    BY <1>2 DEF InstallVersion
  <1>10. FlushInv' /\ CompactionInv' /\ EditInv'
    BY <1>2, <1>4, <1>9 DEF FlushInv, CompactionInv, EditInv
  <1>11. ObsoleteInv'
    BY <1>2, <1>4, <1>9, ObsoleteFound
  <1>12. QuietInv' /\ OpeningInv'
    BY <1>1, <1>2, <1>3 DEF QuietInv, OpeningInv, openVars
  <1> QED
    BY <1>8, <1>10, <1>11, <1>12

\* The last record of the MANIFEST is lost.
LEMMA ShortenedVersions ==
    ASSUME RInv, current # NoFile, NEW L, L = Len(CurrentEdits),
           manifests[current].synced < L, UNCHANGED current,
           manifests' = [manifests EXCEPT ![current].records = Front(@)]
    PROVE  /\ Len(CurrentEdits)' = L - 1
           /\ manifests'[current].synced = manifests[current].synced
           /\ LastEdits' \subseteq LastEdits
           /\ \A k \in 1..(L - 1) : CurrentEdits'[k] = CurrentEdits[k] /\ VersionAt(k)' = VersionAt(k)
           /\ Manifests' = Manifests
           /\ \A m \in Numbers \ {current} : manifests'[m] = manifests[m]
  <1>1. /\ current \in Manifests /\ CurrentEdits \in Seq(Edits) /\ L \in Nat
        /\ manifests[current].synced \in 1..L /\ TypeOK
        /\ current \in Numbers /\ manifests[current] \in ManifestFiles
    BY EditsFacts, ManifestFacts DEF RInv
  <1>2. /\ Front(CurrentEdits) \in Seq(Edits) /\ Len(Front(CurrentEdits)) = L - 1
        /\ \A i \in 1..(L - 1) : Front(CurrentEdits)[i] = CurrentEdits[i]
    <2>1. CurrentEdits # <<>>
      BY <1>1
    <2> QED
      BY <1>1, <2>1, MembersOfFront
  <1>3. PICK f : f = [manifests[current] EXCEPT !.records = Front(CurrentEdits)]
    OBVIOUS
  <1>4. /\ f \in ManifestFiles /\ f.records = Front(CurrentEdits)
        /\ f.synced = manifests[current].synced
    BY <1>1, <1>2, <1>3 DEF ManifestFiles
  <1>5. manifests' = [manifests EXCEPT ![current] = f]
    BY <1>1, <1>3 DEF CurrentEdits, TypeOK
  <1>6. /\ Manifests' = Manifests /\ manifests'[current] = f
        /\ \A m \in Numbers \ {current} : manifests'[m] = manifests[m]
    <2>1. PICK n : n = current
      OBVIOUS
    <2>2. /\ Manifests' = Manifests \cup {n} /\ manifests'[n] = f
          /\ \A m \in Numbers \ {n} : manifests'[m] = manifests[m]
      BY <1>1, <1>4, <1>5, <2>1, NewManifest
    <2> QED
      BY <1>1, <2>1, <2>2
  <1>7. CurrentEdits' = Front(CurrentEdits) /\ Len(CurrentEdits)' = L - 1
    BY <1>2, <1>4, <1>6 DEF CurrentEdits
  <1>8. LastEdits' \subseteq LastEdits
    <2>1. LastEdits' = manifests[current].synced..(L - 1)
      BY <1>4, <1>6, <1>7 DEF LastEdits
    <2>2. manifests[current].synced..(L - 1) \subseteq manifests[current].synced..L
      BY <1>1
    <2> QED
      BY <2>1, <2>2 DEF LastEdits
  <1>9. ASSUME NEW k \in 1..(L - 1)
        PROVE  CurrentEdits'[k] = CurrentEdits[k] /\ VersionAt(k)' = VersionAt(k)
    <2>1. k \in Nat /\ \A i \in 1..k : CurrentEdits'[i] = CurrentEdits[i]
      BY <1>1, <1>2, <1>7
    <2>2. VersionAfter(CurrentEdits', k) = VersionAfter(CurrentEdits, k)
      BY <2>1, VersionsAgree
    <2> QED
      BY <1>2, <1>7, <2>2 DEF VersionAt
  <1> QED
    BY <1>4, <1>6, <1>7, <1>8, <1>9

LEMMA EditFailsStep ==
    ASSUME RInv, LogAndApplyFails
    PROVE  BoundInv' /\ DiskInv' /\ QuietInv' /\ OpeningInv' /\ RunningInv'
              /\ FlushInv' /\ CompactionInv' /\ EditInv' /\ ObsoleteInv'
  <1>1. /\ TypeOK /\ BoundInv /\ QuietInv /\ RunningInv /\ FlushInv /\ CompactionInv /\ EditInv
        /\ ObsoleteInv
    BY DEF RInv
  <1>2. /\ phase = "open" /\ edit # Nothing /\ bg_error' = TRUE /\ edit' = Nothing
        /\ IF edit.by = "flush"
           THEN flushing' = Nothing /\ UNCHANGED <<compaction, pending_outputs>>
           ELSE compaction' = Nothing /\ UNCHANGED flushing
        /\ UNCHANGED manifests
              \/ manifests' = [manifests EXCEPT ![manifest_file_number].records = Front(@)]
        /\ pending_outputs' \subseteq pending_outputs
        /\ UNCHANGED <<logs, tables, current, phase, obsolete>>
        /\ UNCHANGED <<log_number, next_file_number, last_sequence, manifest_file_number, live,
                       mem, imm, has_imm, writing, logfile_number,
                       todo, recovered, save_manifest, reuse, written, promised, firm>>
    BY DEF LogAndApplyFails, versionVars, writeVars, openVars
  <1>3. PICK L, s : L = Len(CurrentEdits) /\ s = manifests[current].synced
    OBVIOUS
  <1>4. /\ current # NoFile /\ current \in Manifests /\ current = manifest_file_number
        /\ s \in 1..L /\ L \in Nat /\ s < L /\ edit.by # "open" /\ obsolete = NoObsolete
        /\ \A k \in LastEdits : k \in 1..L /\ Recoverable(k)
        /\ current \in Numbers
    <2>1. /\ current # NoFile /\ current = manifest_file_number
      BY <1>1, <1>2 DEF RunningInv
    <2>2. edit.by # "open"
      BY <1>1, <1>2 DEF EditInv
    <2> QED
      BY <1>1, <1>2, <1>3, <2>1, <2>2, EditsFacts DEF EditInv, ObsoleteInv
  <1>5. /\ LastEdits' \subseteq LastEdits /\ LastEdits' = s..Len(CurrentEdits)'
        /\ Len(CurrentEdits)' \in {L - 1, L} /\ manifests'[current].synced = s
        /\ \A k \in 1..Len(CurrentEdits)' :
              CurrentEdits'[k] = CurrentEdits[k] /\ VersionAt(k)' = VersionAt(k)
        /\ Manifests' = Manifests
        /\ \A m \in Numbers \ {current} : manifests'[m] = manifests[m]
    <2>1. CASE UNCHANGED manifests
      <3>1. CurrentEdits' = CurrentEdits /\ LastEdits' = LastEdits
        BY <1>2, <2>1 DEF CurrentEdits, LastEdits
      <3>2. \A k : VersionAt(k)' = VersionAt(k)
        BY <3>1 DEF VersionAt
      <3> QED
        BY <1>2, <1>3, <2>1, <3>1, <3>2 DEF Manifests, LastEdits
    <2>2. CASE manifests' = [manifests EXCEPT ![manifest_file_number].records = Front(@)]
      <3>1. manifests' = [manifests EXCEPT ![current].records = Front(@)]
        BY <1>4, <2>2
      <3>2. /\ Len(CurrentEdits)' = L - 1 /\ manifests'[current].synced = s
            /\ LastEdits' \subseteq LastEdits
            /\ \A k \in 1..(L - 1) : CurrentEdits'[k] = CurrentEdits[k] /\ VersionAt(k)' = VersionAt(k)
            /\ Manifests' = Manifests
            /\ \A m \in Numbers \ {current} : manifests'[m] = manifests[m]
        BY <1>2, <1>3, <1>4, <3>1, ShortenedVersions
      <3> QED
        BY <1>2, <3>2 DEF LastEdits
    <2> QED
      BY <1>2, <2>1, <2>2
  <1>6. /\ \A n : InLog(n)' = InLog(n) /\ SyncedInLog(n)' = SyncedInLog(n)
        /\ Logs' = Logs /\ \A l : LogsToRecover(l)' = LogsToRecover(l)
        /\ \A F : InLogs(F)' = InLogs(F) /\ SyncedInLogs(F)' = SyncedInLogs(F)
        /\ \A n : Complete(n)' = Complete(n) /\ Tables' = Tables
        /\ \A V : InTable(V)' = InTable(V)
    BY <1>2 DEF InLog, SyncedInLog, Logs, LogsToRecover, InLogs, SyncedInLogs, Complete, InTable,
                Tables
  <1>7. ASSUME NEW k \in LastEdits'
        PROVE  /\ k \in LastEdits /\ CurrentEdits'[k] = CurrentEdits[k]
               /\ VersionAt(k)' = VersionAt(k) /\ InTable(VersionAt(k))' = InTable(VersionAt(k))
    <2>1. k \in LastEdits /\ k \in 1..Len(CurrentEdits)'
      BY <1>4, <1>5
    <2>2. VersionAt(k)' = VersionAt(k)
      BY <1>5, <2>1
    <2>3. InTable(VersionAt(k))' = InTable(VersionAt(k))
      BY <1>2, <2>2 DEF InTable
    <2> QED
      BY <1>5, <2>1, <2>2, <2>3
  <1>8. BoundInv'
    <2>1. \A i \in 1..Len(CurrentEdits)' : CurrentEdits'[i].last <= written
      <3>1. \A i \in 1..L : CurrentEdits[i].last <= written
        BY <1>1, <1>3, <1>4 DEF BoundInv, CurrentEdits
      <3>2. \A i \in 1..Len(CurrentEdits)' : i \in 1..L
        BY <1>4, <1>5
      <3> QED
        BY <1>5, <3>1, <3>2
    <2>2. \A m \in Manifests : \A i \in 1..Len(manifests'[m].records) :
             manifests'[m].records[i].last <= written
      <3>1. \A i \in 1..Len(manifests'[current].records) :
               manifests'[current].records[i].last <= written
        BY <1>2, <2>1 DEF CurrentEdits
      <3> QED
        BY <1>1, <1>5, <3>1 DEF BoundInv, Manifests
    <2> QED
      BY <1>1, <1>2, <1>5, <1>6, <2>2 DEF BoundInv
  <1>9. DiskInv'
    <2>1. ASSUME NEW k \in LastEdits'
          PROVE  Recoverable(k)'
      <3>1. /\ Recoverable(k) /\ k \in 1..L /\ CurrentEdits'[k] = CurrentEdits[k]
            /\ VersionAt(k)' = VersionAt(k) /\ InTable(VersionAt(k))' = InTable(VersionAt(k))
        BY <1>4, <1>7
      <3>2. Found(k)' = Found(k) /\ FoundSynced(k)' = FoundSynced(k)
        BY <1>6, <3>1 DEF Found, FoundSynced
      <3>3. \A j \in k..Len(CurrentEdits)' : CurrentEdits'[k].next <= CurrentEdits'[j].next
        <4>1. \A j \in k..Len(CurrentEdits)' : j \in k..L /\ j \in 1..Len(CurrentEdits)'
          BY <1>4, <1>5, <3>1
        <4> QED
          BY <1>3, <1>5, <3>1, <4>1 DEF Recoverable
      <3>4. /\ \A n \in VersionAt(k)' : Complete(n)' /\ n < CurrentEdits'[k].next
            /\ CurrentEdits'[k].log < CurrentEdits'[k].next /\ current' < CurrentEdits'[k].next
            /\ \A r \in InTable(VersionAt(k))' : r.seq <= CurrentEdits'[k].last
        BY <1>2, <1>6, <3>1 DEF Recoverable
      <3>5. /\ promised' \subseteq IdsOf(Found(k)') /\ firm' \subseteq IdsOf(FoundSynced(k)')
            /\ DistinctSequences(Found(k)')
        BY <1>2, <3>1, <3>2 DEF Recoverable
      <3> QED
        BY <3>3, <3>4, <3>5 DEF Recoverable, IdsOf, DistinctSequences
    <2>2. current' # NoFile /\ manifests'[current'].synced >= 1
      BY <1>2, <1>4, <1>5
    <2> QED
      BY <2>1, <2>2 DEF DiskInv
  <1>10. RunningInv'
    <2>1. /\ Visible' = Visible /\ Seen' = Seen
      BY <1>2 DEF Visible, Seen
    <2>2. PICK l \in Logs : l = logfile_number
      BY <1>1, <1>2 DEF RunningInv
    <2>3. /\ InLog(l)' = Range(mem') \cup (IF writing' = Nothing THEN {} ELSE {writing'.record})
          /\ firm' \subseteq IdsOf(SyncedInLog(l)' \cup Range(imm') \cup InTable(live)')
      <3>1. InTable(live)' = InTable(live)
        BY <1>2 DEF InTable
      <3> QED
        BY <1>1, <1>2, <1>6, <2>2, <3>1 DEF RunningInv
    <2>4. /\ promised' \subseteq IdsOf(Visible') /\ DistinctSequences(Visible')
          /\ \A r \in Visible' : r.seq <= last_sequence'
          /\ writing' # Nothing => writing'.record.seq = last_sequence' + 1
          /\ ~has_imm' => imm' = <<>>
      BY <1>1, <1>2, <2>1 DEF RunningInv
    <2>5. /\ \A n \in Logs' : n >= log_number' => InLog(n)' \subseteq Seen'
          /\ \A n \in Logs' : n <= logfile_number' /\ logfile_number' \in Logs'
      BY <1>1, <1>2, <1>6, <2>1 DEF RunningInv
    <2>6. /\ current' = manifest_file_number' /\ current' # NoFile
          /\ \A n \in live' : Complete(n)' /\ n < next_file_number'
          /\ log_number' <= logfile_number' /\ logfile_number' < next_file_number'
      BY <1>1, <1>2, <1>6 DEF RunningInv
    <2>7. \A k \in LastEdits' :
            /\ log_number' <= CurrentEdits'[k].log /\ CurrentEdits'[k].log <= logfile_number'
            /\ CurrentEdits'[k].next <= next_file_number'
            /\ InTable(live)' \subseteq InTable(VersionAt(k))'
            /\ InTable(VersionAt(k))' \subseteq Visible'
            /\ ~bg_error' /\ (edit' = Nothing \/ k < Len(CurrentEdits')) =>
                  VersionAt(k)' \subseteq live'
      <3>1. InTable(live)' = InTable(live)
        BY <1>2 DEF InTable
      <3> QED
        BY <1>1, <1>2, <1>7, <2>1, <3>1 DEF RunningInv
    <2> QED
      BY <1>2, <1>6, <2>2, <2>3, <2>4, <2>5, <2>6, <2>7 DEF RunningInv, IdsOf, DistinctSequences
  <1>11. FlushInv' /\ CompactionInv'
    <2>1. CASE edit.by = "flush"
      <3>1. compaction # Nothing =>
               /\ compaction.output \in Tables /\ compaction.output \in pending_outputs
               /\ compaction.output \notin live /\ compaction.output < next_file_number
               /\ \A k \in LastEdits : compaction.output \notin VersionAt(k)
        BY <1>1, <2>1 DEF CompactionInv
      <3>2. CompactionInv'
        BY <1>2, <1>6, <1>7, <2>1, <3>1 DEF CompactionInv
      <3> QED
        BY <1>2, <2>1, <3>2 DEF FlushInv
    <2>2. CASE edit.by # "flush"
      <3>1. edit.by = "compaction"
        BY <1>2, <1>4, <2>2, InUse, Fields
      <3>2. flushing = Nothing
        BY <1>1, <1>2, <3>1 DEF EditInv
      <3> QED
        BY <1>2, <2>2, <3>2 DEF FlushInv, CompactionInv
    <2> QED
      BY <2>1, <2>2
  <1>12. EditInv' /\ ObsoleteInv'
    BY <1>2, <1>4 DEF EditInv, ObsoleteInv, NoObsolete
  <1>13. QuietInv' /\ OpeningInv'
    BY <1>1, <1>2 DEF QuietInv, OpeningInv
  <1> QED
    BY <1>8, <1>9, <1>10, <1>11, <1>12, <1>13

-----------------------------------------------------------------------------
(* DB::Open.                                                               *)

\* A new database has one edit, and nothing in it.
LEMMA NothingInNewDatabase ==
    ASSUME RInv, CreateDatabase, NEW e, NEW f,
           e = [log |-> 0, next |-> 2, last |-> 0, added |-> {}, removed |-> {}],
           f = [records |-> <<e>>, synced |-> 1]
    PROVE  /\ e \in Edits /\ e.log = 0 /\ e.next = 2 /\ e.last = 0
           /\ f \in ManifestFiles /\ f.records = <<e>> /\ f.synced = 1
           /\ Manifests' = Manifests \cup {1} /\ manifests'[1] = f
           /\ \A m \in Numbers \ {1} : manifests'[m] = manifests[m]
           /\ CurrentEdits' = <<e>> /\ Len(CurrentEdits)' = 1 /\ LastEdits' = {1}
           /\ CurrentEdits'[1] = e /\ VersionAt(1)' = {} /\ Found(1)' = {}
  <1>1. /\ TypeOK /\ Logs = {} /\ UNCHANGED logs
        /\ current' = 1 /\ manifests' = [manifests EXCEPT ![1] = f]
    BY DEF RInv, DiskInv, CreateDatabase
  <1>2. /\ e \in Edits /\ e.log = 0 /\ e.next = 2 /\ e.last = 0 /\ e.added = {}
    <2>1. 0 \in 0..MaxNumber /\ 2 \in 2..(MaxNumber + 1) /\ 0 \in 0..MaxWrites
      BY Parameters
    <2> QED
      BY <2>1 DEF Edits
  <1>3. f \in ManifestFiles /\ f.records = <<e>> /\ f.synced = 1
    <2>1. <<e>> \in Seq(Edits)
      BY <1>2
    <2> QED
      BY <2>1 DEF ManifestFiles
  <1>4. /\ Manifests' = Manifests \cup {1} /\ manifests'[1] = f
        /\ \A m \in Numbers \ {1} : manifests'[m] = manifests[m]
    <2>1. 1 \in Numbers
      BY Parameters
    <2> QED
      BY <1>1, <1>3, <2>1, NewManifest
  <1>5. CurrentEdits' = <<e>> /\ Len(CurrentEdits)' = 1 /\ LastEdits' = {1} /\ CurrentEdits'[1] = e
    <2>1. CurrentEdits' = <<e>> /\ manifests'[current'].synced = 1
      BY <1>1, <1>3, <1>4 DEF CurrentEdits
    <2>2. Len(<<e>>) = 1 /\ <<e>>[1] = e
      OBVIOUS
    <2>3. LastEdits' = 1..1
      BY <2>1, <2>2 DEF LastEdits
    <2> QED
      BY <2>1, <2>2, <2>3
  <1>6. VersionAt(1)' = {}
    <2>1. \A i \in 1..1 : <<e>>[i].added = {}
      BY <1>2
    <2>2. VersionAfter(<<e>>, 1) = {}
      BY <2>1 DEF VersionAfter
    <2> QED
      BY <1>5, <2>2 DEF VersionAt
  <1>7. Found(1)' = {}
    <2>1. InTable(VersionAt(1))' = {}
      BY <1>6 DEF InTable
    <2>2. Logs' = {}
      BY <1>1 DEF Logs
    <2>3. LogsToRecover(CurrentEdits[1].log)' = {}
      BY <2>2 DEF LogsToRecover
    <2>4. InLogs({})' = {}
      BY DEF InLogs
    <2> QED
      BY <2>1, <2>3, <2>4 DEF Found, InLogs
  <1> QED
    BY <1>2, <1>3, <1>4, <1>5, <1>6, <1>7

LEMMA CreateDatabaseStep ==
    ASSUME RInv, CreateDatabase
    PROVE  BoundInv' /\ DiskInv' /\ QuietInv' /\ OpeningInv' /\ RunningInv'
              /\ FlushInv' /\ CompactionInv' /\ EditInv' /\ ObsoleteInv'
  <1>1. TypeOK /\ BoundInv /\ DiskInv /\ QuietInv /\ ObsoleteInv
    BY DEF RInv
  <1>2. PICK e, f : /\ e = [log |-> 0, next |-> 2, last |-> 0, added |-> {}, removed |-> {}]
                    /\ f = [records |-> <<e>>, synced |-> 1]
    OBVIOUS
  <1>3. /\ phase = "down" /\ current = NoFile /\ current' = 1
        /\ manifests' = [manifests EXCEPT ![1] = f]
        /\ UNCHANGED <<logs, tables, phase, log_number, next_file_number, last_sequence,
                       manifest_file_number, live, mem, imm, has_imm, writing, logfile_number,
                       pending_outputs, obsolete, edit, flushing, compaction, bg_error,
                       todo, recovered, save_manifest, reuse, written, promised, firm>>
    BY <1>2 DEF CreateDatabase, versionVars, writeVars, workVars, openVars, historyVars
  <1>4. /\ Logs = {} /\ promised = {} /\ firm = {}
    BY <1>1, <1>3 DEF DiskInv, TypeOK
  <1>5. 1 \in Numbers /\ 1 # NoFile
    BY Parameters, Fields
  <1>6. /\ e \in Edits /\ e.log = 0 /\ e.next = 2 /\ e.last = 0
        /\ f \in ManifestFiles /\ f.records = <<e>> /\ f.synced = 1
        /\ Manifests' = Manifests \cup {1} /\ manifests'[1] = f
        /\ \A m \in Numbers \ {1} : manifests'[m] = manifests[m]
        /\ CurrentEdits' = <<e>> /\ Len(CurrentEdits)' = 1 /\ LastEdits' = {1}
        /\ CurrentEdits'[1] = e /\ VersionAt(1)' = {} /\ Found(1)' = {}
    BY <1>2, NothingInNewDatabase
  <1>7. DiskInv'
    <2>1. InTable(VersionAt(1))' = {}
      BY <1>6 DEF InTable
    <2>2. /\ \A n \in VersionAt(1)' : Complete(n)' /\ n < CurrentEdits'[1].next
          /\ CurrentEdits'[1].log < CurrentEdits'[1].next /\ current' < CurrentEdits'[1].next
          /\ \A j \in 1..Len(CurrentEdits)' : CurrentEdits'[1].next <= CurrentEdits'[j].next
          /\ \A r \in InTable(VersionAt(1))' : r.seq <= CurrentEdits'[1].last
      BY <1>3, <1>6, <2>1
    <2>3. promised' = {} /\ firm' = {}
      BY <1>3, <1>4
    <2>4. Recoverable(1)'
      BY <1>6, <2>2, <2>3 DEF Recoverable, IdsOf, DistinctSequences
    <2>5. current' # NoFile /\ manifests'[current'].synced >= 1
      BY <1>3, <1>5, <1>6
    <2> QED
      BY <1>6, <2>4, <2>5 DEF DiskInv
  <1>8. BoundInv'
    <2>1. written \in Nat
      BY <1>1, Parameters DEF TypeOK
    <2>2. \A i \in 1..Len(<<e>>) : <<e>>[i].last <= written
      BY <1>6, <2>1
    <2>3. \A m \in Manifests' : \A i \in 1..Len(manifests'[m].records) :
             manifests'[m].records[i].last <= written
      BY <1>1, <1>6, <2>2 DEF BoundInv, Manifests
    <2> QED
      BY <1>1, <1>3, <2>3 DEF BoundInv, Logs, InLog
  <1>9. QuietInv' /\ OpeningInv' /\ RunningInv' /\ ObsoleteInv'
    BY <1>1, <1>3 DEF QuietInv, OpeningInv, RunningInv, ObsoleteInv
  <1>10. FlushInv' /\ CompactionInv' /\ EditInv'
    BY <1>1, <1>3 DEF QuietInv, FlushInv, CompactionInv, EditInv
  <1> QED
    BY <1>7, <1>8, <1>9, <1>10

LEMMA RecoverVersionStep ==
    ASSUME RInv, RecoverVersion, ReuseLogs = {FALSE}
    PROVE  BoundInv' /\ DiskInv' /\ QuietInv' /\ OpeningInv' /\ RunningInv'
              /\ FlushInv' /\ CompactionInv' /\ EditInv' /\ ObsoleteInv'
  <1>1. TypeOK /\ BoundInv /\ QuietInv
    BY DEF RInv
  <1>2. PICK L, e, version : /\ L = Len(CurrentEdits) /\ e = CurrentEdits[Len(CurrentEdits)]
                             /\ version = VersionAt(Len(CurrentEdits))
    OBVIOUS
  <1>3. /\ phase = "down" /\ current # NoFile
        /\ UNCHANGED <<logs, tables, manifests, current, mem, imm, has_imm, writing,
                       logfile_number, pending_outputs, obsolete, edit, flushing, compaction,
                       bg_error, recovered, written, promised, firm>>
    BY DEF RecoverVersion, diskVars, writeVars, workVars, historyVars
  <1>4. /\ ReuseManifest(e.next) /\ next_file_number' = e.next + 1 /\ last_sequence' = e.last
        /\ log_number' = e.log /\ live' = version
        /\ phase' = (IF NothingMissing(version) THEN "logs" ELSE "corrupt")
        /\ todo' = LogsToRecover(e.log)
    BY <1>2 DEF RecoverVersion, Last, CurrentEdits, VersionAt
  <1>5. /\ L \in Nat /\ L \in LastEdits /\ L \in 1..L /\ e \in Edits /\ Recoverable(L)
        /\ version \subseteq Numbers /\ current \in Manifests /\ current \in Numbers
        /\ e.log \in Nat /\ e.next \in Nat
    BY <1>2, <1>3, EditsFacts, Fields, Parameters
  <1>6. /\ \A n \in version : Complete(n) /\ n < e.next
        /\ e.log < e.next /\ current < e.next
        /\ \A r \in InTable(version) : r.seq <= e.last
        /\ promised \subseteq IdsOf(Found(L)) /\ DistinctSequences(Found(L))
        /\ Found(L) = InTable(version) \cup InLogs(LogsToRecover(e.log))
    BY <1>2, <1>5 DEF Recoverable, Found
  <1>7. phase' = "logs"
    BY <1>4, <1>5, <1>6, TableFacts, <1>1 DEF NothingMissing
  <1>8. ~reuse' /\ save_manifest' /\ manifest_file_number' = e.next
    BY <1>4 DEF ReuseManifest
  <1>9. CurrentEdits' = CurrentEdits /\ Len(CurrentEdits)' = L /\ CurrentEdits'[L] = e
    BY <1>2, <1>3 DEF CurrentEdits
  <1>10. BoundInv'
    <2>1. e.last <= written
      BY <1>1, <1>2, <1>5 DEF BoundInv, CurrentEdits
    <2> QED
      BY <1>1, <1>3, <1>4, <2>1 DEF BoundInv, Logs, Manifests, InLog
  <1>11. DiskInv'
    BY <1>3, DiskKept
  <1>12. recovered' = {} /\ logfile_number' = 0 /\ edit' = Nothing /\ obsolete' = NoObsolete
         /\ flushing' = Nothing /\ compaction' = Nothing
    BY <1>1, <1>3 DEF QuietInv
  <1>13. QuietInv'
    BY <1>1, <1>3, <1>7, <1>8, <1>12 DEF QuietInv
  <1>14. OpeningInv'
    <2>1. live' \cup recovered' = version
      BY <1>4, <1>12
    <2>2. PICK F : F = LogsToRecover(e.log)
      OBVIOUS
    <2>3. /\ F \subseteq Logs /\ \A n \in Logs : n \in F \/ n < e.next
      <3>1. \A n \in Logs : n \in Nat
        BY Parameters DEF Logs
      <3>2. \A n \in Logs : n \in F <=> n >= e.log
        BY <2>2 DEF LogsToRecover
      <3>3. \A n \in Logs : n >= e.log \/ n < e.next
        BY <1>5, <1>6, <3>1
      <3> QED
        BY <2>2, <3>2, <3>3 DEF LogsToRecover
    <2>4. /\ InTable(version)' = InTable(version) /\ \A n \in version : Complete(n)' = Complete(n)
          /\ InLogs(F)' = InLogs(F) /\ Logs' = Logs
      BY <1>3 DEF InTable, Complete, InLogs, InLog, Logs
    <2>5. /\ InTable(live \cup recovered)' = InTable(version) /\ InLogs(todo)' = InLogs(F)
      BY <1>4, <2>1, <2>2, <2>4 DEF InTable, InLogs
    <2>6. \A n \in version : n < e.next + 1
      BY <1>5, <1>6, Parameters
    <2>7. \A n \in Logs : n \in F \/ n < e.next + 1
      BY <1>5, <2>3, Parameters DEF Logs
    <2>8. /\ e.next < e.next + 1 /\ current <= e.next /\ current # e.next
      BY <1>5, <1>6, Parameters
    <2>9. /\ \A n \in live' \cup recovered' : Complete(n)' /\ n < next_file_number'
          /\ todo' \subseteq Logs' /\ \A n \in Logs' : n \in todo' \/ n < next_file_number'
      BY <1>4, <1>6, <2>1, <2>2, <2>3, <2>4, <2>6, <2>7
    <2>10. /\ promised' \subseteq IdsOf(InTable(live \cup recovered)' \cup InLogs(todo)')
           /\ DistinctSequences(InTable(live \cup recovered)' \cup InLogs(todo)')
           /\ \A r \in InTable(live \cup recovered)' : r.seq <= last_sequence'
      BY <1>3, <1>4, <1>6, <2>2, <2>5
    <2>11. /\ current' # NoFile /\ current' <= manifest_file_number'
           /\ manifest_file_number' < next_file_number' /\ current' # manifest_file_number'
           /\ CurrentEdits'[Len(CurrentEdits)'].next < next_file_number'
      BY <1>3, <1>4, <1>8, <1>9, <2>8
    <2> QED
      BY <1>7, <2>9, <2>10, <2>11 DEF OpeningInv, IdsOf, DistinctSequences
  <1>15. RunningInv' /\ FlushInv' /\ CompactionInv' /\ EditInv'
    BY <1>7, <1>12 DEF RunningInv, FlushInv, CompactionInv, EditInv
  <1>16. ObsoleteInv'
    BY <1>12 DEF ObsoleteInv, NoObsolete
  <1> QED
    BY <1>10, <1>11, <1>13, <1>14, <1>15, <1>16

\* The number of a table that is made of a log was never in the MANIFEST.
LEMMA RecoveredTableIsNew ==
    ASSUME RInv, phase = "logs"
    PROVE  /\ next_file_number \notin live
           /\ \A k \in LastEdits : next_file_number \notin VersionAt(k)
  <1>1. TypeOK /\ OpeningInv /\ next_file_number \in Nat
    BY Parameters DEF RInv, TypeOK
  <1>2. /\ current # NoFile /\ current # manifest_file_number
        /\ CurrentEdits[Len(CurrentEdits)].next < next_file_number
        /\ \A n \in live : n < next_file_number
    BY <1>1 DEF OpeningInv
  <1>3. next_file_number \notin live
    <2>1. \A n \in live : n \in Nat
      BY <1>1, Parameters DEF TypeOK
    <2> QED
      BY <1>1, <1>2, <2>1
  <1>4. ASSUME NEW k \in LastEdits
        PROVE  next_file_number \notin VersionAt(k)
    <2>1. /\ Recoverable(k) /\ k \in 1..Len(CurrentEdits) /\ CurrentEdits[k].next \in Nat
          /\ CurrentEdits[Len(CurrentEdits)].next \in Nat
          /\ Len(CurrentEdits) \in Nat
      BY <1>2, EditsFacts, Fields, Parameters
    <2>2. Len(CurrentEdits) \in k..Len(CurrentEdits)
      BY <2>1
    <2>3. CurrentEdits[k].next <= CurrentEdits[Len(CurrentEdits)].next
      BY <2>1, <2>2 DEF Recoverable
    <2>4. CurrentEdits[k].next < next_file_number
      BY <1>1, <1>2, <2>1, <2>3
    <2>5. \A n \in VersionAt(k) : n < CurrentEdits[k].next /\ n \in Nat
      BY <1>2, <2>1, EditsFacts, Parameters DEF Recoverable
    <2> QED
      BY <1>1, <2>1, <2>4, <2>5
  <1> QED
    BY <1>3, <1>4

LEMMA RecoverLogFileStep ==
    ASSUME RInv, RecoverLogFile
    PROVE  BoundInv' /\ DiskInv' /\ QuietInv' /\ OpeningInv' /\ RunningInv'
              /\ FlushInv' /\ CompactionInv' /\ EditInv' /\ ObsoleteInv'
  <1>1. TypeOK /\ BoundInv /\ QuietInv /\ OpeningInv
    BY DEF RInv
  <1>2. PICK log, t, files : log = Min(todo) /\ t = next_file_number /\ files = live \cup recovered
    OBVIOUS
  <1>3. /\ phase = "logs"
        /\ UNCHANGED <<logs, manifests, current, phase, log_number, manifest_file_number, live,
                       imm, has_imm, writing, reuse, pending_outputs, obsolete, edit, flushing,
                       compaction, bg_error, written, promised, firm>>
    BY DEF RecoverLogFile, workVars, historyVars
  <1>4. /\ log \in todo /\ log \in Logs /\ todo \subseteq Logs /\ log \in Nat
        /\ last_sequence <= last_sequence' /\ last_sequence' \in Nat /\ last_sequence \in Nat
        /\ \A r \in InLog(log) : r.seq <= last_sequence'
        /\ last_sequence' = last_sequence \/ \E r \in InLog(log) : last_sequence' = r.seq
        /\ UNCHANGED <<mem, logfile_number>> /\ todo' = todo \ {log}
        /\ t <= next_file_number' /\ log + 1 <= next_file_number'
        /\ t \in Nat /\ next_file_number' \in Nat
    BY <1>1, <1>2, NextLog, Parameters DEF Logs, TypeOK
  <1>5. /\ current # NoFile /\ files \subseteq Numbers
        /\ \A n \in files : Complete(n) /\ n < t /\ n \in Nat
        /\ promised \subseteq IdsOf(InTable(files) \cup InLogs(todo))
        /\ DistinctSequences(InTable(files) \cup InLogs(todo))
        /\ \A r \in InTable(files) : r.seq <= last_sequence /\ r.seq \in Nat
        /\ \A n \in Logs : n \in todo \/ n < t
        /\ current <= manifest_file_number /\ manifest_file_number < t
        /\ current # manifest_file_number
        /\ CurrentEdits[Len(CurrentEdits)].next < t
    <2>1. files \subseteq Numbers
      BY <1>1, <1>2 DEF TypeOK
    <2>2. \A n \in files : tables[n] \in SUBSET Records
      BY <1>1, <1>2, <1>3, <2>1, TableFacts DEF OpeningInv
    <2>3. \A r \in InTable(files) : r.seq \in Nat
      BY <2>2, Fields, Parameters DEF InTable
    <2>4. /\ current # NoFile /\ \A n \in files : Complete(n) /\ n < t
          /\ promised \subseteq IdsOf(InTable(files) \cup InLogs(todo))
          /\ DistinctSequences(InTable(files) \cup InLogs(todo))
          /\ \A r \in InTable(files) : r.seq <= last_sequence
          /\ \A n \in Logs : n \in todo \/ n < t
          /\ current <= manifest_file_number /\ manifest_file_number < t
          /\ current # manifest_file_number
          /\ CurrentEdits[Len(CurrentEdits)].next < t
      BY <1>1, <1>2, <1>3 DEF OpeningInv
    <2>5. \A n \in files : n \in Nat
      BY <2>1, Parameters
    <2> QED
      BY <2>1, <2>3, <2>4, <2>5
  <1>6. \A k \in LastEdits : t \notin VersionAt(k)
    BY <1>2, <1>3, RecoveredTableIsNew
  <1>7. \A n \in Numbers \ {t} : tables'[n] = tables[n]
    <2>1. CASE logs[log].records = <<>>
      BY <1>2, <2>1, NextLog
    <2>2. CASE logs[log].records # <<>>
      <3>1. t \in Numbers /\ tables' = [tables EXCEPT ![t] = InLog(log)]
        BY <1>2, <2>2, NextLog
      <3> QED
        BY <1>1, <3>1 DEF TypeOK
    <2> QED
      BY <2>1, <2>2
  <1>8. PICK files2 : files2 = live \cup recovered'
    OBVIOUS
  <1>9. /\ InTable(files2)' = InTable(files) \cup InLog(log)
        /\ \A n \in files2 : Complete(n)' /\ n < next_file_number'
        /\ save_manifest'
    <2>1. \A n \in files : tables'[n] = tables[n]
      BY <1>4, <1>5, <1>7
    <2>2. \A n \in files : Complete(n)' /\ n < next_file_number'
      BY <1>4, <1>5, <2>1 DEF Complete
    <2>3. CASE logs[log].records = <<>>
      <3>1. files2 = files /\ save_manifest' = save_manifest
        BY <1>2, <1>8, <2>3, NextLog
      <3>2. InLog(log) = {}
        BY <2>3 DEF InLog, Range
      <3> QED
        BY <1>1, <1>3, <2>1, <2>2, <3>1, <3>2 DEF InTable, QuietInv
    <2>4. CASE logs[log].records # <<>>
      <3>1. /\ t \in Numbers /\ tables' = [tables EXCEPT ![t] = InLog(log)]
            /\ recovered' = recovered \cup {t} /\ save_manifest'
            /\ t + 1 <= next_file_number'
        BY <1>2, <2>4, NextLog
      <3>2. files2 = files \cup {t}
        BY <1>2, <1>8, <3>1
      <3>3. tables'[t] = InLog(log) /\ InLog(log) \in SUBSET Records
        BY <1>1, <1>4, <3>1, LogFacts DEF TypeOK
      <3>4. Complete(t)' /\ t < next_file_number'
        <4>1. tables'[t] # NoFile /\ tables'[t] # Partial
          BY <3>3, Fields
        <4>2. t < next_file_number'
          BY <1>4, <3>1
        <4> QED
          BY <4>1, <4>2 DEF Complete
      <3> QED
        BY <2>1, <2>2, <3>1, <3>2, <3>3, <3>4 DEF InTable
    <2> QED
      BY <2>3, <2>4
  <1>10. BoundInv'
    <2>1. last_sequence' <= written
      BY <1>1, <1>4 DEF BoundInv
    <2> QED
      BY <1>1, <1>3, <2>1 DEF BoundInv, Logs, Manifests, InLog
  <1>11. DiskInv'
    <2>1. \A k \in LastEdits : \A n \in VersionAt(k) : tables'[n] = tables[n]
      BY <1>5, <1>6, <1>7, EditsFacts
    <2> QED
      BY <1>3, <1>5, <2>1, DiskKept
  <1>12. QuietInv'
    BY <1>1, <1>3, <1>4, <1>9 DEF QuietInv
  <1>13. OpeningInv'
    <2>1. PICK rest : rest = todo \ {log}
      OBVIOUS
    <2>2. InLogs(todo) = InLog(log) \cup InLogs(rest)
      BY <1>4, <2>1 DEF InLogs
    <2>3. InLogs(rest)' = InLogs(rest) /\ Logs' = Logs
      BY <1>3 DEF InLogs, InLog, Logs
    <2>4. /\ InTable(live \cup recovered)' = InTable(files2)' /\ InLogs(todo)' = InLogs(rest)
      BY <1>3, <1>4, <1>8, <2>1, <2>3 DEF InTable, InLogs
    <2>5. InTable(files2)' \cup InLogs(rest) = InTable(files) \cup InLogs(todo)
      BY <1>9, <2>2
    <2>6. \A r \in InTable(files2)' : r.seq <= last_sequence'
      BY <1>4, <1>5, <1>9
    <2>7. \A n \in Logs : n \in rest \/ n < next_file_number'
      <3>1. \A n \in Logs : n \in Nat
        BY Parameters DEF Logs
      <3>2. log < next_file_number'
        BY <1>4
      <3>3. \A n \in Logs : n < t => n < next_file_number'
        BY <1>4, <3>1
      <3> QED
        BY <1>5, <2>1, <3>2, <3>3
    <2>8. /\ manifest_file_number < next_file_number'
          /\ CurrentEdits[Len(CurrentEdits)].next < next_file_number'
      <3>1. manifest_file_number \in Nat /\ CurrentEdits[Len(CurrentEdits)].next \in Nat
        BY <1>1, <1>5, EditsFacts, Fields, Parameters DEF TypeOK
      <3> QED
        BY <1>4, <1>5, <3>1
    <2>9. CurrentEdits' = CurrentEdits
      BY <1>3 DEF CurrentEdits
    <2>10. /\ promised' \subseteq IdsOf(InTable(live \cup recovered)' \cup InLogs(todo)')
           /\ DistinctSequences(InTable(live \cup recovered)' \cup InLogs(todo)')
           /\ \A r \in InTable(live \cup recovered)' : r.seq <= last_sequence'
      BY <1>3, <1>5, <2>4, <2>5, <2>6
    <2>11. /\ \A n \in live' \cup recovered' : Complete(n)' /\ n < next_file_number'
           /\ todo' \subseteq Logs' /\ \A n \in Logs' : n \in todo' \/ n < next_file_number'
      BY <1>3, <1>4, <1>8, <1>9, <2>1, <2>3, <2>7
    <2>12. /\ current' # NoFile /\ current' <= manifest_file_number'
           /\ manifest_file_number' < next_file_number' /\ current' # manifest_file_number'
           /\ CurrentEdits'[Len(CurrentEdits)'].next < next_file_number' /\ phase' = "logs"
      BY <1>3, <1>5, <2>8, <2>9
    <2> QED
      BY <2>10, <2>11, <2>12 DEF OpeningInv, IdsOf, DistinctSequences
  <1>14. RunningInv' /\ FlushInv' /\ CompactionInv' /\ EditInv'
    BY <1>1, <1>3 DEF QuietInv, RunningInv, FlushInv, CompactionInv, EditInv
  <1>15. ObsoleteInv'
    BY <1>1, <1>3 DEF QuietInv, ObsoleteInv, NoObsolete
  <1> QED
    BY <1>10, <1>11, <1>12, <1>13, <1>14, <1>15

LEMMA OpenLogStep ==
    ASSUME RInv, OpenLog
    PROVE  BoundInv' /\ DiskInv' /\ QuietInv' /\ OpeningInv' /\ RunningInv'
              /\ FlushInv' /\ CompactionInv' /\ EditInv' /\ ObsoleteInv'
  <1>1. TypeOK /\ BoundInv /\ QuietInv /\ OpeningInv
    BY DEF RInv
  <1>2. PICK t, files : t = next_file_number /\ files = live \cup recovered
    OBVIOUS
  <1>3. phase = "logs" /\ todo = {} /\ logfile_number = 0 /\ save_manifest
    BY <1>1 DEF OpenLog, QuietInv
  <1>4. /\ t <= MaxNumber /\ next_file_number' = t + 1 /\ logfile_number' = t
        /\ logs' = [logs EXCEPT ![t] = [records |-> <<>>, synced |-> 0]]
        /\ phase' = "save"
        /\ UNCHANGED <<tables, manifests, current, log_number, last_sequence,
                       manifest_file_number, live, mem, imm, has_imm, writing, pending_outputs,
                       obsolete, edit, flushing, compaction, bg_error, todo, recovered,
                       save_manifest, reuse, written, promised, firm>>
    BY <1>2, <1>3 DEF OpenLog, NewFileNumber, openVars, historyVars
  <1>5. /\ current # NoFile /\ \A n \in files : Complete(n) /\ n < t
        /\ promised \subseteq IdsOf(InTable(files) \cup InLogs({}))
        /\ DistinctSequences(InTable(files) \cup InLogs({}))
        /\ \A r \in InTable(files) : r.seq <= last_sequence
        /\ \A n \in Logs : n < t
        /\ current <= manifest_file_number /\ manifest_file_number < t
        /\ current # manifest_file_number
        /\ CurrentEdits[Len(CurrentEdits)].next < t
    BY <1>1, <1>2, <1>3 DEF OpeningInv
  <1>6. t \in Nat /\ t \in Numbers /\ t \notin Logs /\ \A n \in Logs : n \in Nat
    <2>1. t \in Nat /\ t \in Numbers /\ \A n \in Logs : n \in Nat
      BY <1>1, <1>2, <1>4, Parameters DEF TypeOK, Logs
    <2> QED
      BY <1>5, <2>1
  <1>7. /\ Logs' = Logs \cup {t} /\ InLog(t)' = {} /\ logs'[t].records = <<>>
        /\ DiskInv' /\ \A m \in Logs' : \A r \in InLog(m)' : r.seq <= written'
    BY <1>4, <1>5, <1>6, NewLogKeepsFound
  <1>8. BoundInv'
    BY <1>1, <1>4, <1>7 DEF BoundInv, Manifests
  <1>9. QuietInv'
    BY <1>1, <1>3, <1>4 DEF QuietInv
  <1>10. OpeningInv'
    <2>1. /\ InTable(live \cup recovered)' = InTable(files) /\ InLogs(todo)' = InLogs({})
          /\ \A n \in files : Complete(n)' = Complete(n)
          /\ CurrentEdits' = CurrentEdits
      BY <1>2, <1>3, <1>4 DEF InTable, InLogs, Complete, CurrentEdits
    <2>2. /\ \A n \in files : n < t + 1
          /\ \A n \in Logs' : n < t + 1
          /\ manifest_file_number < t + 1 /\ CurrentEdits[Len(CurrentEdits)].next < t + 1
          /\ \A n \in Logs' : n <= t
      <3>1. /\ manifest_file_number \in Nat /\ CurrentEdits[Len(CurrentEdits)].next \in Nat
            /\ \A n \in files : n \in Nat
        BY <1>1, <1>2, <1>5, EditsFacts, Fields, Parameters DEF TypeOK
      <3>2. /\ \A n \in files : n < t + 1
            /\ manifest_file_number < t + 1 /\ CurrentEdits[Len(CurrentEdits)].next < t + 1
        BY <1>5, <1>6, <3>1
      <3>3. \A n \in Logs' : n <= t /\ n < t + 1
        BY <1>5, <1>6, <1>7
      <3> QED
        BY <3>2, <3>3
    <2>3. /\ promised' \subseteq IdsOf(InTable(live \cup recovered)' \cup InLogs(todo)')
          /\ DistinctSequences(InTable(live \cup recovered)' \cup InLogs(todo)')
          /\ \A r \in InTable(live \cup recovered)' : r.seq <= last_sequence'
      BY <1>4, <1>5, <2>1
    <2>4. /\ \A n \in live' \cup recovered' : Complete(n)' /\ n < next_file_number'
          /\ todo' = {} /\ \A n \in Logs' : n < next_file_number'
      <3>1. \A n \in files : Complete(n)'
        BY <1>5, <2>1
      <3>2. live' \cup recovered' = files
        BY <1>2, <1>4
      <3>3. \A n \in files : n < next_file_number'
        BY <1>4, <2>2
      <3>4. \A n \in live' \cup recovered' : Complete(n)' /\ n < next_file_number'
        BY <3>1, <3>2, <3>3
      <3>5. todo' = {} /\ \A n \in Logs' : n < next_file_number'
        BY <1>3, <1>4, <2>2
      <3> QED
        BY <3>4, <3>5
    <2>5. /\ current' # NoFile /\ current' <= manifest_file_number'
          /\ manifest_file_number' < next_file_number' /\ current' # manifest_file_number'
          /\ CurrentEdits'[Len(CurrentEdits)'].next < next_file_number' /\ phase' = "save"
      BY <1>4, <1>5, <2>1, <2>2
    <2>6. /\ logfile_number' \in Logs' /\ logs'[logfile_number'].records = <<>>
          /\ \A n \in Logs' : n <= logfile_number'
      BY <1>4, <1>7, <2>2
    <2> QED
      BY <2>3, <2>4, <2>5, <2>6 DEF OpeningInv, IdsOf, DistinctSequences
  <1>11. RunningInv' /\ FlushInv' /\ CompactionInv' /\ EditInv'
    BY <1>1, <1>3, <1>4 DEF QuietInv, RunningInv, FlushInv, CompactionInv, EditInv
  <1>12. ObsoleteInv'
    BY <1>1, <1>3, <1>4 DEF QuietInv, ObsoleteInv, NoObsolete
  <1> QED
    BY <1>7, <1>8, <1>9, <1>10, <1>11, <1>12

\* What the new MANIFEST says.
LEMMA SnapshotFacts ==
    ASSUME RInv, phase \in {"save", "install"}, NEW e, e = Edit(logfile_number, recovered, {})
    PROVE  /\ Snapshot \in Edits /\ e \in Edits /\ Snapshot.last = 0
           /\ e.log = logfile_number /\ e.next = next_file_number /\ e.last = last_sequence
           /\ <<Snapshot, e>> \in Seq(Edits) /\ Len(<<Snapshot, e>>) = 2
           /\ <<Snapshot, e>>[1] = Snapshot /\ <<Snapshot, e>>[2] = e
           /\ VersionAfter(<<Snapshot, e>>, 2) = live \cup recovered
  <1>1. TypeOK
    BY DEF RInv
  <1>2. /\ e \in Edits /\ e.log = logfile_number /\ e.next = next_file_number
        /\ e.last = last_sequence /\ e.added = recovered /\ e.removed = {}
    <2>1. recovered \in SUBSET Numbers /\ {} \in SUBSET Numbers /\ logfile_number \in 0..MaxNumber
      BY <1>1 DEF TypeOK
    <2>2. e \in Edits
      BY <2>1, EditTypes
    <2> QED
      BY <2>2 DEF Edit
  <1>3. PICK s : s = Snapshot
    OBVIOUS
  <1>4. s \in Edits /\ s.added = live /\ s.last = 0
    <2>1. 0 \in 0..MaxNumber /\ 2 \in 2..(MaxNumber + 1) /\ 0 \in 0..MaxWrites
      BY Parameters
    <2> QED
      BY <1>1, <1>3, <2>1 DEF Snapshot, Edits, TypeOK
  <1>5. /\ <<s, e>> \in Seq(Edits) /\ Len(<<s, e>>) = 2 /\ <<s, e>>[1] = s /\ <<s, e>>[2] = e
    BY <1>2, <1>4
  <1>6. VersionAfter(<<s, e>>, 2) = live \cup recovered
    <2>1. 1 \in Nat /\ 1 + 1 = 2 /\ 1..1 = {1} /\ 2..1 = {}
      OBVIOUS
    <2>2. VersionAfter(<<s, e>>, 1 + 1) = SaveTo(VersionAfter(<<s, e>>, 1), e)
      BY <1>2, <1>5, <2>1, NextVersion
    <2>3. VersionAfter(<<s, e>>, 1) = live
      <3>1. live \subseteq Numbers
        BY <1>1 DEF TypeOK
      <3>2. \A i \in 1..1 : i = 1 /\ (i + 1)..1 = {}
        OBVIOUS
      <3>3. 1 \in 1..1
        OBVIOUS
      <3> QED
        BY <1>4, <1>5, <3>1, <3>2, <3>3 DEF VersionAfter
    <2> QED
      BY <1>2, <2>1, <2>2, <2>3 DEF SaveTo
  <1> QED
    BY <1>2, <1>3, <1>4, <1>5, <1>6

LEMMA SaveManifestStep ==
    ASSUME RInv, SaveManifest
    PROVE  BoundInv' /\ DiskInv' /\ QuietInv' /\ OpeningInv' /\ RunningInv'
              /\ FlushInv' /\ CompactionInv' /\ EditInv' /\ ObsoleteInv'
  <1>1. TypeOK /\ BoundInv /\ QuietInv /\ OpeningInv
    BY DEF RInv
  <1>2. PICK e, s, n, f : /\ e = Edit(logfile_number, recovered, {}) /\ s = Snapshot
                          /\ n = manifest_file_number
                          /\ f = [records |-> <<Snapshot, Edit(logfile_number, recovered, {})>>,
                                  synced |-> 0]
    OBVIOUS
  <1>3. /\ phase = "save" /\ phase' = "install" /\ edit' = [by |-> "open", edit |-> e]
        /\ manifests' = [manifests EXCEPT ![n] = f]
        /\ UNCHANGED <<logs, tables, current, log_number, next_file_number, last_sequence,
                       manifest_file_number, live, mem, imm, has_imm, writing, logfile_number,
                       pending_outputs, obsolete, flushing, compaction, bg_error, todo, recovered,
                       save_manifest, reuse, written, promised, firm>>
    BY <1>1, <1>2 DEF SaveManifest, QuietInv, versionVars, writeVars, openVars, historyVars
  <1>4. /\ s \in Edits /\ e \in Edits /\ s.last = 0 /\ e.last = last_sequence
        /\ <<s, e>> \in Seq(Edits) /\ Len(<<s, e>>) = 2
        /\ <<s, e>>[1] = s /\ <<s, e>>[2] = e
    BY <1>2, <1>3, SnapshotFacts
  <1>5. n \in Numbers /\ current # n /\ current # NoFile
    BY <1>1, <1>2, <1>3, InUse DEF OpeningInv
  <1>6. f \in ManifestFiles /\ f.records = <<s, e>>
    BY <1>2, <1>4 DEF ManifestFiles
  <1>7. /\ Manifests' = Manifests \cup {n} /\ manifests'[n] = f
        /\ \A m \in Numbers \ {n} : manifests'[m] = manifests[m]
    BY <1>1, <1>3, <1>5, <1>6, NewManifest
  <1>8. manifests'[current] = manifests[current]
    BY <1>5, <1>7, EditsFacts
  <1>9. edit' \in PendingEdits /\ edit' # Nothing /\ edit'.by = "open" /\ edit'.edit = e
    <2>1. edit' \in PendingEdits
      BY <1>3, <1>4 DEF PendingEdits
    <2> QED
      BY <1>3, <2>1, Fields
  <1>10. BoundInv'
    <2>1. \A i \in 1..Len(<<s, e>>) : <<s, e>>[i].last <= written
      <3>1. written \in Nat /\ last_sequence <= written
        BY <1>1, Parameters DEF BoundInv, TypeOK
      <3>2. \A i \in 1..2 : i = 1 \/ i = 2
        OBVIOUS
      <3> QED
        BY <1>4, <3>1, <3>2
    <2>2. \A m \in Manifests' : \A i \in 1..Len(manifests'[m].records) :
             manifests'[m].records[i].last <= written
      BY <1>1, <1>6, <1>7, <2>1 DEF BoundInv, Manifests
    <2> QED
      BY <1>1, <1>3, <2>2 DEF BoundInv, Logs, InLog
  <1>11. DiskInv'
    BY <1>3, <1>5, <1>8, DiskKept
  <1>12. QuietInv'
    BY <1>1, <1>3 DEF QuietInv
  <1>13. OpeningInv'
    <2>1. /\ InTable(live \cup recovered)' = InTable(live \cup recovered)
          /\ InLogs(todo)' = InLogs(todo) /\ Logs' = Logs
          /\ \A m : Complete(m)' = Complete(m)
          /\ CurrentEdits' = CurrentEdits
      BY <1>3, <1>8 DEF InTable, InLogs, InLog, Logs, Complete, CurrentEdits
    <2>2. /\ edit'.edit = Edit(logfile_number, recovered, {})'
          /\ manifest_file_number' \in Manifests'
          /\ manifests'[manifest_file_number'].records = <<Snapshot', edit'.edit>>
      BY <1>2, <1>3, <1>6, <1>7, <1>9 DEF Edit, Snapshot
    <2>3. /\ current' # NoFile /\ current' <= manifest_file_number'
          /\ manifest_file_number' < next_file_number' /\ current' # manifest_file_number'
          /\ CurrentEdits'[Len(CurrentEdits)'].next < next_file_number' /\ phase' = "install"
          /\ todo' = {} /\ logfile_number' \in Logs' /\ logs'[logfile_number'].records = <<>>
          /\ \A m \in Logs' : m <= logfile_number'
      BY <1>1, <1>3, <1>5, <2>1 DEF OpeningInv
    <2>4. /\ promised' \subseteq IdsOf(InTable(live \cup recovered)' \cup InLogs(todo)')
          /\ DistinctSequences(InTable(live \cup recovered)' \cup InLogs(todo)')
          /\ \A r \in InTable(live \cup recovered)' : r.seq <= last_sequence'
          /\ \A m \in live' \cup recovered' : Complete(m)' /\ m < next_file_number'
          /\ todo' \subseteq Logs' /\ \A m \in Logs' : m \in todo' \/ m < next_file_number'
      BY <1>1, <1>3, <2>1 DEF OpeningInv
    <2> QED
      BY <1>9, <2>2, <2>3, <2>4 DEF OpeningInv, IdsOf, DistinctSequences
  <1>14. RunningInv' /\ FlushInv' /\ CompactionInv' /\ EditInv'
    BY <1>1, <1>3, <1>9 DEF QuietInv, RunningInv, FlushInv, CompactionInv, EditInv
  <1>15. ObsoleteInv'
    BY <1>1, <1>3 DEF QuietInv, ObsoleteInv, NoObsolete
  <1> QED
    BY <1>10, <1>11, <1>12, <1>13, <1>14, <1>15

LEMMA SetCurrentFileStep ==
    ASSUME RInv, SetCurrentFile
    PROVE  BoundInv' /\ DiskInv' /\ QuietInv' /\ OpeningInv' /\ RunningInv'
              /\ FlushInv' /\ CompactionInv' /\ EditInv' /\ ObsoleteInv'
  <1>1. TypeOK /\ BoundInv /\ DiskInv /\ QuietInv /\ OpeningInv /\ EditInv
    BY DEF RInv
  <1>2. PICK e, s, n, files, log : /\ e = Edit(logfile_number, recovered, {}) /\ s = Snapshot
                                   /\ n = manifest_file_number /\ files = live \cup recovered
                                   /\ log = logfile_number
    OBVIOUS
  <1>3. /\ phase = "install" /\ current # n /\ SyncManifest /\ current' = n
        /\ UNCHANGED <<logs, tables, phase, log_number, next_file_number, last_sequence,
                       manifest_file_number, live, mem, imm, has_imm, writing, logfile_number,
                       pending_outputs, obsolete, edit, flushing, compaction, bg_error, todo,
                       recovered, save_manifest, reuse, written, promised, firm>>
    BY <1>2 DEF SetCurrentFile, versionVars, writeVars, workVars, openVars, historyVars
  <1>4. /\ s \in Edits /\ e \in Edits
        /\ e.log = log /\ e.next = next_file_number /\ e.last = last_sequence
        /\ Len(<<s, e>>) = 2 /\ <<s, e>>[2] = e
        /\ VersionAfter(<<s, e>>, 2) = files
    BY <1>2, <1>3, SnapshotFacts
  <1>5. /\ edit # Nothing /\ edit.edit = e /\ n \in Manifests /\ n \in Numbers
        /\ manifests[n].records = <<s, e>>
        /\ todo = {} /\ log \in Logs /\ logs[log].records = <<>>
        /\ \A m \in Logs : m <= log /\ m < next_file_number
        /\ \A m \in files : Complete(m) /\ m < next_file_number
        /\ promised \subseteq IdsOf(InTable(files) \cup InLogs({}))
        /\ DistinctSequences(InTable(files) \cup InLogs({}))
        /\ \A r \in InTable(files) : r.seq <= last_sequence
        /\ n < next_file_number
    BY <1>1, <1>2, <1>3 DEF OpeningInv, Manifests
  <1>6. /\ Manifests' = Manifests /\ \A m \in Manifests : manifests'[m].records = manifests[m].records
        /\ manifests'[n].synced = 2
    BY <1>1, <1>2, <1>3, <1>4, <1>5, SyncTheManifest
  <1>7. /\ CurrentEdits' = <<s, e>> /\ Len(CurrentEdits)' = 2 /\ CurrentEdits'[2] = e
        /\ LastEdits' = {2} /\ VersionAt(2)' = files
    <2>1. CurrentEdits' = <<s, e>>
      BY <1>3, <1>5, <1>6 DEF CurrentEdits
    <2>2. LastEdits' = 2..2
      BY <1>3, <1>4, <1>6, <2>1 DEF LastEdits
    <2> QED
      BY <1>4, <2>1, <2>2 DEF VersionAt
  <1>8. InLogs({}) = {} /\ InLog(log) = {}
    BY <1>5 DEF InLogs, InLog, Range
  <1>9. DiskInv'
    <2>1. InTable(VersionAt(2))' = InTable(files)
      BY <1>3, <1>7 DEF InTable
    <2>2. InLogs(LogsToRecover(CurrentEdits[2].log))' = {}
      <3>1. PICK F : F = LogsToRecover(log)
        OBVIOUS
      <3>2. F \subseteq {log}
        <4>1. \A m \in Logs : m \in Nat
          BY Parameters DEF Logs
        <4> QED
          BY <1>5, <3>1, <4>1 DEF LogsToRecover
      <3>3. InLogs(F) = {}
        BY <1>8, <3>2 DEF InLogs
      <3>4. LogsToRecover(CurrentEdits[2].log)' = F
        BY <1>3, <1>4, <1>7, <3>1 DEF LogsToRecover, Logs
      <3>5. InLogs(F)' = InLogs(F)
        BY <1>3 DEF InLogs, InLog
      <3> QED
        BY <3>3, <3>4, <3>5 DEF InLogs
    <2>3. Found(2)' = InTable(files) /\ InTable(files) \subseteq FoundSynced(2)'
      BY <2>1, <2>2 DEF Found, FoundSynced
    <2>4. /\ promised' \subseteq IdsOf(Found(2)') /\ firm' \subseteq IdsOf(FoundSynced(2)')
          /\ DistinctSequences(Found(2)')
      <3>1. promised \subseteq IdsOf(InTable(files)) /\ DistinctSequences(InTable(files))
        <4>1. InTable(files) \cup InLogs({}) = InTable(files)
          BY <1>8
        <4> QED
          BY <1>5, <4>1
      <3>2. IdsOf(InTable(files)) \subseteq IdsOf(FoundSynced(2)')
        BY <2>3 DEF IdsOf
      <3>3. firm \subseteq promised
        BY <1>1 DEF TypeOK
      <3> QED
        BY <1>3, <2>3, <3>1, <3>2, <3>3
    <2>5. /\ \A m \in VersionAt(2)' : Complete(m)' /\ m < CurrentEdits'[2].next
          /\ \A r \in InTable(VersionAt(2))' : r.seq <= CurrentEdits'[2].last
      <3>1. \A m \in files : Complete(m)'
        BY <1>3, <1>5 DEF Complete
      <3> QED
        BY <1>4, <1>5, <1>7, <2>1, <3>1
    <2>6. /\ CurrentEdits'[2].log < CurrentEdits'[2].next /\ current' < CurrentEdits'[2].next
          /\ \A j \in 2..Len(CurrentEdits)' : CurrentEdits'[2].next <= CurrentEdits'[j].next
      <3>1. \A j \in 2..2 : j = 2
        OBVIOUS
      <3>2. e.next \in Nat
        BY <1>4, Fields, Parameters
      <3> QED
        BY <1>3, <1>4, <1>5, <1>7, <3>1, <3>2
    <2>7. Recoverable(2)'
      BY <2>4, <2>5, <2>6 DEF Recoverable, IdsOf, DistinctSequences
    <2>8. current' # NoFile /\ manifests'[current'].synced >= 1
      BY <1>3, <1>5, <1>6, Fields
    <2> QED
      BY <1>7, <2>7, <2>8 DEF DiskInv
  <1>10. BoundInv'
    BY <1>1, <1>3, <1>6 DEF BoundInv, Logs, InLog
  <1>11. OpeningInv'
    <2>1. /\ InTable(live \cup recovered)' = InTable(files) /\ InLogs(todo)' = InLogs({})
          /\ Logs' = Logs /\ \A m : Complete(m)' = Complete(m)
      BY <1>2, <1>3, <1>5 DEF InTable, InLogs, InLog, Logs, Complete
    <2>2. /\ edit'.edit = Edit(logfile_number, recovered, {})'
          /\ manifest_file_number' \in Manifests'
          /\ manifests'[manifest_file_number'].records = <<Snapshot', edit'.edit>>
          /\ manifests'[current'].synced = 2 /\ edit' # Nothing
      BY <1>2, <1>3, <1>5, <1>6 DEF Edit, Snapshot
    <2>3. /\ current' # NoFile /\ current' <= manifest_file_number'
          /\ manifest_file_number' < next_file_number' /\ current' = manifest_file_number'
          /\ todo' = {} /\ logfile_number' \in Logs' /\ logs'[logfile_number'].records = <<>>
          /\ \A m \in Logs' : m <= logfile_number' /\ phase' = "install"
      <3>1. n <= n
        BY <1>5, Parameters
      <3> QED
        BY <1>2, <1>3, <1>5, <2>1, <3>1, Fields
    <2>4. /\ promised' \subseteq IdsOf(InTable(live \cup recovered)' \cup InLogs(todo)')
          /\ DistinctSequences(InTable(live \cup recovered)' \cup InLogs(todo)')
          /\ \A r \in InTable(live \cup recovered)' : r.seq <= last_sequence'
          /\ \A m \in live' \cup recovered' : Complete(m)' /\ m < next_file_number'
          /\ \A m \in Logs' : m < next_file_number'
      BY <1>2, <1>3, <1>5, <2>1
    <2> QED
      BY <2>2, <2>3, <2>4 DEF OpeningInv, IdsOf, DistinctSequences
  <1>12. QuietInv' /\ RunningInv' /\ FlushInv' /\ CompactionInv'
    BY <1>1, <1>3 DEF QuietInv, RunningInv, FlushInv, CompactionInv
  <1>13. EditInv'
    <2>1. edit.by = "open"
      BY <1>1, <1>3, <1>5 DEF EditInv
    <2> QED
      BY <1>3, <2>1 DEF EditInv
  <1>14. ObsoleteInv'
    BY <1>1, <1>3 DEF QuietInv, ObsoleteInv, NoObsolete
  <1> QED
    BY <1>9, <1>10, <1>11, <1>12, <1>13, <1>14

LEMMA FinishOpenStep ==
    ASSUME RInv, FinishOpen
    PROVE  BoundInv' /\ DiskInv' /\ QuietInv' /\ OpeningInv' /\ RunningInv'
              /\ FlushInv' /\ CompactionInv' /\ EditInv' /\ ObsoleteInv'
  <1>1. TypeOK /\ BoundInv /\ DiskInv /\ QuietInv /\ OpeningInv
    BY DEF RInv
  <1>2. PICK e, s, files, log : /\ e = Edit(logfile_number, recovered, {}) /\ s = Snapshot
                                /\ files = live \cup recovered /\ log = logfile_number
    OBVIOUS
  <1>3. /\ phase = "install" /\ current = manifest_file_number /\ phase' = "clean"
        /\ obsolete' = FindObsolete(live', log_number', manifest_file_number, {})
        /\ InstallVersion(edit.edit)
        /\ UNCHANGED <<logs, tables, current, next_file_number, last_sequence,
                       manifest_file_number, mem, imm, has_imm, writing, logfile_number,
                       pending_outputs, flushing, compaction, bg_error, todo,
                       recovered, save_manifest, reuse, written, promised>>
    BY DEF FinishOpen, writeVars, openVars
  <1>4. /\ e \in Edits /\ e.added = recovered /\ e.removed = {}
        /\ e.log = log /\ e.next = next_file_number /\ e.last = last_sequence
        /\ Len(<<s, e>>) = 2 /\ <<s, e>>[2] = e
        /\ VersionAfter(<<s, e>>, 2) = files
    <2>1. e.added = recovered /\ e.removed = {}
      BY <1>2 DEF Edit
    <2> QED
      BY <1>2, <1>3, <2>1, SnapshotFacts
  <1>5. /\ edit # Nothing /\ edit.edit = e /\ current # NoFile
        /\ manifests[current].records = <<s, e>> /\ manifests[current].synced = 2
        /\ todo = {} /\ log \in Logs /\ logs[log].records = <<>>
        /\ \A m \in Logs : m <= log /\ m < next_file_number /\ m \in Nat
        /\ \A m \in files : Complete(m) /\ m < next_file_number
        /\ promised \subseteq IdsOf(InTable(files) \cup InLogs({}))
        /\ DistinctSequences(InTable(files) \cup InLogs({}))
        /\ \A r \in InTable(files) : r.seq <= last_sequence
    <2>1. \A m \in Logs : m \in Nat
      BY Parameters DEF Logs
    <2> QED
      BY <1>1, <1>2, <1>3, <2>1 DEF OpeningInv
  <1>6. /\ SyncManifest /\ live' = files /\ log_number' = log /\ edit' = Nothing
        /\ firm' = firm \cup (promised \cap InTables(files))
    <2>1. SaveTo(live, e) = files
      BY <1>2, <1>4 DEF SaveTo
    <2> QED
      BY <1>3, <1>4, <1>5, <2>1 DEF InstallVersion
  <1>7. /\ CurrentEdits = <<s, e>> /\ CurrentEdits' = <<s, e>> /\ CurrentEdits'[2] = e
        /\ Len(CurrentEdits') = 2 /\ LastEdits' = {2} /\ 2 \in LastEdits
        /\ VersionAt(2) = files /\ VersionAt(2)' = files
        /\ manifests'[current].synced = 2
    <2>1. CurrentEdits = <<s, e>>
      BY <1>5 DEF CurrentEdits
    <2>2. /\ CurrentEdits' = CurrentEdits /\ LastEdits' = {Len(CurrentEdits)}
          /\ \A k : VersionAt(k)' = VersionAt(k)
          /\ manifests'[current].synced = Len(CurrentEdits)
      BY <1>3, <1>5, <1>6, SyncedVersions
    <2>3. Len(CurrentEdits) \in LastEdits
      BY <1>5, EditsFacts
    <2> QED
      BY <1>4, <2>1, <2>2, <2>3 DEF VersionAt
  <1>8. InLogs({}) = {} /\ InLog(log) = {}
    BY <1>5 DEF InLogs, InLog, Range
  <1>9. /\ promised \subseteq IdsOf(InTable(files)) /\ DistinctSequences(InTable(files))
        /\ firm' \subseteq IdsOf(InTable(files))
    <2>1. InTable(files) \cup InLogs({}) = InTable(files)
      BY <1>8
    <2>2. promised \subseteq IdsOf(InTable(files)) /\ DistinctSequences(InTable(files))
      BY <1>5, <2>1
    <2>3. firm' \subseteq promised
      BY <1>1, <1>6 DEF TypeOK
    <2> QED
      BY <2>2, <2>3
  <1>10. /\ InTable(files)' = InTable(files) /\ InTable(live)' = InTable(files)
         /\ \A n : InLog(n)' = InLog(n) /\ SyncedInLog(n)' = SyncedInLog(n)
         /\ Logs' = Logs /\ \A l : LogsToRecover(l)' = LogsToRecover(l)
         /\ \A F : InLogs(F)' = InLogs(F) /\ SyncedInLogs(F)' = SyncedInLogs(F)
         /\ \A n : Complete(n)' = Complete(n)
    BY <1>3, <1>6 DEF InTable, InLog, SyncedInLog, Logs, LogsToRecover, InLogs, SyncedInLogs,
                      Complete
  <1>11. DiskInv'
    <2>1. Recoverable(2)
      BY <1>5, <1>7, EditsFacts
    <2>2. CurrentEdits[2] = e /\ InTable(VersionAt(2))' = InTable(files)
      BY <1>4, <1>7, <1>10 DEF InTable
    <2>3. Found(2)' = Found(2) /\ FoundSynced(2)' = FoundSynced(2)
      BY <1>4, <1>7, <1>10, <2>2 DEF Found, FoundSynced
    <2>4. /\ promised' \subseteq IdsOf(Found(2)') /\ firm' \subseteq IdsOf(FoundSynced(2)')
          /\ DistinctSequences(Found(2)')
      <3>1. IdsOf(InTable(files)) \subseteq IdsOf(FoundSynced(2))
        BY <1>7 DEF FoundSynced, IdsOf
      <3>2. promised \subseteq IdsOf(Found(2)) /\ DistinctSequences(Found(2))
        BY <2>1 DEF Recoverable
      <3> QED
        BY <1>3, <1>9, <2>3, <3>1, <3>2
    <2>5. /\ \A m \in VersionAt(2)' : Complete(m)' /\ m < CurrentEdits'[2].next
          /\ \A r \in InTable(VersionAt(2))' : r.seq <= CurrentEdits'[2].last
      <3>1. \A m \in files : Complete(m)'
        BY <1>5, <1>10
      <3> QED
        BY <1>4, <1>5, <1>7, <2>2, <3>1
    <2>6. /\ CurrentEdits'[2].log < CurrentEdits'[2].next /\ current' < CurrentEdits'[2].next
          /\ \A j \in 2..Len(CurrentEdits') : CurrentEdits'[2].next <= CurrentEdits'[j].next
      <3>1. \A j \in 2..2 : j = 2
        OBVIOUS
      <3>2. e.next \in Nat
        BY <1>4, Fields, Parameters
      <3>3. e.log < e.next /\ current < e.next
        BY <2>1, <2>2 DEF Recoverable
      <3> QED
        BY <1>3, <1>7, <3>1, <3>2, <3>3
    <2>7. Recoverable(2)'
      BY <2>4, <2>5, <2>6 DEF Recoverable, IdsOf, DistinctSequences
    <2>8. current' # NoFile /\ manifests'[current'].synced >= 1
      BY <1>3, <1>5, <1>7
    <2> QED
      BY <1>7, <2>7, <2>8 DEF DiskInv
  <1>12. BoundInv'
    <2>1. manifest_file_number \in Manifests
      BY <1>3, InUse
    <2>2. /\ Manifests' = Manifests
          /\ \A m \in Manifests : manifests'[m].records = manifests[m].records
      BY <1>1, <1>6, <2>1, SyncTheManifest
    <2> QED
      BY <1>1, <1>3, <1>10, <2>2 DEF BoundInv
  <1>13. /\ mem = <<>> /\ imm = <<>> /\ writing = Nothing /\ flushing = Nothing
         /\ compaction = Nothing /\ ~bg_error /\ pending_outputs = {}
    BY <1>1, <1>3 DEF QuietInv
  <1>14. Range(<<>>) = {}
    BY DEF Range
  <1>15. Visible' = InTable(files)
    BY <1>3, <1>10, <1>13, <1>14 DEF Visible, InTable
  <1>16. RunningInv'
    <2>1. /\ current' = manifest_file_number' /\ current' # NoFile
          /\ \A m \in live' : Complete(m)' /\ m < next_file_number'
          /\ logfile_number' < next_file_number'
          /\ logfile_number' \in Logs' /\ \A m \in Logs' : m <= logfile_number'
      <3>1. \A m \in files : Complete(m)'
        BY <1>5, <1>10
      <3> QED
        BY <1>2, <1>3, <1>5, <1>6, <1>10, <3>1
    <2>2. log_number' <= logfile_number'
      BY <1>2, <1>3, <1>5, <1>6
    <2>3. InLog(log)' = Range(mem') \cup (IF writing' = Nothing THEN {} ELSE {writing'.record})
      BY <1>3, <1>8, <1>10, <1>13, <1>14
    <2>4. firm' \subseteq IdsOf(SyncedInLog(log)' \cup Range(imm') \cup InTable(live)')
      <3>1. IdsOf(InTable(files)) \subseteq IdsOf(SyncedInLog(log)' \cup Range(imm') \cup InTable(files))
        BY FewerRecords
      <3> QED
        BY <1>9, <1>10, <3>1
    <2>5. /\ promised' \subseteq IdsOf(Visible') /\ DistinctSequences(Visible')
          /\ \A r \in Visible' : r.seq <= last_sequence'
          /\ writing' = Nothing /\ imm' = <<>>
      BY <1>3, <1>5, <1>9, <1>13, <1>15
    <2>6. \A m \in Logs' : m >= log_number' => InLog(m)' \subseteq Seen'
      <3>1. \A m \in Logs : m >= log => m = log
        BY <1>5
      <3> QED
        BY <1>6, <1>8, <1>10, <3>1
    <2>7. \A k \in LastEdits' :
            /\ log_number' <= CurrentEdits'[k].log /\ CurrentEdits'[k].log <= logfile_number'
            /\ CurrentEdits'[k].next <= next_file_number'
            /\ InTable(live)' \subseteq InTable(VersionAt(k))'
            /\ InTable(VersionAt(k))' \subseteq Visible'
            /\ ~bg_error' /\ (edit' = Nothing \/ k < Len(CurrentEdits')) =>
                  VersionAt(k)' \subseteq live'
      <3>1. InTable(VersionAt(2))' = InTable(files)
        BY <1>7, <1>10 DEF InTable
      <3>2. log <= log /\ next_file_number <= next_file_number
        BY <1>1, <1>5, Parameters DEF TypeOK
      <3> QED
        BY <1>2, <1>3, <1>4, <1>6, <1>7, <1>10, <1>15, <3>1, <3>2
    <2> QED
      BY <1>2, <1>3, <2>1, <2>2, <2>3, <2>4, <2>5, <2>6, <2>7
         DEF RunningInv, IdsOf, DistinctSequences
  <1>17. FlushInv' /\ CompactionInv' /\ EditInv' /\ OpeningInv'
    BY <1>3, <1>6, <1>13 DEF FlushInv, CompactionInv, EditInv, OpeningInv
  <1>18. QuietInv'
    BY <1>1, <1>3, <1>6 DEF QuietInv
  <1>19. ObsoleteInv'
    <2>1. obsolete' = FindObsolete(live', log_number', manifest_file_number, pending_outputs')
      BY <1>3, <1>13
    <2> QED
      BY <1>3, <1>6, <1>13, <2>1, ObsoleteFound
  <1> QED
    BY <1>11, <1>12, <1>16, <1>17, <1>18, <1>19

LEMMA OpenReturnsStep ==
    ASSUME RInv, OpenReturns
    PROVE  BoundInv' /\ DiskInv' /\ QuietInv' /\ OpeningInv' /\ RunningInv'
              /\ FlushInv' /\ CompactionInv' /\ EditInv' /\ ObsoleteInv'
  <1>1. TypeOK /\ BoundInv /\ QuietInv /\ RunningInv /\ ObsoleteInv
    BY DEF RInv
  <1>2. /\ phase = "clean" /\ phase' = "open"
        /\ UNCHANGED <<logs, tables, manifests, current, log_number, next_file_number,
                       last_sequence, manifest_file_number, live, mem, imm, has_imm, writing,
                       logfile_number, pending_outputs, obsolete, edit, flushing, compaction,
                       bg_error, todo, recovered, save_manifest, reuse, written>>
    BY DEF OpenReturns, diskVars, versionVars, writeVars, workVars, openVars
  <1>3. /\ flushing = Nothing /\ compaction = Nothing /\ edit = Nothing /\ ~reuse
    BY <1>1, <1>2 DEF QuietInv
  <1>4. current # NoFile /\ logfile_number \in Logs
    BY <1>1, <1>2 DEF RunningInv
  <1>5. BoundInv'
    BY <1>1, <1>2 DEF BoundInv, Logs, Manifests, InLog
  <1>6. DiskInv'
    <2>1. /\ CurrentEdits' = CurrentEdits /\ LastEdits' = LastEdits
          /\ \A k : VersionAt(k)' = VersionAt(k)
      BY <1>2, SameVersions
    <2>2. ASSUME NEW k \in LastEdits
          PROVE  /\ promised' \subseteq IdsOf(Found(k)') /\ firm' \subseteq IdsOf(FoundSynced(k)')
                 /\ DistinctSequences(Found(k)')
      <3>1. /\ InTable(VersionAt(k))' = InTable(VersionAt(k))
            /\ LogsToRecover(CurrentEdits[k].log)' = LogsToRecover(CurrentEdits[k].log)
            /\ \A n : InLog(n)' = InLog(n) /\ SyncedInLog(n)' = SyncedInLog(n)
        BY <1>2, <2>1 DEF InTable, LogsToRecover, Logs, InLog, SyncedInLog
      <3>2. Found(k)' = Found(k) /\ FoundSynced(k)' = FoundSynced(k)
        BY <2>1, <3>1 DEF Found, FoundSynced, InLogs, SyncedInLogs
      <3>3. InTable(live) \subseteq Found(k) /\ InTable(live) \subseteq FoundSynced(k)
        BY <1>1, <1>2 DEF RunningInv, Found, FoundSynced
      <3>4. DistinctSequences(Found(k))
        BY <1>4, EditsFacts DEF Recoverable
      <3> QED
        BY <3>2, <3>3, <3>4, OpenedFacts DEF IdsOf
    <2>3. \A k \in LastEdits : /\ (promised \subseteq IdsOf(Found(k)))'
                               /\ (firm \subseteq IdsOf(FoundSynced(k)))'
                               /\ DistinctSequences(Found(k))'
      BY <2>2 DEF IdsOf, DistinctSequences
    <2> QED
      BY <1>2, <1>4, <2>3, DiskStep
  <1>7. RunningInv'
    <2>1. Logs' = Logs
      BY <1>2 DEF Logs
    <2>2. promised' = IdsOf(Visible) /\ firm' = IdsOf(InTable(live))
      BY OpenedFacts
    <2> QED
      BY <1>2, <1>4, <2>1, <2>2, RunningKept
  <1>8. QuietInv' /\ OpeningInv'
    BY <1>2, <1>3 DEF QuietInv, OpeningInv
  <1>9. FlushInv' /\ CompactionInv' /\ EditInv' /\ ObsoleteInv'
    BY <1>1, <1>2, <1>3 DEF FlushInv, CompactionInv, EditInv, ObsoleteInv
  <1> QED
    BY <1>5, <1>6, <1>7, <1>8, <1>9

-----------------------------------------------------------------------------
(* The invariant, and what it shows.                                       *)

LEMMA RInvInit ==
    ASSUME Init
    PROVE  RInv
  <1>1. /\ Logs = {} /\ Tables = {} /\ Manifests = {} /\ current = NoFile /\ phase = "down"
    BY DEF Init, Logs, Tables, Manifests
  <1>2. TypeOK
    <2>1. LogTypes /\ ManifestTypes /\ TableTypes
      BY <1>1 DEF Init, LogTypes, ManifestTypes, TableTypes
    <2>2. MemoryTypes
      <3>1. <<>> \in Seq(Records)
        OBVIOUS
      <3>2. NoObsolete \in [logs : SUBSET Numbers, tables : SUBSET Numbers,
                            manifests : SUBSET Numbers]
        BY DEF NoObsolete
      <3>3. 0 \in 0..MaxNumber /\ 2 \in 1..(MaxNumber + 1) /\ 0 \in 0..MaxWrites
        BY Parameters
      <3> QED
        BY <3>1, <3>2, <3>3 DEF Init, MemoryTypes
    <2>3. HistoryTypes
      <3>1. /\ 0 \in 0..MaxWrites /\ 0 \in 0..MaxCrashes /\ 0 \in 0..MaxCompactions
            /\ 0 \in 0..MaxFailures
        BY Parameters
      <3> QED
        BY <3>1 DEF Init, HistoryTypes
    <2> QED
      BY <2>1, <2>2, <2>3, TypeParts
  <1>3. BoundInv
    <2>1. last_sequence = 0 /\ written = 0 /\ writing = Nothing
      BY DEF Init
    <2> QED
      BY <1>1, <2>1 DEF BoundInv
  <1>4. DiskInv
    BY <1>1 DEF Init, DiskInv
  <1>5. QuietInv /\ OpeningInv /\ RunningInv
    BY DEF Init, QuietInv, OpeningInv, RunningInv
  <1>6. FlushInv /\ CompactionInv /\ EditInv
    BY DEF Init, FlushInv, CompactionInv, EditInv
  <1>7. ObsoleteInv
    BY DEF Init, ObsoleteInv, NoObsolete
  <1> QED
    BY <1>2, <1>3, <1>4, <1>5, <1>6, <1>7 DEF RInv

LEMMA StutterStep ==
    ASSUME RInv, UNCHANGED vars
    PROVE  BoundInv' /\ DiskInv' /\ QuietInv' /\ OpeningInv' /\ RunningInv'
              /\ FlushInv' /\ CompactionInv' /\ EditInv' /\ ObsoleteInv'
  <1>1. /\ BoundInv /\ DiskInv /\ QuietInv /\ OpeningInv /\ RunningInv
        /\ FlushInv /\ CompactionInv /\ EditInv /\ ObsoleteInv
    BY DEF RInv
  <1>2. UNCHANGED <<logs, tables, manifests, current, phase, log_number, next_file_number,
                    last_sequence, manifest_file_number, live, mem, imm, has_imm, writing,
                    logfile_number, pending_outputs, obsolete, edit, flushing, compaction,
                    bg_error, todo, recovered, save_manifest, reuse, written, promised, firm>>
    BY DEF vars, diskVars, versionVars, writeVars, workVars, openVars, historyVars
  <1>3. BoundInv' /\ QuietInv' /\ ObsoleteInv'
    BY <1>1, <1>2 DEF BoundInv, QuietInv, ObsoleteInv, Logs, Manifests, InLog
  <1>4. DiskInv'
    <2>1. current = NoFile => phase' = "down"
      BY <1>1, <1>2 DEF DiskInv
    <2> QED
      BY <1>2, <2>1, DiskKept
  <1>5. FlushInv' /\ CompactionInv' /\ EditInv'
    BY <1>2, WorkKept DEF versionVars, workVars
  <1>6. RunningInv'
    <2>1. CASE phase \in {"clean", "open"}
      <3>1. Logs' = Logs /\ logfile_number \in Logs
        BY <1>1, <1>2, <2>1 DEF Logs, RunningInv
      <3> QED
        BY <1>2, <2>1, <3>1, RunningKept
    <2>2. CASE phase \notin {"clean", "open"}
      BY <1>2, <2>2 DEF RunningInv
    <2> QED
      BY <2>1, <2>2
  <1>7. OpeningInv'
    <2>1. /\ InTable(live \cup recovered)' = InTable(live \cup recovered)
          /\ InLogs(todo)' = InLogs(todo) /\ Logs' = Logs /\ Manifests' = Manifests
          /\ \A m : Complete(m)' = Complete(m)
          /\ CurrentEdits' = CurrentEdits /\ Snapshot' = Snapshot
          /\ Edit(logfile_number, recovered, {})' = Edit(logfile_number, recovered, {})
      BY <1>2 DEF InTable, InLogs, InLog, Logs, Manifests, Complete, CurrentEdits, Snapshot, Edit
    <2> QED
      BY <1>1, <1>2, <2>1 DEF OpeningInv, IdsOf, DistinctSequences
  <1> QED
    BY <1>3, <1>4, <1>5, <1>6, <1>7

LEMMA RInvStep ==
    ASSUME RInv, [Next]_vars, ReuseLogs = {FALSE}
    PROVE  RInv'
  <1>1. TypeOK'
    BY TypeStep
  <1>2. CASE ProcessCrash \/ MachineCrash
    BY <1>2, CrashStep
  <1>3. CASE \/ \E sync \in BOOLEAN : AddRecord(sync)
             \/ FinishWrite \/ SwitchLog
    BY <1>1, <1>3, AddRecordStep, FinishWriteStep, SwitchLogStep DEF RInv
  <1>4. CASE \/ StartFlush \/ BuildTable \/ FinishFlush
             \/ StartCompaction \/ InstallCompactionResults \/ FinishCompaction
    BY <1>1, <1>4, StartFlushStep, BuildTableStep, FinishFlushStep, StartCompactionStep,
       InstallStep, FinishCompactionStep DEF RInv
  <1>5. CASE LogAndApplyFails \/ RemoveObsoleteFile
    BY <1>1, <1>5, EditFailsStep, RemovalStep DEF RInv
  <1>6. CASE CreateDatabase \/ RecoverVersion \/ RecoverLogFile \/ OpenLog
    BY <1>1, <1>6, CreateDatabaseStep, RecoverVersionStep, RecoverLogFileStep, OpenLogStep
       DEF RInv
  <1>7. CASE SaveManifest \/ SetCurrentFile \/ FinishOpen \/ OpenReturns
    BY <1>1, <1>7, SaveManifestStep, SetCurrentFileStep, FinishOpenStep, OpenReturnsStep DEF RInv
  <1>8. CASE UNCHANGED vars
    BY <1>1, <1>8, StutterStep DEF RInv
  <1> QED
    BY <1>2, <1>3, <1>4, <1>5, <1>6, <1>7, <1>8 DEF Next

\* What is on disk, and what is in memory, whatever a crash leaves of it, is
\* always enough to open the database with everything it promised.  (The
\* order in which DBImpl and VersionSet write, sync and remove files.)
THEOREM RecoveryInvariant ==
    ASSUME ReuseLogs = {FALSE}
    PROVE  Spec => []RInv
  <1>1. Init => RInv
    BY RInvInit
  <1>2. RInv /\ [Next]_vars => RInv'
    BY RInvStep
  <1> QED
    BY <1>1, <1>2, PTL DEF Spec

\* Files, memtables, edits and counters have the types the code gives them,
\* and nothing is synced that is not there.
THEOREM RecoveryTypeCorrect ==
    ASSUME ReuseLogs = {FALSE}
    PROVE  Spec => []TypeOK
  <1>1. RInv => TypeOK
    BY DEF RInv
  <1> QED
    BY <1>1, RecoveryInvariant, PTL

\* An open database shows every write it said ok to, after any sequence of
\* crashes, but for writes that were not synced when the machine crashed.
\* (DB::Open, CompactMemTable, DoCompactionWork, RemoveObsoleteFiles)
THEOREM PromisesKept ==
    ASSUME ReuseLogs = {FALSE}
    PROVE  Spec => []NothingPromisedIsLost
  <1>1. RInv => NothingPromisedIsLost
    BY DEF RInv, RunningInv, NothingPromisedIsLost, IdsOf
  <1> QED
    BY <1>1, RecoveryInvariant, PTL

\* No version names a table that is not there, and no database that was
\* written is found to be corrupt.  (Recover, RemoveObsoleteFiles,
\* LogAndApply)
THEOREM TablesExist ==
    ASSUME ReuseLogs = {FALSE}
    PROVE  Spec => []LiveTablesExist
  <1>1. RInv => LiveTablesExist
    <2> SUFFICES ASSUME RInv
                 PROVE  LiveTablesExist
      OBVIOUS
    <2>1. TypeOK /\ QuietInv /\ OpeningInv /\ RunningInv
      BY DEF RInv
    <2>2. phase \in {"down", "logs", "save", "install", "clean", "open"}
      BY <2>1 DEF TypeOK, QuietInv
    <2>3. ASSUME phase # "down", NEW n \in live
          PROVE  n \in Tables /\ tables[n] # Partial
      <3>1. Complete(n) /\ n \in Numbers
        BY <2>1, <2>2, <2>3 DEF OpeningInv, RunningInv, TypeOK
      <3> QED
        BY <3>1 DEF Complete, Tables
    <2> QED
      BY <2>1, <2>3 DEF LiveTablesExist, QuietInv
  <1> QED
    BY <1>1, RecoveryInvariant, PTL

\* A sequence number is never given twice: not to a write that was read from
\* a log, a table or left by a crash.  (Recover, RecoverLogFile, LogAndApply)
THEOREM SequencesGrow ==
    ASSUME ReuseLogs = {FALSE}
    PROVE  Spec => []SequencesAdvance
  <1>1. RInv => SequencesAdvance
    BY DEF RInv, RunningInv, SequencesAdvance, DistinctSequences
  <1> QED
    BY <1>1, RecoveryInvariant, PTL

\* What RemoveObsoleteFiles removes without the mutex is needed by nobody:
\* not by the version, a compaction, the memtables or CURRENT.
THEOREM RemovalIsSafe ==
    ASSUME ReuseLogs = {FALSE}
    PROVE  Spec => []NothingNeededIsObsolete
  <1>1. RInv => NothingNeededIsObsolete
    <2> SUFFICES ASSUME RInv
                 PROVE  NothingNeededIsObsolete
      OBVIOUS
    <2>1. TypeOK /\ QuietInv /\ RunningInv /\ ObsoleteInv
      BY DEF RInv
    <2>2. CASE obsolete = NoObsolete
      BY <2>1, <2>2 DEF NothingNeededIsObsolete, NoObsolete
    <2>3. CASE obsolete # NoObsolete
      <3>1. phase \in {"clean", "open"}
        BY <2>3, InUse
      <3>2. /\ log_number \in Nat /\ logfile_number \in Nat /\ current \in Nat
            /\ log_number <= logfile_number /\ current = manifest_file_number
        BY <2>1, <3>1, SeenFacts, Parameters DEF RunningInv, Manifests
      <3>3. \A n \in obsolete.logs : n < log_number /\ n # logfile_number
        <4>1. \A n \in obsolete.logs : n < log_number /\ n \in Nat
          BY <2>1, Parameters DEF ObsoleteInv, TypeOK
        <4> QED
          BY <3>2, <4>1
      <3>4. current \notin obsolete.manifests
        <4>1. \A n \in obsolete.manifests : n < current
          BY <2>1, <3>2 DEF ObsoleteInv
        <4>2. ~(current < current)
          BY <3>2
        <4> QED
          BY <4>1, <4>2
      <3> QED
        BY <2>1, <3>3, <3>4 DEF ObsoleteInv, NothingNeededIsObsolete
    <2> QED
      BY <2>2, <2>3
  <1> QED
    BY <1>1, RecoveryInvariant, PTL

-----------------------------------------------------------------------------
(* What a step may never do.                                               *)

\* While the database is open readers see nothing come or go but the record
\* of the writer, whole: a log switch, a flush, a compaction, a removal of
\* files and an error of the MANIFEST change no answer.
ChangesNoAnswer ==
    phase \in {"clean", "open"} /\ phase' \in {"clean", "open"} =>
        \/ Visible' = Visible
        \/ writing # Nothing /\ Visible' = Visible \cup {writing.record}

OnlyWritesAreSeen == [][ChangesNoAnswer]_vars

\* The tables of the current version, and of every version a crash may leave.
NeededTables ==
    live \cup (IF current = NoFile THEN {} ELSE UNION {VersionAt(k) : k \in LastEdits})

\* A table that is needed is neither written again nor removed.
KeepsNeededTables == \A n \in NeededTables : tables'[n] = tables[n]
NeededTablesStay == [][KeepsNeededTables]_vars

\* A step writes or removes at most one table, and not one that is needed.
LEMMA TableWritten ==
    ASSUME RInv, [Next]_vars
    PROVE  \/ UNCHANGED tables
           \/ \E t \in Numbers \ NeededTables : \A n \in Numbers \ {t} : tables'[n] = tables[n]
  <1>1. TypeOK
    BY DEF RInv
  <1>2. ASSUME NEW t \in Numbers, t \notin live, \A k \in LastEdits : t \notin VersionAt(k)
        PROVE  t \in Numbers \ NeededTables
    BY <1>2 DEF NeededTables
  <1>3. CASE StartFlush \/ StartCompaction
    <2>1. phase = "open" /\ next_file_number \in Numbers
      BY <1>1, <1>3, Parameters DEF StartFlush, StartCompaction, Ready, NewFileNumber, TypeOK
    <2>2. next_file_number \in Numbers \ NeededTables
      BY <1>2, <2>1, SeenFacts
    <2>3. tables' = [tables EXCEPT ![next_file_number] = Partial]
      BY <1>3 DEF StartFlush, StartCompaction
    <2> QED
      BY <1>1, <2>1, <2>2, <2>3, WriteTable
  <1>4. CASE BuildTable
    <2>1. flushing # Nothing /\ edit = Nothing /\ tables' = [tables EXCEPT ![flushing] = Range(imm)]
      BY <1>4 DEF BuildTable
    <2>2. flushing \in Numbers /\ flushing \in Numbers \ NeededTables
      BY <1>1, <1>2, <2>1 DEF RInv, FlushInv, TypeOK
    <2>3. Range(imm) \in SUBSET Records
      BY <1>1, MembersOfSeq DEF TypeOK
    <2> QED
      BY <1>1, <2>1, <2>2, <2>3, WriteTable
  <1>5. CASE InstallCompactionResults
    <2>1. PICK t, u : /\ t = compaction.output
                      /\ u = IF tables[t] = NoFile THEN NoFile
                             ELSE UNION {tables[n] : n \in compaction.inputs}
      OBVIOUS
    <2>2. /\ compaction # Nothing /\ edit = Nothing /\ compaction \in Compactions
          /\ tables' = [tables EXCEPT ![t] = IF @ = NoFile THEN NoFile
                                              ELSE UNION {tables[n] : n \in compaction.inputs}]
      BY <1>1, <1>5, <2>1 DEF InstallCompactionResults, Ready, TypeOK
    <2>3. t \in Numbers /\ t \in Numbers \ NeededTables
      BY <1>2, <2>1, <2>2, Fields DEF RInv, CompactionInv
    <2>4. \A n \in Numbers \ {t} : tables'[n] = tables[n]
      BY <1>1, <2>2, <2>3 DEF TypeOK
    <2> QED
      BY <2>3, <2>4
  <1>6. CASE RemoveObsoleteFile
    <2>1. CASE RemoveTable
      <3>1. PICK t \in obsolete.tables : tables' = [tables EXCEPT ![t] = NoFile]
        BY <2>1 DEF RemoveTable
      <3>2. t \in Numbers /\ obsolete # NoObsolete
        BY <1>1, <3>1 DEF TypeOK, NoObsolete
      <3>3. /\ edit = Nothing /\ ~bg_error /\ t \notin live /\ phase \in {"clean", "open"}
        BY <3>1, <3>2, InUse DEF RInv, ObsoleteInv
      <3>4. \A k \in LastEdits : VersionAt(k) \subseteq live
        BY <3>3 DEF RInv, RunningInv
      <3>5. t \in Numbers \ NeededTables
        BY <1>2, <3>2, <3>3, <3>4
      <3> QED
        BY <1>1, <3>1, <3>2, <3>5, WriteTable
    <2>2. CASE RemoveLog \/ RemoveManifest
      BY <2>2 DEF RemoveLog, RemoveManifest
    <2> QED
      BY <1>6, <2>1, <2>2 DEF RemoveObsoleteFile
  <1>7. CASE RecoverLogFile
    <2>1. PICK t : t = next_file_number
      OBVIOUS
    <2>2. phase = "logs"
      BY <1>7 DEF RecoverLogFile
    <2>3. CASE logs[Min(todo)].records = <<>>
      BY <1>7, <2>3, NextLog
    <2>4. CASE logs[Min(todo)].records # <<>>
      <3>1. t \in Numbers /\ tables' = [tables EXCEPT ![t] = InLog(Min(todo))]
        BY <1>7, <2>1, <2>4, NextLog
      <3>2. t \in Numbers \ NeededTables
        BY <1>2, <2>1, <2>2, <3>1, RecoveredTableIsNew
      <3>3. \A n \in Numbers \ {t} : tables'[n] = tables[n]
        BY <1>1, <3>1 DEF TypeOK
      <3> QED
        BY <3>2, <3>3
    <2> QED
      BY <2>3, <2>4
  <1>8. CASE UNCHANGED vars
    BY <1>8 DEF vars, diskVars
  <1>9. CASE (\E sync \in BOOLEAN : AddRecord(sync)) \/ FinishWrite \/ SwitchLog
    BY <1>9 DEF AddRecord, FinishWrite, SwitchLog
  <1>10. CASE FinishFlush \/ FinishCompaction \/ LogAndApplyFails
    BY <1>10 DEF FinishFlush, FinishCompaction, LogAndApplyFails
  <1>11. CASE CreateDatabase \/ RecoverVersion \/ OpenLog
    BY <1>11 DEF CreateDatabase, RecoverVersion, OpenLog, diskVars
  <1>12. CASE SaveManifest \/ SetCurrentFile \/ FinishOpen \/ OpenReturns
    BY <1>12 DEF SaveManifest, SetCurrentFile, FinishOpen, OpenReturns, diskVars
  <1>13. CASE ProcessCrash \/ MachineCrash
    BY <1>13 DEF ProcessCrash, MachineCrash, diskVars
  <1> QED
    BY <1>3, <1>4, <1>5, <1>6, <1>7, <1>8, <1>9, <1>10, <1>11, <1>12, <1>13 DEF Next

LEMMA NeededTablesKept ==
    ASSUME RInv, [Next]_vars
    PROVE  KeepsNeededTables
  <1>1. TypeOK
    BY DEF RInv
  <1>2. NeededTables \subseteq Numbers
    BY <1>1, EditsFacts DEF NeededTables, TypeOK
  <1> QED
    BY <1>2, TableWritten DEF KeepsNeededTables

\* No table that the version, or the MANIFEST as any crash may leave it,
\* names is written again or removed: not by a flush or a compaction that
\* takes a number of an attempt before, by the removal of obsolete files
\* without the mutex, or by the recovery of a log.  (NewFileNumber,
\* pending_outputs_, RemoveObsoleteFiles, MarkFileNumberUsed)
THEOREM TablesAreImmutable ==
    ASSUME ReuseLogs = {FALSE}
    PROVE  Spec => NeededTablesStay
  <1>1. RInv /\ [Next]_vars => [KeepsNeededTables]_vars
    BY NeededTablesKept
  <1> QED
    BY <1>1, RecoveryInvariant, PTL DEF Spec, NeededTablesStay

LEMMA AnswersStay ==
    ASSUME RInv, [Next]_vars, phase \in {"clean", "open"}, phase' \in {"clean", "open"}
    PROVE  /\ FinishWrite => writing # Nothing /\ Visible' = Visible \cup {writing.record}
           /\ ~FinishWrite => Visible' = Visible
  <1>1. TypeOK /\ QuietInv /\ RunningInv /\ EditInv
    BY DEF RInv
  <1>2. \A n \in live : tables'[n] = tables[n]
    <2>1. live \subseteq NeededTables /\ live \subseteq Numbers
      BY <1>1 DEF NeededTables, TypeOK
    <2> QED
      BY <2>1, TableWritten
  <1>3. ASSUME UNCHANGED <<mem, imm, live>>
        PROVE  Visible' = Visible
    BY <1>2, <1>3 DEF Visible
  <1>4. ASSUME FinishWrite
        PROVE  writing # Nothing /\ Visible' = Visible \cup {writing.record}
    <2>1. /\ writing # Nothing /\ writing.record \in Records /\ mem' = Append(mem, writing.record)
          /\ UNCHANGED <<imm, live>>
      BY <1>4, InUse, Fields DEF FinishWrite
    <2>2. Range(mem') = Range(mem) \cup {writing.record}
      BY <1>1, <2>1, MembersOfAppend DEF TypeOK
    <2> QED
      BY <1>2, <2>1, <2>2 DEF Visible
  <1>5. ASSUME SwitchLog
        PROVE  Visible' = Visible
    <2>1. /\ ~has_imm /\ imm' = mem /\ mem' = <<>> /\ live' = live
      BY <1>5 DEF SwitchLog
    <2>2. imm = <<>>
      BY <1>1, <2>1 DEF RunningInv
    <2>3. Range(<<>>) = {}
      BY DEF Range
    <2> QED
      BY <1>2, <2>1, <2>2, <2>3 DEF Visible
  <1>6. ASSUME NEW version, version = SaveTo(live, edit.edit), live' = version, tables' = tables,
               mem' = mem, Range(imm) \cup InTable(live) = Range(imm') \cup InTable(version)
        PROVE  Visible' = Visible
    <2>1. Visible = Range(mem) \cup Range(imm) \cup InTable(live)
      BY DEF Visible, InTable
    <2>2. Visible' = Range(mem) \cup Range(imm') \cup InTable(version)
      BY <1>6 DEF Visible, InTable
    <2> QED
      BY <1>6, <2>1, <2>2
  <1>7. ASSUME FinishFlush
        PROVE  Visible' = Visible
    <2>1. PICK version : version = SaveTo(live, edit.edit)
      OBVIOUS
    <2>2. /\ live' = version /\ tables' = tables /\ mem' = mem /\ imm' = <<>>
          /\ edit # Nothing /\ edit.by = "flush"
      BY <1>7, <2>1 DEF FinishFlush, InstallVersion
    <2>3. version = live \cup {flushing} /\ tables[flushing] = Range(imm)
      BY <1>1, <2>1, <2>2 DEF EditInv, SaveTo
    <2>4. Range(imm') = {}
      BY <2>2 DEF Range
    <2>5. InTable(version) = InTable(live) \cup Range(imm)
      BY <2>3 DEF InTable
    <2> QED
      BY <1>6, <2>1, <2>2, <2>4, <2>5
  <1>8. ASSUME FinishCompaction
        PROVE  Visible' = Visible
    <2>1. PICK version, t, inputs : /\ version = SaveTo(live, edit.edit)
                                    /\ t = compaction.output /\ inputs = compaction.inputs
      OBVIOUS
    <2>2. /\ live' = version /\ tables' = tables /\ mem' = mem /\ imm' = imm
          /\ edit # Nothing /\ edit.by = "compaction"
      BY <1>8, <2>1 DEF FinishCompaction, InstallVersion, writeVars
    <2>3. /\ version = (live \ inputs) \cup {t} /\ tables[t] = InTable(inputs)
          /\ inputs \subseteq live
      BY <1>1, <2>1, <2>2 DEF EditInv, SaveTo, TypeOK
    <2>4. InTable(version) = InTable(live)
      <3>1. InTable(version) = InTable(live \ inputs) \cup InTable(inputs)
        BY <2>3 DEF InTable
      <3>2. InTable(live) = InTable(live \ inputs) \cup InTable(inputs)
        BY <2>3 DEF InTable
      <3> QED
        BY <3>1, <3>2
    <2> QED
      BY <1>6, <2>1, <2>2, <2>4
  <1>9. ASSUME \E sync \in BOOLEAN : AddRecord(sync)
        PROVE  Visible' = Visible
    BY <1>3, <1>9 DEF AddRecord, versionVars
  <1>10. ASSUME StartFlush \/ StartCompaction \/ BuildTable \/ InstallCompactionResults
        PROVE  Visible' = Visible
    BY <1>3, <1>10 DEF StartFlush, StartCompaction, BuildTable, InstallCompactionResults,
                       versionVars, writeVars
  <1>11. ASSUME LogAndApplyFails \/ RemoveObsoleteFile \/ OpenReturns \/ CreateDatabase
        PROVE  Visible' = Visible
    BY <1>3, <1>11 DEF LogAndApplyFails, RemoveObsoleteFile, OpenReturns, CreateDatabase,
                       versionVars, writeVars
  <1>12. ASSUME UNCHANGED vars
        PROVE  Visible' = Visible
    BY <1>3, <1>12 DEF vars, versionVars, writeVars
  <1>13. ASSUME \/ RecoverVersion \/ RecoverLogFile \/ OpenLog \/ SaveManifest \/ SetCurrentFile
                \/ FinishOpen \/ ProcessCrash \/ MachineCrash
        PROVE  Visible' = Visible
    BY <1>13 DEF RecoverVersion, RecoverLogFile, OpenLog, SaveManifest, SetCurrentFile,
                 FinishOpen, ProcessCrash, MachineCrash, MemoryLost
  <1> QED
    BY <1>4, <1>5, <1>7, <1>8, <1>9, <1>10, <1>11, <1>12, <1>13 DEF Next

\* Between two crashes the records a reader finds change only by whole
\* writes, although imm_, the version and the files under them are replaced
\* meanwhile: the switch of the log, the flush, the compaction, the removal
\* of files and an error of LogAndApply show nothing and hide nothing.
\* (MakeRoomForWrite, CompactMemTable, InstallCompactionResults,
\* RemoveObsoleteFiles)
THEOREM BackgroundWorkIsInvisible ==
    ASSUME ReuseLogs = {FALSE}
    PROVE  Spec => OnlyWritesAreSeen
  <1>1. RInv /\ [Next]_vars => [ChangesNoAnswer]_vars
    BY AnswersStay DEF ChangesNoAnswer
  <1> QED
    BY <1>1, RecoveryInvariant, PTL DEF Spec, OnlyWritesAreSeen
-----------------------------------------------------------------------------
(* The refinement of DurableStore.                                         *)

\* An open database shows what is promised, and DB::Open makes up nothing.
StoreInv ==
    /\ phase = "open" => IdsOf(Visible) = promised
    /\ phase \in {"logs", "save", "install"} =>
          InTable(live \cup recovered) \cup InLogs(todo) \subseteq MayBeFound

\* Every version that a crash may leave can be opened.
LEMMA AllVersionsCount ==
    RInv /\ current # NoFile => MayBeFound = UNION {Found(k) : k \in LastEdits}
  <1> SUFFICES ASSUME RInv, current # NoFile
               PROVE  MayBeFound = UNION {Found(k) : k \in LastEdits}
    OBVIOUS
  <1>1. \A k \in LastEdits : \A n \in VersionAt(k) : Complete(n)
    BY EditsFacts DEF Recoverable
  <1> QED
    BY <1>1 DEF MayBeFound

\* When CURRENT names the new MANIFEST, the recovered tables are all there is.
LEMMA InstalledFacts ==
    RInv /\ phase = "install" /\ current = manifest_file_number =>
        MayBeFound = InTable(live \cup recovered) /\ InLogs(todo) = {}
  <1> SUFFICES ASSUME RInv, phase = "install", current = manifest_file_number
               PROVE  MayBeFound = InTable(live \cup recovered) /\ InLogs(todo) = {}
    OBVIOUS
  <1>1. TypeOK /\ OpeningInv
    BY DEF RInv
  <1>2. PICK e, s, log : /\ e = Edit(logfile_number, recovered, {}) /\ s = Snapshot
                         /\ log = logfile_number
    OBVIOUS
  <1>3. /\ current # NoFile /\ CurrentEdits = <<s, e>> /\ manifests[current].synced = 2
        /\ todo = {} /\ log \in Logs /\ logs[log].records = <<>> /\ \A n \in Logs : n <= log
    BY <1>1, <1>2 DEF OpeningInv, CurrentEdits
  <1>4. /\ Len(<<s, e>>) = 2 /\ <<s, e>>[2] = e /\ e.log = log
        /\ VersionAfter(<<s, e>>, 2) = live \cup recovered
    BY <1>2, SnapshotFacts
  <1>5. LastEdits = {2} /\ VersionAt(2) = live \cup recovered /\ CurrentEdits[2].log = log
    BY <1>3, <1>4 DEF LastEdits, VersionAt
  <1>6. InLogs({}) = {} /\ InLog(log) = {}
    BY <1>3 DEF InLogs, InLog, Range
  <1>7. InLogs(LogsToRecover(log)) = {}
    <2>1. \A n \in Logs : n \in Nat
      BY Parameters DEF Logs
    <2>2. LogsToRecover(log) \subseteq {log}
      BY <1>3, <2>1 DEF LogsToRecover
    <2> QED
      BY <1>6, <2>2 DEF InLogs
  <1>8. Found(2) = InTable(live \cup recovered)
    BY <1>5, <1>7 DEF Found
  <1> QED
    BY <1>3, <1>5, <1>6, <1>8, AllVersionsCount

LEMMA InstalledNext ==
    ASSUME RInv', phase' = "install", current' = manifest_file_number'
    PROVE  MayBeFound' = InTable(live \cup recovered)' /\ InLogs(todo)' = {}
  <1>1. (RInv /\ phase = "install" /\ current = manifest_file_number =>
            MayBeFound = InTable(live \cup recovered) /\ InLogs(todo) = {})'
    BY InstalledFacts, PTL
  <1> QED
    BY <1>1
\* A step that leaves the versions alone and takes records only away from
\* logs lets DB::Open find nothing new.
LEMMA NothingNewFound ==
    ASSUME RInv, [Next]_vars, current # NoFile, UNCHANGED current,
           \A k \in LastEdits' : /\ k \in LastEdits /\ VersionAt(k)' = VersionAt(k)
                                 /\ CurrentEdits'[k] = CurrentEdits[k],
           \A n \in Logs' : InLog(n)' # {} => n \in Logs /\ InLog(n)' \subseteq InLog(n)
    PROVE  MayBeFound' \subseteq MayBeFound
  <1>1. ASSUME NEW k \in LastEdits'
        PROVE  Found(k)' \subseteq Found(k) /\ k \in LastEdits
    <2>1. PICK log : log = CurrentEdits[k].log
      OBVIOUS
    <2>2. CurrentEdits'[k].log = log /\ k \in LastEdits /\ VersionAt(k)' = VersionAt(k)
      BY <2>1
    <2>3. InTable(VersionAt(k))' = InTable(VersionAt(k))
      <3>1. VersionAt(k) \subseteq NeededTables
        BY <2>2 DEF NeededTables
      <3>2. \A n \in VersionAt(k) : tables'[n] = tables[n]
        BY <3>1, NeededTablesKept DEF KeepsNeededTables
      <3> QED
        BY <2>2, <3>2 DEF InTable
    <2>4. InLogs(LogsToRecover(CurrentEdits[k].log))' \subseteq InLogs(LogsToRecover(log))
      BY <2>2 DEF InLogs, LogsToRecover
    <2> QED
      BY <2>1, <2>2, <2>3, <2>4 DEF Found
  <1>2. MayBeFound' \subseteq UNION {Found(k)' : k \in LastEdits'}
    BY DEF MayBeFound
  <1>3. MayBeFound = UNION {Found(k) : k \in LastEdits}
    BY AllVersionsCount
  <1> QED
    BY <1>1, <1>2, <1>3

\* If also the edits and the records stay, it finds the same.
LEMMA SameFound ==
    ASSUME RInv, [Next]_vars, current # NoFile, UNCHANGED current,
           manifests'[current] = manifests[current],
           Logs \subseteq Logs', \A n \in Logs : InLog(n)' = InLog(n),
           \A n \in Logs' \ Logs : InLog(n)' = {}
    PROVE  MayBeFound' = MayBeFound
  <1>1. /\ CurrentEdits' = CurrentEdits /\ LastEdits' = LastEdits
        /\ \A k : VersionAt(k)' = VersionAt(k)
    BY SameVersions
  <1>2. MayBeFound' \subseteq MayBeFound
    BY <1>1, NothingNewFound
  <1>3. ASSUME NEW k \in LastEdits
        PROVE  Found(k) \subseteq Found(k)' /\ \A n \in VersionAt(k) : Complete(n)'
    <2>1. PICK log : log = CurrentEdits[k].log
      OBVIOUS
    <2>2. CurrentEdits'[k].log = log /\ VersionAt(k)' = VersionAt(k) /\ Recoverable(k)
      BY <1>1, <2>1, EditsFacts
    <2>3. \A n \in VersionAt(k) : tables'[n] = tables[n]
      <3>1. VersionAt(k) \subseteq NeededTables
        BY DEF NeededTables
      <3> QED
        BY <3>1, NeededTablesKept DEF KeepsNeededTables
    <2>4. InTable(VersionAt(k))' = InTable(VersionAt(k)) /\ \A n \in VersionAt(k) : Complete(n)'
      BY <2>2, <2>3 DEF InTable, Complete, Recoverable
    <2>5. InLogs(LogsToRecover(log)) \subseteq InLogs(LogsToRecover(CurrentEdits[k].log))'
      BY <2>2 DEF InLogs, LogsToRecover
    <2> QED
      BY <2>1, <2>2, <2>4, <2>5 DEF Found
  <1>4. MayBeFound \subseteq MayBeFound'
    <2>1. /\ MayBeFound = UNION {Found(k) : k \in LastEdits}
          /\ MayBeFound' = UNION {Found(k)' : k \in LastEdits'}
      <3>1. \A k \in LastEdits' : \A n \in VersionAt(k)' : Complete(n)'
        BY <1>1, <1>3
      <3>2. MayBeFound' = UNION {Found(k)' : k \in LastEdits'}
        BY <3>1 DEF MayBeFound
      <3> QED
        BY <3>2, AllVersionsCount
    <2> QED
      BY <1>1, <1>3, <2>1
  <1> QED
    BY <1>2, <1>4
\* Reading the files and writing new ones changes nothing that is found ...
LEMMA OpeningKeepsFound ==
    ASSUME RInv, RecoverVersion \/ RecoverLogFile \/ OpenLog \/ SaveManifest
    PROVE  current # NoFile /\ MayBeFound' = MayBeFound
  <1>1. TypeOK /\ QuietInv /\ OpeningInv /\ [Next]_vars
    BY DEF RInv, Next
  <1>2. current # NoFile
    <2>1. CASE RecoverVersion
      BY <2>1 DEF RecoverVersion
    <2>2. CASE RecoverLogFile \/ OpenLog \/ SaveManifest
      BY <1>1, <2>2 DEF OpeningInv, RecoverLogFile, OpenLog, SaveManifest
    <2> QED
      BY <2>1, <2>2
  <1>3. CASE RecoverVersion \/ RecoverLogFile
    <2>1. UNCHANGED <<logs, manifests, current>>
      BY <1>3 DEF RecoverVersion, RecoverLogFile, diskVars
    <2>2. Logs' = Logs /\ \A n \in Logs : InLog(n)' = InLog(n)
      BY <2>1 DEF Logs, InLog
    <2> QED
      BY <1>1, <1>2, <2>1, <2>2, SameFound
  <1>4. CASE OpenLog
    <2>1. PICK t : t = next_file_number
      OBVIOUS
    <2>2. phase = "logs" /\ todo = {} /\ logfile_number = 0
      BY <1>1, <1>4 DEF OpenLog, QuietInv
    <2>3. /\ t <= MaxNumber /\ logs' = [logs EXCEPT ![t] = [records |-> <<>>, synced |-> 0]]
          /\ UNCHANGED <<tables, manifests, current, promised, firm>>
      BY <1>4, <2>1, <2>2 DEF OpenLog, NewFileNumber, historyVars
    <2>4. t \in Numbers /\ t \notin Logs
      <3>1. t \in Numbers /\ t \in Nat /\ \A n \in Logs : n \in Nat
        BY <1>1, <2>1, <2>3, Parameters DEF TypeOK, Logs
      <3>2. \A n \in Logs : n < t
        BY <1>1, <2>1, <2>2 DEF OpeningInv
      <3> QED
        BY <3>1, <3>2
    <2>5. /\ Logs' = Logs \cup {t} /\ InLog(t)' = {} /\ \A n \in Logs : InLog(n)' = InLog(n)
      BY <1>2, <2>3, <2>4, NewLogKeepsFound
    <2> QED
      BY <1>1, <1>2, <2>3, <2>5, SameFound
  <1>5. CASE SaveManifest
    <2>1. PICK n, f : /\ n = manifest_file_number
                      /\ f = [records |-> <<Snapshot, Edit(logfile_number, recovered, {})>>,
                              synced |-> 0]
      OBVIOUS
    <2>2. /\ phase = "save" /\ UNCHANGED <<logs, current>>
          /\ manifests' = [manifests EXCEPT ![n] = f]
      BY <1>1, <1>5, <2>1 DEF SaveManifest, QuietInv
    <2>3. current # n /\ current \in Numbers
      BY <1>1, <1>2, <2>1, <2>2, EditsFacts DEF OpeningInv
    <2>4. manifests'[current] = manifests[current]
      BY <1>1, <2>2, <2>3 DEF TypeOK
    <2>5. Logs' = Logs /\ \A m \in Logs : InLog(m)' = InLog(m)
      BY <2>2 DEF Logs, InLog
    <2> QED
      BY <1>1, <1>2, <2>2, <2>4, <2>5, SameFound
  <1> QED
    BY <1>2, <1>3, <1>4, <1>5

\* ... and neither crashes nor the rest of DB::Open can add to it.
LEMMA CrashFindsNothingNew ==
    ASSUME RInv, ProcessCrash \/ MachineCrash
    PROVE  MayBeFound' \subseteq MayBeFound
  <1>1. TypeOK /\ [Next]_vars
    BY DEF RInv, Next
  <1>2. CASE ProcessCrash
    <2>1. UNCHANGED <<logs, manifests, current>>
      BY <1>2 DEF ProcessCrash, diskVars
    <2>2. CASE current = NoFile
      BY <2>1, <2>2 DEF MayBeFound
    <2>3. CASE current # NoFile
      <3>1. Logs' = Logs /\ \A n \in Logs : InLog(n)' = InLog(n)
        BY <2>1 DEF Logs, InLog
      <3> QED
        BY <1>1, <2>1, <2>3, <3>1, SameFound
    <2> QED
      BY <2>2, <2>3
  <1>3. CASE MachineCrash
    <2>1. /\ current # NoFile /\ Logs' = Logs /\ UNCHANGED current
          /\ \A n \in Logs : InLog(n)' \subseteq InLog(n)
      BY <1>3, MachineLeaves DEF MachineCrash
    <2>2. PICK k \in LastEdits : /\ LastEdits' = {k} /\ CurrentEdits'[k] = CurrentEdits[k]
                                 /\ VersionAt(k)' = VersionAt(k)
      BY <1>3, MachineLeaves
    <2> QED
      BY <1>1, <2>1, <2>2, NothingNewFound
  <1> QED
    BY <1>2, <1>3

LEMMA RemovalFindsNothingNew ==
    ASSUME RInv, RemoveObsoleteFile
    PROVE  MayBeFound' \subseteq MayBeFound
  <1>1. TypeOK /\ [Next]_vars /\ UNCHANGED current
    BY DEF RInv, Next, RemoveObsoleteFile
  <1>2. obsolete # NoObsolete
    BY DEF RemoveObsoleteFile, RemoveLog, RemoveTable, RemoveManifest, NoObsolete
  <1>3. phase \in {"clean", "open"} /\ current = manifest_file_number /\ current \in Numbers
    BY <1>2, InUse DEF Manifests
  <1>4. current # NoFile
    BY <1>3, Fields
  <1>5. manifests'[current] = manifests[current]
    <2>1. CASE RemoveLog \/ RemoveTable
      BY <2>1 DEF RemoveLog, RemoveTable
    <2>2. CASE RemoveManifest
      <3>1. PICK n \in obsolete.manifests : manifests' = [manifests EXCEPT ![n] = NoFile]
        BY <2>2 DEF RemoveManifest
      <3>2. n < manifest_file_number
        BY <3>1 DEF RInv, ObsoleteInv
      <3>3. n # current
        BY <1>3, <3>2, Parameters
      <3> QED
        BY <1>1, <1>3, <3>1, <3>3 DEF TypeOK
    <2> QED
      BY <2>1, <2>2 DEF RemoveObsoleteFile
  <1>6. \A n \in Logs' : n \in Logs /\ InLog(n)' = InLog(n)
    <2>1. CASE RemoveTable \/ RemoveManifest
      BY <2>1 DEF RemoveTable, RemoveManifest, Logs, InLog
    <2>2. CASE RemoveLog
      <3>1. PICK n \in obsolete.logs : logs' = [logs EXCEPT ![n] = NoFile]
        BY <2>2 DEF RemoveLog
      <3>2. \A m \in Numbers : logs'[m] = IF m = n THEN NoFile ELSE logs[m]
        BY <1>1, <3>1 DEF TypeOK
      <3> QED
        BY <3>2 DEF Logs, InLog
    <2> QED
      BY <2>1, <2>2 DEF RemoveObsoleteFile
  <1> QED
    BY <1>1, <1>4, <1>5, <1>6, SameVersions, NothingNewFound

LEMMA InstallingFindsNothingNew ==
    ASSUME RInv, RInv', StoreInv, SetCurrentFile \/ FinishOpen
    PROVE  MayBeFound' \subseteq MayBeFound
  <1>1. TypeOK /\ OpeningInv /\ [Next]_vars
    BY DEF RInv, Next
  <1>2. phase = "install" /\ current # NoFile
    BY <1>1 DEF SetCurrentFile, FinishOpen, OpeningInv
  <1>3. CASE SetCurrentFile
    <2>1. /\ phase' = "install" /\ current' = manifest_file_number'
          /\ UNCHANGED <<tables, live, recovered>>
      BY <1>2, <1>3 DEF SetCurrentFile, versionVars, openVars
    <2>2. MayBeFound' = InTable(live \cup recovered)'
      BY <2>1, InstalledNext
    <2>3. InTable(live \cup recovered)' = InTable(live \cup recovered)
      BY <2>1 DEF InTable
    <2> QED
      BY <1>2, <2>2, <2>3 DEF StoreInv
  <1>4. CASE FinishOpen
    <2>1. /\ UNCHANGED <<logs, current>> /\ current = manifest_file_number /\ SyncManifest
      BY <1>4 DEF FinishOpen, InstallVersion
    <2>2. /\ CurrentEdits' = CurrentEdits /\ LastEdits' = {Len(CurrentEdits)}
          /\ \A k : VersionAt(k)' = VersionAt(k)
      BY <1>2, <2>1, SyncedVersions
    <2>3. Logs' = Logs /\ \A n \in Logs : InLog(n)' = InLog(n)
      BY <2>1 DEF Logs, InLog
    <2> QED
      BY <1>1, <1>2, <2>1, <2>2, <2>3, EditsFacts, NothingNewFound
  <1> QED
    BY <1>3, <1>4
\* The steps that a client does not notice.
Quiet ==
    /\ [Next]_vars
    /\ ~(\E sync \in BOOLEAN : AddRecord(sync)) /\ ~FinishWrite /\ ~OpenReturns
    /\ ~ProcessCrash /\ ~MachineCrash

LEMMA QuietSteps ==
    ASSUME RInv, Quiet
    PROVE  /\ UNCHANGED <<written, promised, writing>> /\ firm \subseteq firm'
           /\ phase' = "open" <=> phase = "open"
  <1>1. CASE UNCHANGED vars
    BY <1>1 DEF vars, writeVars, historyVars
  <1>2. CASE SwitchLog \/ StartFlush \/ BuildTable \/ StartCompaction \/ InstallCompactionResults
    BY <1>2 DEF SwitchLog, StartFlush, BuildTable, StartCompaction, InstallCompactionResults,
                writeVars, historyVars
  <1>3. CASE FinishFlush \/ FinishCompaction \/ LogAndApplyFails \/ RemoveObsoleteFile
    BY <1>3 DEF FinishFlush, FinishCompaction, LogAndApplyFails, RemoveObsoleteFile,
                InstallVersion, writeVars, historyVars
  <1>4. CASE CreateDatabase \/ RecoverVersion \/ RecoverLogFile
    BY <1>4 DEF CreateDatabase, RecoverVersion, RecoverLogFile, writeVars, historyVars
  <1>5. CASE OpenLog \/ SaveManifest \/ SetCurrentFile \/ FinishOpen
    BY <1>5 DEF OpenLog, SaveManifest, SetCurrentFile, FinishOpen, InstallVersion, writeVars,
                historyVars
  <1> QED
    BY <1>1, <1>2, <1>3, <1>4, <1>5 DEF Quiet, Next

\* While the database is closed or being opened, nothing is added to what
\* may be found.
LEMMA FoundShrinks ==
    ASSUME RInv, RInv', StoreInv, Quiet, phase # "open"
    PROVE  MayBeFound' \subseteq MayBeFound
  <1>1. QuietInv /\ EditInv /\ [Next]_vars
    BY DEF RInv, Quiet
  <1>2. CASE UNCHANGED vars
    BY <1>2 DEF vars, diskVars, MayBeFound, Found, InTable, InLogs, InLog, LogsToRecover, Logs,
                LastEdits, CurrentEdits, VersionAt, Complete
  <1>3. ~(SwitchLog \/ StartFlush \/ BuildTable \/ FinishFlush \/ StartCompaction
            \/ InstallCompactionResults \/ FinishCompaction \/ LogAndApplyFails)
    <2>1. flushing = Nothing /\ compaction = Nothing
      BY <1>1 DEF QuietInv
    <2>2. edit = Nothing \/ (edit.by # "flush" /\ edit.by # "compaction")
      BY <1>1, <2>1 DEF EditInv
    <2> QED
      BY <2>1, <2>2 DEF SwitchLog, StartFlush, BuildTable, FinishFlush, StartCompaction,
                        InstallCompactionResults, FinishCompaction, LogAndApplyFails, Ready
  <1>4. CASE CreateDatabase
    <2>1. PICK e, f : /\ e = [log |-> 0, next |-> 2, last |-> 0, added |-> {}, removed |-> {}]
                      /\ f = [records |-> <<e>>, synced |-> 1]
      OBVIOUS
    <2>2. LastEdits' = {1} /\ Found(1)' = {}
      BY <1>4, <2>1, NothingInNewDatabase
    <2> QED
      BY <2>2 DEF MayBeFound
  <1>5. CASE RecoverVersion \/ RecoverLogFile \/ OpenLog \/ SaveManifest
    BY <1>5, OpeningKeepsFound
  <1>6. CASE SetCurrentFile \/ FinishOpen
    BY <1>6, InstallingFindsNothingNew
  <1>7. CASE RemoveObsoleteFile
    BY <1>7, RemovalFindsNothingNew
  <1> QED
    BY <1>1, <1>2, <1>3, <1>4, <1>5, <1>6, <1>7 DEF Next, Quiet

LEMMA OpenedStep ==
    ASSUME RInv, StoreInv, [Next]_vars, phase' = "open"
    PROVE  IdsOf(Visible)' = promised'
  <1>1. CASE OpenReturns
    <2>1. Visible' = Visible
      BY <1>1, AnswersStay DEF OpenReturns, FinishWrite
    <2>2. IdsOf(Visible) = promised'
      BY <1>1, OpenedFacts
    <2> QED
      BY <2>1, <2>2 DEF IdsOf
  <1>2. ASSUME ~OpenReturns
        PROVE  phase = "open" /\ ~ProcessCrash /\ ~MachineCrash
    <2>1. ~ProcessCrash /\ ~MachineCrash
      BY DEF ProcessCrash, MachineCrash, MemoryLost
    <2>2. CASE Quiet
      BY <2>1, <2>2, QuietSteps
    <2>3. CASE FinishWrite \/ \E sync \in BOOLEAN : AddRecord(sync)
      BY <2>1, <2>3 DEF FinishWrite, AddRecord
    <2> QED
      BY <1>2, <2>1, <2>2, <2>3 DEF Quiet
  <1>3. CASE FinishWrite
    <2>1. ~OpenReturns
      BY <1>3, InUse DEF FinishWrite, OpenReturns
    <2>2. Visible' = Visible \cup {writing.record} /\ IdsOf(Visible) = promised
      BY <1>2, <1>3, <2>1, AnswersStay DEF StoreInv
    <2>3. promised' = promised \cup {writing.record.id}
      BY <1>3 DEF FinishWrite
    <2> QED
      BY <2>2, <2>3 DEF IdsOf
  <1>4. CASE ~OpenReturns /\ ~FinishWrite
    <2>1. Visible' = Visible /\ IdsOf(Visible) = promised
      BY <1>2, <1>4, AnswersStay DEF StoreInv
    <2>2. promised' = promised
      <3>1. CASE Quiet
        BY <3>1, QuietSteps
      <3>2. CASE \E sync \in BOOLEAN : AddRecord(sync)
        BY <3>2 DEF AddRecord
      <3> QED
        BY <1>2, <1>4, <3>1, <3>2 DEF Quiet
    <2> QED
      BY <2>1, <2>2 DEF IdsOf
  <1> QED
    BY <1>1, <1>3, <1>4
LEMMA StoreInvStep ==
    ASSUME RInv, RInv', StoreInv, [Next]_vars, ReuseLogs = {FALSE}
    PROVE  StoreInv'
  <1>1. TypeOK /\ QuietInv /\ OpeningInv
    BY DEF RInv
  <1>2. phase' = "open" => IdsOf(Visible)' = promised'
    BY OpenedStep
  <1> DEFINE Gathered == InTable(live \cup recovered) \cup InLogs(todo)
  <1>3. CASE UNCHANGED vars
    <2>1. MayBeFound' = MayBeFound
      BY <1>3 DEF vars, diskVars, MayBeFound, Found, InTable, InLogs, InLog, LogsToRecover, Logs,
                  LastEdits, CurrentEdits, VersionAt, Complete
    <2>2. UNCHANGED <<phase, tables, logs, live, recovered, todo>>
      BY <1>3 DEF vars, diskVars, versionVars, openVars
    <2>3. Gathered' = Gathered
      BY <2>2 DEF InTable, InLogs, InLog
    <2> QED
      BY <1>2, <2>1, <2>2, <2>3 DEF StoreInv
  <1>4. CASE RecoverVersion
    <2>1. PICK L, version, files :
             /\ L = Len(CurrentEdits) /\ version = VersionAt(L)
             /\ files = LogsToRecover(CurrentEdits[L].log)
      OBVIOUS
    <2>2. current # NoFile /\ MayBeFound' = MayBeFound
      BY <1>4, OpeningKeepsFound
    <2>3. /\ live' = version /\ todo' = files /\ recovered' = {}
          /\ UNCHANGED <<tables, logs>> /\ phase' # "open"
      BY <1>1, <1>4, <2>1
         DEF RecoverVersion, Last, CurrentEdits, VersionAt, diskVars, QuietInv
    <2>4. Gathered' = Found(L)
      BY <2>1, <2>3 DEF Found, InTable, InLogs, InLog
    <2>5. Found(L) \subseteq MayBeFound
      BY <2>1, <2>2, EditsFacts, AllVersionsCount
    <2> QED
      BY <1>2, <2>2, <2>4, <2>5 DEF StoreInv
  <1>5. CASE RecoverLogFile
    <2>1. PICK log, t : log = Min(todo) /\ t = next_file_number
      OBVIOUS
    <2>2. /\ phase = "logs" /\ phase' = "logs" /\ UNCHANGED <<live, logs>>
          /\ log \in todo /\ todo' = todo \ {log}
      BY <1>5, <2>1, NextLog DEF RecoverLogFile
    <2>3. Gathered' \subseteq Gathered
      <3>1. InLogs(todo)' \subseteq InLogs(todo) /\ InLog(log) \subseteq InLogs(todo)
        BY <2>2 DEF InLogs, InLog
      <3>2. CASE logs[log].records = <<>>
        <4>1. InTable(live \cup recovered)' = InTable(live \cup recovered)
          BY <1>5, <2>1, <2>2, <3>2, NextLog DEF InTable
        <4> QED
          BY <3>1, <4>1
      <3>3. CASE logs[log].records # <<>>
        <4>1. /\ t \in Numbers /\ tables' = [tables EXCEPT ![t] = InLog(log)]
              /\ recovered' = recovered \cup {t}
          BY <1>5, <2>1, <3>3, NextLog
        <4>2. \A n \in Numbers : tables'[n] = IF n = t THEN InLog(log) ELSE tables[n]
          BY <1>1, <4>1 DEF TypeOK
        <4>3. live \cup recovered \subseteq Numbers
          BY <1>1 DEF TypeOK
        <4>4. InTable(live \cup recovered)' \subseteq InTable(live \cup recovered) \cup InLog(log)
          BY <2>2, <4>1, <4>2, <4>3 DEF InTable
        <4> QED
          BY <3>1, <4>4
      <3> QED
        BY <3>2, <3>3
    <2>4. Gathered \subseteq MayBeFound /\ MayBeFound' = MayBeFound
      BY <1>5, <2>2, OpeningKeepsFound DEF StoreInv
    <2> QED
      BY <1>2, <2>3, <2>4 DEF StoreInv
  <1>6. CASE OpenLog \/ SaveManifest
    <2>1. /\ phase \in {"logs", "save"} /\ UNCHANGED <<tables, live, recovered, todo>>
          /\ todo = {}
      BY <1>1, <1>6 DEF OpenLog, SaveManifest, OpeningInv, versionVars, openVars
    <2>2. Gathered' = Gathered
      BY <2>1 DEF InTable, InLogs
    <2>3. Gathered \subseteq MayBeFound /\ MayBeFound' = MayBeFound
      BY <1>6, <2>1, OpeningKeepsFound DEF StoreInv
    <2> QED
      BY <1>2, <2>2, <2>3 DEF StoreInv
  <1>7. CASE SetCurrentFile
    <2>1. phase' = "install" /\ current' = manifest_file_number'
      BY <1>7 DEF SetCurrentFile, versionVars
    <2>2. MayBeFound' = InTable(live \cup recovered)' /\ InLogs(todo)' = {}
      BY <2>1, InstalledNext
    <2> QED
      BY <1>2, <2>2 DEF StoreInv
  <1>8. ASSUME \/ \E sync \in BOOLEAN : AddRecord(sync)
               \/ FinishWrite \/ SwitchLog \/ StartFlush \/ BuildTable \/ StartCompaction
               \/ InstallCompactionResults
        PROVE  phase' \notin {"logs", "save", "install"}
    BY <1>1, <1>8, InUse DEF AddRecord, FinishWrite, SwitchLog, StartFlush, BuildTable,
                             StartCompaction, InstallCompactionResults, Ready
  <1>9. ASSUME FinishFlush \/ FinishCompaction \/ LogAndApplyFails
        PROVE  phase' \notin {"logs", "save", "install"}
    <2>1. phase = "open"
      BY <1>9, InUse DEF RInv, EditInv, FinishFlush, FinishCompaction, LogAndApplyFails
    <2> QED
      BY <1>9, <2>1 DEF FinishFlush, FinishCompaction, LogAndApplyFails
  <1>10. ASSUME RemoveObsoleteFile
         PROVE  phase' \notin {"logs", "save", "install"}
    <2>1. obsolete # NoObsolete
      BY <1>10 DEF RemoveObsoleteFile, RemoveLog, RemoveTable, RemoveManifest, NoObsolete
    <2> QED
      BY <1>10, <2>1, InUse DEF RemoveObsoleteFile
  <1>11. ASSUME \/ CreateDatabase \/ FinishOpen \/ OpenReturns \/ ProcessCrash \/ MachineCrash
         PROVE  phase' \notin {"logs", "save", "install"}
    BY <1>11 DEF CreateDatabase, FinishOpen, OpenReturns, ProcessCrash, MachineCrash, MemoryLost
  <1>12. CASE phase' \notin {"logs", "save", "install"}
    BY <1>2, <1>12 DEF StoreInv
  <1> QED
    BY <1>3, <1>4, <1>5, <1>6, <1>7, <1>8, <1>9, <1>10, <1>11, <1>12 DEF Next
-----------------------------------------------------------------------------
(* Each step is a step of DurableStore.                                    *)

\* What was not returned is one write.
LEMMA PendingFacts ==
    /\ writing = Nothing => Pending = {}
    /\ writing # Nothing => Pending = {[id |-> writing.record.id, sync |-> writing.sync]}
    /\ IdsOf(Seen) = IdsOf(Visible) \cup {w.id : w \in Pending}
  <1>1. CASE writing = Nothing
    BY <1>1 DEF Pending, Seen, IdsOf
  <1>2. CASE writing # Nothing
    <2>1. PICK w : w = [id |-> writing.record.id, sync |-> writing.sync]
      OBVIOUS
    <2>2. Pending = {w} /\ w.id = writing.record.id /\ Seen = Visible \cup {writing.record}
      BY <1>2, <2>1 DEF Pending, Seen
    <2> QED
      BY <1>2, <2>1, <2>2 DEF IdsOf
  <1> QED
    BY <1>1, <1>2

LEMMA AddRecordBegins ==
    ASSUME RInv, RInv', StoreInv', NEW sync \in BOOLEAN, AddRecord(sync)
    PROVE  Store!BeginWrite(sync)
  <1>1. PICK record : record = [id |-> written + 1, seq |-> last_sequence + 1]
    OBVIOUS
  <1>2. /\ phase = "open" /\ phase' = "open" /\ writing = Nothing /\ written' = written + 1
        /\ writing' = [record |-> record, sync |-> sync]
        /\ UNCHANGED <<promised, firm>> /\ ~FinishWrite
    BY <1>1 DEF AddRecord, FinishWrite
  <1>3. writing' # Nothing
    <2>1. TypeOK'
      BY DEF RInv
    <2>2. written + 1 \in Ids /\ last_sequence + 1 \in Ids
      <3>1. /\ last_sequence \in Nat /\ last_sequence <= written /\ written \in Nat
            /\ written < MaxWrites
        BY Parameters DEF RInv, TypeOK, BoundInv, AddRecord
      <3> QED
        BY <3>1, Parameters
    <2>3. record \in Records
      BY <1>1, <2>2 DEF Records
    <2>4. writing' \in PendingWrites
      BY <1>2, <2>3 DEF PendingWrites
    <2> QED
      BY <2>4, Fields
  <1>4. Pending = {} /\ Pending' = {[id |-> written', sync |-> sync]}
    BY <1>1, <1>2, <1>3 DEF Pending
  <1>5. Visible' = Visible
    BY <1>2, AnswersStay DEF Next
  <1>6. Contents' = Contents /\ Doubt' = Doubt
    BY <1>2, <1>5 DEF Contents, Doubt, IdsOf
  <1> QED
    BY <1>2, <1>4, <1>6 DEF Store!BeginWrite

LEMMA FinishWriteEnds ==
    ASSUME RInv, FinishWrite
    PROVE  \E w \in Pending : Store!EndWrite(w)
  <1>1. /\ writing # Nothing /\ phase = "open" /\ phase' = "open" /\ writing' = Nothing
        /\ UNCHANGED written
    BY InUse DEF FinishWrite
  <1>2. PICK w : w = [id |-> writing.record.id, sync |-> writing.sync]
    OBVIOUS
  <1>3. w \in Pending /\ Pending' = {} /\ w.id = writing.record.id /\ w.sync = writing.sync
    BY <1>1, <1>2 DEF Pending
  <1>4. Visible' = Visible \cup {writing.record}
    BY <1>1, AnswersStay DEF Next
  <1>5. Contents' = Contents \cup {w.id} /\ Doubt' = Doubt
    BY <1>1, <1>3, <1>4 DEF Contents, Doubt, IdsOf
  <1>6. firm' = IF w.sync THEN firm \cup {w.id} ELSE firm
    BY <1>3 DEF FinishWrite
  <1> QED
    BY <1>1, <1>3, <1>5, <1>6 DEF Store!EndWrite

LEMMA OpenReturnsOpens ==
    ASSUME RInv, StoreInv', OpenReturns
    PROVE  Store!Open
  <1>1. /\ phase = "clean" /\ phase' = "open" /\ UNCHANGED <<written, writing>>
    BY DEF OpenReturns, writeVars
  <1>2. /\ Visible = InTable(live) /\ promised' = IdsOf(Visible) /\ firm' = promised'
    BY OpenedFacts
  <1>3. Contents = promised /\ Contents' = promised' /\ Doubt' = {}
    BY <1>1 DEF Contents, Doubt, StoreInv
  <1>4. promised \subseteq promised'
    BY DEF OpenReturns
  <1>5. promised' \subseteq promised \cup Doubt
    <2>1. current # NoFile
      BY <1>1 DEF RInv, RunningInv
    <2>2. PICK k : k = Len(CurrentEdits)
      OBVIOUS
    <2>3. k \in LastEdits
      BY <2>1, <2>2, EditsFacts
    <2>4. InTable(live) \subseteq Found(k)
      BY <1>1, <2>3 DEF RInv, RunningInv, Found
    <2>5. InTable(live) \subseteq MayBeFound
      BY <2>1, <2>3, <2>4, AllVersionsCount
    <2> QED
      BY <1>1, <1>2, <2>5 DEF Doubt, IdsOf
  <1>6. Pending' = Pending
    BY <1>1 DEF Pending
  <1> QED
    BY <1>1, <1>2, <1>3, <1>4, <1>5, <1>6 DEF Store!Open

\* What a crash of an open database puts in doubt was there, or was written.
LEMMA DoubtOfCrash ==
    ASSUME RInv, StoreInv, ProcessCrash \/ MachineCrash
    PROVE  /\ IdsOf(MayBeFound)' \subseteq promised \cup Doubt \cup {w.id : w \in Pending}
           /\ Contents = promised
  <1>1. IdsOf(MayBeFound)' \subseteq IdsOf(MayBeFound)
    BY CrashFindsNothingNew DEF IdsOf
  <1>2. CASE phase = "open"
    <2>1. IdsOf(Visible) = promised
      BY <1>2 DEF StoreInv
    <2>2. MayBeFound \subseteq Seen
      <3>1. current # NoFile /\ \A k \in LastEdits : Found(k) \subseteq Seen
        BY <1>2, SeenFacts
      <3> QED
        BY <3>1, AllVersionsCount
    <2>3. IdsOf(MayBeFound) \subseteq IdsOf(Seen)
      BY <2>2, FewerRecords
    <2> QED
      BY <1>1, <1>2, <2>1, <2>3, PendingFacts DEF Contents
  <1>3. CASE phase # "open"
    <2>1. IdsOf(MayBeFound) \subseteq promised \cup Doubt
      BY <1>3 DEF Doubt
    <2> QED
      BY <1>1, <1>3, <2>1 DEF Contents
  <1> QED
    BY <1>2, <1>3

LEMMA ProcessCrashCrashes ==
    ASSUME RInv, StoreInv, ProcessCrash
    PROVE  Store!CrashProcess
  <1>1. /\ phase' = "down" /\ writing' = Nothing /\ UNCHANGED <<written, promised, firm>>
    BY DEF ProcessCrash, MemoryLost
  <1>2. Pending' = {} /\ Contents' = promised /\ Doubt' = IdsOf(MayBeFound)' \ promised
    BY <1>1 DEF Pending, Contents, Doubt, IdsOf
  <1>3. Contents = promised /\ Doubt' \subseteq Doubt \cup {w.id : w \in Pending}
    BY <1>2, DoubtOfCrash
  <1> QED
    BY <1>1, <1>2, <1>3 DEF Store!CrashProcess

LEMMA MachineCrashCrashes ==
    ASSUME RInv, StoreInv, MachineCrash
    PROVE  Store!CrashMachine
  <1>1. /\ phase' = "down" /\ writing' = Nothing /\ UNCHANGED <<written, firm>>
        /\ promised' = firm
    BY DEF MachineCrash, MemoryLost
  <1>2. Pending' = {} /\ Contents' = firm /\ Doubt' = IdsOf(MayBeFound)' \ firm
    BY <1>1 DEF Pending, Contents, Doubt, IdsOf
  <1>3. /\ Contents = promised
        /\ Doubt' \subseteq Doubt \cup {w.id : w \in Pending} \cup (Contents \ firm)
    BY <1>2, DoubtOfCrash
  <1> QED
    BY <1>1, <1>2, <1>3 DEF Store!CrashMachine

LEMMA QuietSettles ==
    ASSUME RInv, RInv', StoreInv, StoreInv', Quiet
    PROVE  Store!Settle
  <1>1. /\ UNCHANGED <<written, promised, writing>> /\ firm \subseteq firm'
        /\ phase' = "open" <=> phase = "open"
    BY QuietSteps
  <1>2. Contents = promised /\ Contents' = promised
    BY <1>1 DEF Contents, StoreInv
  <1>3. firm' \subseteq promised
    BY <1>1 DEF RInv, TypeOK
  <1>4. Doubt' \subseteq Doubt
    <2>1. CASE phase = "open"
      BY <1>1, <2>1 DEF Doubt
    <2>2. CASE phase # "open"
      <3>1. IdsOf(MayBeFound)' \subseteq IdsOf(MayBeFound)
        BY <2>2, FoundShrinks DEF IdsOf
      <3> QED
        BY <1>1, <2>2, <3>1 DEF Doubt
    <2> QED
      BY <2>1, <2>2
  <1>5. Pending' = Pending
    BY <1>1 DEF Pending
  <1> QED
    BY <1>1, <1>2, <1>3, <1>4, <1>5 DEF Store!Settle

\* Everything else being invisible, the database does to its client what
\* DurableStore does: whenever and however often it crashes and is opened
\* again, a write that returned is there, after a crash of the machine if it
\* was synced or had reached a table; a write that was not answered is there
\* whole or not at all; and what was once not found never comes back.
\* (DB::Open, Write, CompactMemTable, LogAndApply, RemoveObsoleteFiles)
THEOREM RecoveryImplementsDurableStore ==
    ASSUME ReuseLogs = {FALSE}
    PROVE  Spec => ImplementsDurableStore
  <1>1. Init => Store!StoreInit /\ StoreInv
    BY DEF Init, Store!StoreInit, StoreInv, Pending, Contents, Doubt, MayBeFound, IdsOf
  <1>2. RInv /\ RInv' /\ StoreInv /\ [Next]_vars => StoreInv'
    BY StoreInvStep
  <1>3. RInv /\ RInv' /\ StoreInv /\ StoreInv' /\ [Next]_vars => [Store!StoreNext]_Store!storeVars
    <2> SUFFICES ASSUME RInv, RInv', StoreInv, StoreInv', [Next]_vars
                 PROVE  Store!StoreNext
      OBVIOUS
    <2>1. ASSUME NEW sync \in BOOLEAN, AddRecord(sync)
          PROVE  Store!StoreNext
      BY <2>1, AddRecordBegins DEF Store!StoreNext
    <2>2. CASE FinishWrite
      BY <2>2, FinishWriteEnds DEF Store!StoreNext
    <2>3. CASE OpenReturns
      BY <2>3, OpenReturnsOpens DEF Store!StoreNext
    <2>4. CASE ProcessCrash
      BY <2>4, ProcessCrashCrashes DEF Store!StoreNext
    <2>5. CASE MachineCrash
      BY <2>5, MachineCrashCrashes DEF Store!StoreNext
    <2>6. CASE Quiet
      BY <2>6, QuietSettles DEF Store!StoreNext
    <2> QED
      BY <2>1, <2>2, <2>3, <2>4, <2>5, <2>6 DEF Quiet
  <1> QED
    BY <1>1, <1>2, <1>3, RecoveryInvariant, PTL DEF Spec, ImplementsDurableStore, Store!StoreSpec
=============================================================================
