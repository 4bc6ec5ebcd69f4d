-------------------------------- MODULE Export --------------------------------
(***************************************************************************)
(* The back half of a pipeline (pkg/pipeline/core.go, storage.go,          *)
(* state.go): flushBatch and its exporter goroutines, handleExportError,   *)
(* LocalStorage, recoveryMonitor with the reader goroutine of Recover, and *)
(* the goroutines that remove recovered files.                             *)
(*                                                                         *)
(* Data is kept at the grain of batches, named 1, 2, ... in the order      *)
(* processor flushes them.  One line of a file holds one batch for one     *)
(* exporter (Save cuts longer slices into such lines).  Save is one step:  *)
(* it holds the storage mutex, and the reader goroutine runs only while    *)
(* the monitor is in a recovery pass.  Files are named by the second of    *)
(* their creation; two files of one directory are never created in the     *)
(* same second here, so a file is its position in the order of creation.   *)
(* Shutdown is the business of Intake; a crash can happen at any point.    *)
(*                                                                         *)
(* Bounds: MaxBatch flushed batches, MaxRestart restarts, MaxFault failed  *)
(* writes, MaxLines lines before a file is rotated.                        *)
(***************************************************************************)
EXTENDS Integers, Sequences, FiniteSets, Functions, SequencesExt

CONSTANTS
  Exporter,      \* names of the registered exporters
  TypedExporter, \* those that take entities only, not decoded JSON
  PipelineName,  \* Pipeline.Name, the name blocked data is saved under
  MaxBatch,      \* bound: batches flushed
  MaxLines,      \* maxFileSize, in lines
  MaxRestart,    \* bound: crashes
  MaxFault,      \* bound: failed writes
  CanFill,       \* the disk may fill up
  Torn,          \* a line whose write was cut short
  Finish         \* the end-of-file message of Recover

ASSUME BoundsAssumption ==
  /\ MaxBatch \in Nat /\ MaxLines \in Nat \ {0}
  /\ MaxRestart \in Nat /\ MaxFault \in Nat
  /\ CanFill \in BOOLEAN
ASSUME ExporterAssumption == TypedExporter \subseteq Exporter

VARIABLES
  status,        \* state.status
  diskFull,      \* what isDiskFull answers
  blockData,     \* Pipeline.blockData
  flush,         \* where flushBatch is
  batch,         \* the batch it was called with (last: the latest one)
  header,        \* the blockData header its append has read
  export,        \* the exporter goroutines of flushBatch
  files,         \* the files ever created: lines, and still in the directory
  current,       \* LocalStorage.currentFile, 0 for nil
  monitor,       \* where recoveryMonitor is
  todo,          \* files the reader goroutine has not finished with
  reader,        \* where the reader goroutine is
  pos,           \* lines it has read from the oldest of them
  message,       \* what it is sending
  received,      \* the line tryRecoverFromDisk is exporting
  exportSuccess, successCount, errorCount,   \* its locals (counts: above zero)
  removing,      \* files with a RemoveFile goroutine under way
  restarts, faults, panicked,
  delivered,     \* history: <<exporter, batch>> whose Export returned nil
  handled,       \* history: batches flushBatch gave to the exporters
  buffered,      \* history: batches flushBatch appended to blockData
  raced,         \* history: those appended between Save and truncation
  dropped,       \* history: <<exporter, batch>> whose Save returned an error
  readTo,        \* history: lines read from a file when its removal was decided
  listed         \* history: files and their lengths when the pass listed them

flushVars   == <<flush, batch, header>>
diskVars    == <<files, current, faults>>
readerVars  == <<todo, reader, pos, message>>
passVars    == <<received, exportSuccess, successCount, errorCount>>
lifeVars    == <<restarts, panicked>>
histVars    == <<delivered, handled, buffered, raced, dropped, readTo, listed>>
vars == <<status, diskFull, blockData, flushVars, export, diskVars, monitor,
          readerVars, passVars, removing, lifeVars, histVars>>

Line == [name : Exporter \union {PipelineName}, batch : 1 .. MaxBatch]
LineOf(n, b) == [name |-> n, batch |-> b]
Linked == {f \in DOMAIN files : files[f].linked}
NewFile == [lines |-> <<>>, linked |-> TRUE]

\* A line, a piece of one and the end of a file are told apart.
ASSUME MarkAssumption == Torn \notin Line /\ Finish \notin Line

Init ==
  /\ status = "Normal"
  /\ diskFull = FALSE
  /\ blockData = <<>>
  /\ flush = "idle" /\ batch = 0 /\ header = <<>>
  /\ export = [e \in Exporter |-> "off"]
  /\ files = <<>> /\ current = 0 /\ faults = 0
  /\ monitor = "idle"
  /\ todo = {} /\ reader = "off" /\ pos = 0 /\ message = Finish
  /\ received = Finish
  /\ exportSuccess = TRUE /\ successCount = FALSE /\ errorCount = FALSE
  /\ removing = {}
  /\ restarts = 0 /\ panicked = FALSE
  /\ delivered = {} /\ handled = {} /\ buffered = {} /\ raced = {}
  /\ dropped = {}
  /\ readTo = <<>> /\ listed = <<>>

-----------------------------------------------------------------------------
(* LocalStorage.Save *)

Disk == [files |-> files, current |-> current]

\* rotateFile: a new file becomes the current one.
Rotated(d) == [files |-> Append(d.files, NewFile),
               current |-> Len(d.files) + 1]

\* Save opens a file first if there is none, whatever happens next.
Opened(d) == IF d.current = 0 THEN Rotated(d) ELSE d

\* One line is written to the current file, linked or not, and the file is
\* rotated when it has grown past the limit.
Written(d, line) ==
  LET w == [d EXCEPT !.files[d.current].lines = Append(@, line)]
  IN  IF Len(w.files[d.current].lines) > MaxLines THEN Rotated(w) ELSE w

WrittenAll(d, lines) ==
  LET w[k \in 0 .. Len(lines)] ==
        IF k = 0 THEN d ELSE Written(w[k - 1], lines[k])
  IN  w[Len(lines)]

ToDisk(d) == files' = d.files /\ current' = d.current

SaveOk(lines) ==
  /\ ~diskFull
  /\ ToDisk(WrittenAll(Opened(Disk), lines))
  /\ UNCHANGED faults

SaveDiskFull ==
  /\ diskFull
  /\ ToDisk(Opened(Disk))
  /\ UNCHANGED faults

\* A write fails after k lines, possibly leaving part of the next one.
SaveFails(lines) ==
  /\ ~diskFull
  /\ faults < MaxFault
  /\ faults' = faults + 1
  /\ \E k \in 0 .. Len(lines) - 1, torn \in BOOLEAN :
       ToDisk(WrittenAll(Opened(Disk),
                SubSeq(lines, 1, k) \o IF torn THEN <<Torn>> ELSE <<>>))

-----------------------------------------------------------------------------
(* flushBatch and handleExportError *)

\* flushBatch is entered and reads the status; not blocked: hooks, filters,
\* one goroutine per exporter.
FlushExport ==
  /\ flush = "idle"
  /\ batch < MaxBatch
  /\ batch' = batch + 1
  /\ status # "Blocked"
  /\ flush' = "export"
  /\ export' = [e \in Exporter |-> "export"]
  /\ UNCHANGED <<status, diskFull, blockData, header, diskVars, monitor,
                 readerVars, passVars, removing, lifeVars, histVars>>

\* Blocked: append to blockData, which no lock protects.  The append reads
\* the slice header here and stores the new one in FlushStore.
FlushBuffer ==
  /\ flush = "idle"
  /\ batch < MaxBatch
  /\ batch' = batch + 1
  /\ status = "Blocked"
  /\ flush' = "buffer"
  /\ header' = blockData
  /\ UNCHANGED <<status, diskFull, blockData, export, diskVars, monitor,
                 readerVars, passVars, removing, lifeVars, histVars>>

FlushStore ==
  /\ flush = "buffer"
  /\ blockData' = Append(header, batch)
  /\ flush' = "idle"
  /\ header' = <<>>
  /\ buffered' = buffered \union {batch}
  /\ raced' = IF monitor = "truncate" THEN raced \union {batch} ELSE raced
  /\ UNCHANGED <<status, diskFull, batch, export, diskVars, monitor,
                 readerVars, passVars, removing, lifeVars, delivered,
                 handled, dropped, readTo, listed>>

ExportOk(e) ==
  /\ export[e] = "export"
  /\ export' = [export EXCEPT ![e] = "off"]
  /\ delivered' = delivered \union {<<e, batch>>}
  /\ UNCHANGED <<status, diskFull, blockData, flushVars, diskVars, monitor,
                 readerVars, passVars, removing, lifeVars, handled, buffered,
                 raced, dropped, readTo, listed>>

ExportError(e) ==
  /\ export[e] = "export"
  /\ export' = [export EXCEPT ![e] = "failed"]
  /\ UNCHANGED <<status, diskFull, blockData, flushVars, diskVars, monitor,
                 readerVars, passVars, removing, lifeVars, histVars>>

\* The Save of handleExportError.  An error other than ErrDiskFull changes
\* nothing and the goroutine ends.
SaveBatch(e) ==
  /\ export[e] = "failed"
  /\ \/ /\ SaveOk(<<LineOf(e, batch)>>)
        /\ export' = [export EXCEPT ![e] = "saved"]
        /\ UNCHANGED dropped
     \/ /\ SaveDiskFull
        /\ export' = [export EXCEPT ![e] = "refused"]
        /\ dropped' = dropped \union {<<e, batch>>}
     \/ /\ SaveFails(<<LineOf(e, batch)>>)
        /\ export' = [export EXCEPT ![e] = "off"]
        /\ dropped' = dropped \union {<<e, batch>>}
  /\ UNCHANGED <<status, diskFull, blockData, flushVars, monitor, readerVars,
                 passVars, removing, lifeVars, delivered, handled, buffered,
                 raced, readTo, listed>>

\* EnterRecovering unless already recovering, or EnterBlocked.
SetStatus(e) ==
  /\ export[e] \in {"saved", "refused"}
  /\ status' = IF export[e] = "saved" THEN "Recovering" ELSE "Blocked"
  /\ export' = [export EXCEPT ![e] = "off"]
  /\ UNCHANGED <<diskFull, blockData, flushVars, diskVars, monitor,
                 readerVars, passVars, removing, lifeVars, histVars>>

\* Mutant of FlushReturn: one exporter's return is enough.
FlushReturnEarly ==
  /\ flush = "export"
  /\ \E e \in Exporter : export[e] = "off"
  /\ flush' = "idle"
  /\ handled' = handled \union {batch}
  /\ UNCHANGED <<status, diskFull, blockData, batch, header, export, diskVars,
                 monitor, readerVars, passVars, removing, lifeVars, delivered,
                 buffered, raced, dropped, readTo, listed>>

\* wg.Wait of flushBatch.
FlushReturn ==
  /\ flush = "export"
  /\ \A e \in Exporter : export[e] = "off"
  /\ flush' = "idle"
  /\ handled' = handled \union {batch}
  /\ UNCHANGED <<status, diskFull, blockData, batch, header, export, diskVars,
                 monitor, readerVars, passVars, removing, lifeVars, delivered,
                 buffered, raced, dropped, readTo, listed>>

-----------------------------------------------------------------------------
(* recoveryMonitor, Blocked: save blockData, empty it, EnterRecovering.  A   *)
(* disk found full, here or by Save, changes nothing: EnterBlocked came from *)
(* a Save of this process, which has opened a file.                          *)

\* Mutant of MonitorSave: it waits for something to save.
MonitorSaveSome ==
  /\ monitor = "idle"
  /\ status = "Blocked"
  /\ blockData # <<>>
  /\ LET lines == [i \in DOMAIN blockData |->
                       LineOf(PipelineName, blockData[i])]
     IN  \/ SaveOk(lines) /\ monitor' = "truncate"
         \/ SaveFails(lines) /\ UNCHANGED monitor
  /\ UNCHANGED <<status, diskFull, blockData, flushVars, export, readerVars,
                 passVars, removing, lifeVars, histVars>>

\* Mutant of MonitorSave: the error of Save is not looked at.
MonitorSaveUnchecked ==
  /\ monitor = "idle"
  /\ status = "Blocked"
  /\ LET lines == [i \in DOMAIN blockData |->
                       LineOf(PipelineName, blockData[i])]
     IN  SaveOk(lines) \/ SaveFails(lines)
  /\ monitor' = "truncate"
  /\ UNCHANGED <<status, diskFull, blockData, flushVars, export, readerVars,
                 passVars, removing, lifeVars, histVars>>

MonitorSave ==
  /\ monitor = "idle"
  /\ status = "Blocked"
  /\ LET lines == [i \in DOMAIN blockData |->
                       LineOf(PipelineName, blockData[i])]
     IN  \/ SaveOk(lines) /\ monitor' = "truncate"
         \/ SaveFails(lines) /\ UNCHANGED monitor
  /\ UNCHANGED <<status, diskFull, blockData, flushVars, export, readerVars,
                 passVars, removing, lifeVars, histVars>>

MonitorTruncate ==
  /\ monitor = "truncate"
  /\ blockData' = <<>>
  /\ monitor' = "enter"
  /\ UNCHANGED <<status, diskFull, flushVars, export, diskVars, readerVars,
                 passVars, removing, lifeVars, histVars>>

MonitorEnter ==
  /\ monitor = "enter"
  /\ status' = "Recovering"
  /\ monitor' = "idle"
  /\ UNCHANGED <<diskFull, blockData, flushVars, export, diskVars, readerVars,
                 passVars, removing, lifeVars, histVars>>

-----------------------------------------------------------------------------
(* tryRecoverFromDisk and the reader goroutine of Recover, which takes the   *)
(* files in the order of their names, that is of their creation. *)

Oldest == Min(todo)

\* Recover lists the directory, in order of creation, and starts the reader.
PassStart ==
  /\ monitor = "idle"
  /\ status = "Recovering"
  /\ monitor' = "receive"
  /\ todo' = Linked
  /\ reader' = "open"
  /\ exportSuccess' = TRUE /\ successCount' = FALSE /\ errorCount' = FALSE
  /\ listed' = [f \in Linked |-> Len(files[f].lines)]
  /\ UNCHANGED <<status, diskFull, blockData, flushVars, export, diskVars,
                 pos, message, received, removing, lifeVars, delivered,
                 handled, buffered, raced, dropped, readTo>>

ReaderOnly == UNCHANGED <<status, diskFull, blockData, flushVars, export,
                          diskVars, monitor, passVars, removing, lifeVars,
                          histVars>>

\* Mutant of ReaderOpen: a file that is gone makes the reader give up
\* without closing the channel.
ReaderOpenGivesUp ==
  /\ reader = "open" /\ todo # {}
  /\ reader' = IF Oldest \in Linked THEN "scan" ELSE "off"
  /\ pos' = 0
  /\ UNCHANGED <<todo, message>>
  /\ ReaderOnly

\* Open the next file; it may be gone by now.
ReaderOpen ==
  /\ reader = "open" /\ todo # {}
  /\ IF Oldest \in Linked
     THEN reader' = "scan" /\ UNCHANGED todo
     ELSE todo' = todo \ {Oldest} /\ UNCHANGED reader
  /\ pos' = 0
  /\ UNCHANGED message
  /\ ReaderOnly

\* Mutant of ReaderScan: a line that cannot be decoded is skipped.
ReaderSkips ==
  /\ reader = "scan"
  /\ LET lines == files[Oldest].lines
     IN  /\ pos < Len(lines)
         /\ pos' = pos + 1
         /\ IF lines[pos + 1] = Torn
            THEN UNCHANGED <<reader, message>>
            ELSE reader' = "send" /\ message' = lines[pos + 1]
  /\ UNCHANGED todo
  /\ ReaderOnly

\* Mutant of ReaderScan: the decoding error is not looked at.
ReaderSendsAll ==
  /\ reader = "scan"
  /\ LET lines == files[Oldest].lines
     IN  /\ pos < Len(lines)
         /\ pos' = pos + 1
         /\ message' = lines[pos + 1]
  /\ reader' = "send"
  /\ UNCHANGED todo
  /\ ReaderOnly

\* Scan one line and offer it; a line that cannot be decoded ends the file
\* without a Finish message.
ReaderScan ==
  /\ reader = "scan"
  /\ LET lines == files[Oldest].lines
     IN  /\ pos < Len(lines)
         /\ IF lines[pos + 1] = Torn
            THEN /\ reader' = "open" /\ todo' = todo \ {Oldest}
                 /\ UNCHANGED <<pos, message>>
            ELSE /\ reader' = "send" /\ message' = lines[pos + 1]
                 /\ pos' = pos + 1
                 /\ UNCHANGED todo
  /\ ReaderOnly

\* Nothing more to scan: offer Finish.
ReaderEOF ==
  /\ reader = "scan"
  /\ pos = Len(files[Oldest].lines)
  /\ reader' = "send"
  /\ message' = Finish
  /\ UNCHANGED <<todo, pos>>
  /\ ReaderOnly

\* The monitor takes a line; the reader scans on while it is exported.
ReceiveLine ==
  /\ monitor = "receive" /\ reader = "send" /\ message # Finish
  /\ received' = message
  /\ monitor' = "export"
  /\ reader' = "scan"
  /\ message' = Finish
  /\ UNCHANGED <<status, diskFull, blockData, flushVars, export, diskVars,
                 todo, pos, exportSuccess, successCount, errorCount, removing,
                 lifeVars, histVars>>

\* Mutant of ReceiveFinish: the file is removed whatever became of its lines.
ReceiveFinishRemoves ==
  /\ monitor = "receive" /\ reader = "send" /\ message = Finish
  /\ removing' = removing \union {Oldest}
  /\ readTo' = [f \in DOMAIN readTo \union {Oldest} |->
                  IF f = Oldest THEN pos ELSE readTo[f]]
  /\ exportSuccess' = TRUE
  /\ reader' = "open"
  /\ todo' = todo \ {Oldest}
  /\ pos' = 0
  /\ UNCHANGED <<status, diskFull, blockData, flushVars, export, diskVars,
                 monitor, message, received, successCount, errorCount,
                 lifeVars, delivered, handled, buffered, raced, dropped,
                 listed>>

\* The monitor takes a Finish: remove the file, in the background, unless an
\* export failed.
ReceiveFinish ==
  /\ monitor = "receive" /\ reader = "send" /\ message = Finish
  /\ IF exportSuccess
     THEN /\ removing' = removing \union {Oldest}
          /\ readTo' = [f \in DOMAIN readTo \union {Oldest} |->
                          IF f = Oldest THEN pos ELSE readTo[f]]
     ELSE UNCHANGED <<removing, readTo>>
  /\ exportSuccess' = TRUE
  /\ reader' = "open"
  /\ todo' = todo \ {Oldest}
  /\ pos' = 0
  /\ UNCHANGED <<status, diskFull, blockData, flushVars, export, diskVars,
                 monitor, message, received, successCount, errorCount,
                 lifeVars, delivered, handled, buffered, raced, dropped,
                 listed>>

\* Recovered data is what json.Unmarshal made of the line.  An exporter that
\* wants entities, as the MySQL one does, returns an error for it.
TakesDecoded == Exporter \ TypedExporter

RecoverOk ==
  /\ monitor = "export"
  /\ received.name \in TakesDecoded
  /\ delivered' = delivered \union {<<received.name, received.batch>>}
  /\ successCount' = TRUE
  /\ received' = Finish
  /\ monitor' = "receive"
  /\ UNCHANGED <<status, diskFull, blockData, flushVars, export, diskVars,
                 readerVars, exportSuccess, errorCount, removing, lifeVars,
                 handled, buffered, raced, dropped, readTo, listed>>

\* Mutant of RecoverError: the error is not counted.
RecoverErrorUncounted ==
  /\ monitor = "export"
  /\ received.name \in Exporter
  /\ exportSuccess' = FALSE
  /\ received' = Finish
  /\ monitor' = "receive"
  /\ UNCHANGED <<status, diskFull, blockData, flushVars, export, diskVars,
                 readerVars, successCount, errorCount, removing, lifeVars,
                 histVars>>

RecoverError ==
  /\ monitor = "export"
  /\ received.name \in Exporter
  /\ exportSuccess' = FALSE
  /\ errorCount' = TRUE
  /\ received' = Finish
  /\ monitor' = "receive"
  /\ UNCHANGED <<status, diskFull, blockData, flushVars, export, diskVars,
                 readerVars, successCount, removing, lifeVars, histVars>>

\* The channel is closed: EnterNormal if something was exported and nothing
\* failed.
PassEnd ==
  /\ monitor = "receive" /\ reader = "open" /\ todo = {}
  /\ status' = IF successCount /\ ~errorCount THEN "Normal" ELSE status
  /\ monitor' = "idle"
  /\ reader' = "off"
  /\ pos' = 0
  /\ exportSuccess' = TRUE /\ successCount' = FALSE /\ errorCount' = FALSE
  /\ listed' = <<>>
  /\ UNCHANGED <<diskFull, blockData, flushVars, export, diskVars, todo,
                 message, received, removing, lifeVars, delivered, handled,
                 buffered, raced, dropped, readTo>>

\* A RemoveFile goroutine unlinks its file; the lines stay reachable only
\* for whoever has the file open.
RemoveFile(f) ==
  /\ f \in removing
  /\ files' = [files EXCEPT ![f].linked = FALSE]
  /\ removing' = removing \ {f}
  /\ UNCHANGED <<status, diskFull, blockData, flushVars, export, current,
                 faults, monitor, readerVars, passVars, lifeVars, histVars>>

-----------------------------------------------------------------------------
(* The process and its disk *)

\* The process dies and is started again: memory is lost, files stay.
Restart ==
  /\ status' = "Normal"
  /\ blockData' = <<>>
  /\ flush' = "idle" /\ header' = <<>>
  /\ export' = [e \in Exporter |-> "off"]
  /\ current' = 0
  /\ monitor' = "idle"
  /\ todo' = {} /\ reader' = "off" /\ pos' = 0 /\ message' = Finish
  /\ received' = Finish
  /\ exportSuccess' = TRUE /\ successCount' = FALSE /\ errorCount' = FALSE
  /\ removing' = {}
  /\ listed' = <<>>
  /\ UNCHANGED <<diskFull, batch, files, faults, delivered, handled, buffered,
                 raced, dropped, readTo>>

Crash ==
  /\ restarts < MaxRestart
  /\ restarts' = restarts + 1
  /\ Restart
  /\ UNCHANGED panicked

\* No exporter is registered under the name of the line: Export is called
\* on a nil interface, which nothing recovers from.
NilExporter ==
  /\ monitor = "export"
  /\ received.name \notin Exporter
  /\ panicked' = TRUE
  /\ Restart
  /\ UNCHANGED restarts

DiskChange ==
  /\ CanFill
  /\ diskFull' = ~diskFull
  /\ UNCHANGED <<status, blockData, flushVars, export, diskVars, monitor,
                 readerVars, passVars, removing, lifeVars, histVars>>

-----------------------------------------------------------------------------
FlushStep == FlushExport \/ FlushBuffer \/ FlushStore \/ FlushReturn
ExportStep(e) == ExportOk(e) \/ ExportError(e) \/ SaveBatch(e) \/ SetStatus(e)
ReaderStep == ReaderOpen \/ ReaderScan \/ ReaderEOF
MonitorStep == \/ MonitorSave \/ MonitorTruncate \/ MonitorEnter
               \/ PassStart \/ ReceiveLine \/ ReceiveFinish
               \/ RecoverOk \/ RecoverError \/ PassEnd
RemoveStep == \E f \in removing : RemoveFile(f)

Next ==
  \/ FlushStep
  \/ \E e \in Exporter : ExportStep(e)
  \/ MonitorStep
  \/ ReaderStep
  \/ RemoveStep
  \/ Crash
  \/ NilExporter
  \/ DiskChange

Spec == Init /\ [][Next]_vars

\* Goroutines that can run do, and the ticker of recoveryMonitor keeps
\* ticking (WF of MonitorStep).  Exports return, with either result.
FairSpec ==
  /\ Spec
  /\ WF_vars(FlushStore \/ FlushReturn)
  /\ \A e \in Exporter : WF_vars(ExportStep(e))
  /\ WF_vars(MonitorStep \/ NilExporter)
  /\ WF_vars(ReaderStep)
  /\ WF_vars(RemoveStep)

-----------------------------------------------------------------------------
Batches == 1 .. MaxBatch

TypeOK ==
  /\ status \in {"Normal", "Blocked", "Recovering"}
  /\ diskFull \in BOOLEAN
  /\ blockData \in Seq(Batches) /\ header \in Seq(Batches)
  /\ flush \in {"idle", "buffer", "export"} /\ batch \in 0 .. MaxBatch
  /\ export \in [Exporter -> {"off", "export", "failed", "saved", "refused"}]
  /\ files \in Seq([lines : Seq(Line \union {Torn}), linked : BOOLEAN])
  /\ current \in 0 .. Len(files)
  /\ faults \in 0 .. MaxFault /\ restarts \in 0 .. MaxRestart
  /\ monitor \in {"idle", "truncate", "enter", "receive", "export"}
  /\ todo \subseteq DOMAIN files
  /\ reader \in {"off", "open", "scan", "send"} /\ pos \in Nat
  /\ message \in Line \union {Finish} /\ received \in Line \union {Finish}
  /\ exportSuccess \in BOOLEAN /\ successCount \in BOOLEAN
  /\ errorCount \in BOOLEAN /\ panicked \in BOOLEAN
  /\ removing \subseteq DOMAIN files
  /\ delivered \subseteq Exporter \X Batches
  /\ handled \subseteq Batches /\ buffered \subseteq Batches
  /\ raced \subseteq buffered
  /\ dropped \subseteq Exporter \X Batches
  /\ DOMAIN readTo \subseteq DOMAIN files
  /\ DOMAIN listed \subseteq DOMAIN files

\* A line of the first n of file f has been exported.
ExportedUpTo(f, n) ==
  \A i \in 1 .. n : LET l == files[f].lines[i]
                    IN  l # Torn /\ <<l.name, l.batch>> \in delivered

\* A file is removed only when every line recovery read from it was
\* exported: no file is removed on the strength of another file's exports,
\* or after an error within it.  (The exportSuccess flag of
\* tryRecoverFromDisk across files, and the errors of recoverFile.)
RemovedWasExported ==
  \A f \in DOMAIN files :
    f \in removing \/ ~files[f].linked =>
      f \in DOMAIN readTo /\ ExportedUpTo(f, readTo[f])

\* The batch b is in some file for exporter e: one still in the directory, or
\* behind what recovery had read when it decided to remove the file.  (For
\* the latter, SavedIsRecoverable.)
SavedFor(e, b) ==
  \E f \in DOMAIN files : \E i \in DOMAIN files[f].lines :
    /\ files[f].lines[i] = LineOf(e, b)
    /\ files[f].linked \/ i \notin 1 .. readTo[f]

KeptFor(e, b) == <<e, b>> \in delivered \/ SavedFor(e, b)

\* A batch given to the exporters is, once flushBatch has returned, for each
\* of them exported or in a file, unless its Save reported an error: over
\* crashes, full disks and failed writes, and over recovery, which removes
\* files that hold the lines of several batches and exporters.  (flushBatch,
\* handleExportError, tryRecoverFromDisk.)
HandledIsKept ==
  \A b \in handled, e \in Exporter : <<e, b>> \in dropped \/ KeptFor(e, b)

\* Recovery declares the pipeline Normal only when every line that was in
\* the directory when the pass listed it has been exported, or its file was
\* removed meanwhile, or cut-off writes made it impossible to read.
\* (successCount and errorCount of tryRecoverFromDisk; "switch to normal once
\* data was recovered", core.go l.212.)
NormalIsClean ==
  PassEnd /\ status' = "Normal" =>
    \A f \in DOMAIN listed :
      f \in Linked /\ Torn \notin Range(files[f].lines) =>
        ExportedUpTo(f, listed[f])
NormalAfterCleanPass == [][NormalIsClean]_vars

\* A recovery pass ends: the monitor and the reader never wait for each
\* other for good.
PassEnds == monitor \in {"receive", "export"} ~> monitor = "idle"

\* When the disk has room again for good, a blocked pipeline unblocks.
BlockedClears == <>[]~diskFull => (status = "Blocked" ~> status # "Blocked")

\* "Recovery monitor: read the data of failed exports on disk and export it"
\* (core.go l.145): a line whose Save succeeded is exported or still where
\* recovery finds it.
SavedIsRecoverable ==
  \A f \in DOMAIN files \ Linked : ExportedUpTo(f, Len(files[f].lines))

\* "When blocked, keep the data in memory" (core.go l.221): while the process
\* lives, a batch flushed while blocked is in blockData, saved or exported,
\* even when the monitor's write fails half way, a stale header is stored
\* back, or recovery removes files.
\* Excepted are the batches the code does lose: those appended between the
\* monitor's Save and its truncation.  (blockData, shared without a lock.)
BufferedIsKept ==
  restarts = 0 /\ ~panicked =>
    \A b \in buffered \ raced :
      b \in Range(blockData) \/ KeptFor(PipelineName, b)

\* The process never calls Export on an exporter that is not there.
NoPanic == ~panicked

\* Exporters are not down for ever: one that can take a recovered line, and is
\* given it again and again, takes it some day.
RecoverySpec ==
  /\ FairSpec
  /\ \A l \in Line : SF_vars(RecoverOk /\ received = l)

\* "Recovery monitor: try to read the failed data from disk and export it"
\* (core.go l.145): a line that recovery offers to its exporter again and again
\* is exported in the end.
RetriedIsExported ==
  \A e \in Exporter, b \in Batches :
    []<>(monitor = "export" /\ received = LineOf(e, b))
      => <>(<<e, b>> \in delivered)
=============================================================================
