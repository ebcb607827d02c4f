------------------------------ MODULE LogStore ------------------------------
(***************************************************************************)
(* One log of a local log store, the upstream store it reports to (the same *)
(* code on another host) and a reader that subscribes to its entries        *)
(* (DistributedApp_LogLocalStore*.cpp): entries are numbered, stored and    *)
(* reported at once, and what the upstream missed is read from the database *)
(* when its reporter is opened again.                                       *)
(*                                                                          *)
(* Databases do not fail and commit one transaction at a time. A batch of   *)
(* the catch-up has any number of entries.                                  *)
(***************************************************************************)
EXTENDS Naturals, Sequences, SequencesExt, FiniteSetsExt

CONSTANTS
    MaxReports,     \* bound on the entries that are reported
    MaxFaults       \* bound on failures, crashes, clean-ups and changes of the log

VARIABLES
    lastSeen,       \* m_LastSeenUniqueSequence
    db, saved,      \* entries and m_UniqueSequenceAtLastCleanup in the database
    reports,        \* entries reported so far
    report,         \* the report that has m_LogSequencer
    reporter,       \* the CLogReporter of the upstream: none, closed or open
    failed,         \* it is in m_FailedReporters
    tasks,          \* its m_WriteSequencer, the running one first
    step,           \* how far that one is
    opened,         \* m_LastSeenUniqueSequence it was told by the upstream
    rows,           \* entries it is still to send
    retry,          \* m_bScheduledFailedReportersRetry: no, timer or running
    uSeen, uDb,     \* the same of the upstream
    uWork,          \* reports on their way to it and in its m_LogSequencer
    reader,         \* CEntrySubscription: none, registered, read or live
    queued,         \* its m_QueuedEntries
    given,          \* the entries it was called with
    overlooked,     \* numbers the catch-up cannot know of
    unread,         \* entries that were told before and committed after the initial read
    faults          \* failures so far, for MaxFaults

upstreamVars == <<uSeen, uDb, uWork>>
readerVars == <<reader, queued, given, unread>>
reporterVars == <<reporter, failed, tasks, step, opened, rows, retry>>
storeVars == <<lastSeen, db, saved, reports, report>>
vars == <<lastSeen, db, saved, reports, report, reporter, failed, tasks, step, opened, rows, retry,
          uSeen, uDb, uWork, reader, queued, given, overlooked, unread, faults>>

Number == 1..MaxReports
Entry == [n : Number, e : Number]
Nothing == [n |-> 0, e |-> 0]
NoReport == [entry |-> Nothing, stored |-> "no", sent |-> FALSE]
Update == [kind |-> "update", entry |-> Nothing]

TypeOK ==
    /\ {lastSeen, saved, uSeen, opened, reports} \subseteq 0..MaxReports
    /\ db \subseteq Entry /\ uDb \subseteq Entry
    /\ report \in [entry : Entry \cup {Nothing}, stored : {"no", "told", "yes"}, sent : BOOLEAN]
    /\ reporter \in {"none", "closed", "open"} /\ failed \in BOOLEAN
    /\ tasks \in Seq([kind : {"update", "retry", "entry"}, entry : Entry \cup {Nothing}])
    /\ step \in {"idle", "opening", "reading", "sending", "delivering"}
    /\ retry \in {"no", "timer", "running"}
    /\ rows \subseteq Entry /\ queued \in Seq(Entry) /\ given \in Seq(Entry)
    /\ uWork \in Seq([rows : SUBSET Entry, accepted : BOOLEAN])
    /\ reader \in {"none", "registered", "read", "live"}

Init ==
    /\ lastSeen = 0 /\ db = {} /\ saved = 0 /\ reports = 0 /\ report = NoReport
    /\ reporter = "none" /\ failed = FALSE /\ tasks = <<>> /\ step = "idle"
    /\ opened = 0 /\ rows = {} /\ retry = "no"
    /\ uSeen = 0 /\ uDb = {} /\ uWork = <<>>
    /\ reader = "none" /\ queued = <<>> /\ given = <<>>
    /\ overlooked = {} /\ unread = {} /\ faults = 0

Fault == faults < MaxFaults /\ faults' = faults + 1

Numbers(S) == {x.n : x \in S}
Above(S, n) == {x \in S : x.n > n}
\* S as a sequence, by key.
Sortings(S, key) ==
    {s \in SeqOf(S, MaxReports) :
        ToSet(s) = S /\ \A i, j \in DOMAIN s : i < j => key[s[i]] < key[s[j]]}

----------------------------------------------------------------------------
(* A report (f_GetReportEntriesFunctor): stored and sent side by side.     *)

Report ==
    /\ report = NoReport /\ reports < MaxReports
    /\ reports' = reports + 1
    /\ lastSeen' = lastSeen + 1
    /\ report' = [entry |-> [n |-> lastSeen', e |-> reports'], stored |-> "no",
                  sent |-> reporter = "none"]
    /\ tasks' = IF reporter = "none" THEN tasks
                ELSE Append(tasks, [kind |-> "entry", entry |-> report'.entry])
    /\ UNCHANGED <<db, saved, reporter, failed, step, opened, rows, retry, upstreamVars, readerVars,
                   overlooked, faults>>

\* The transaction begins: the subscriptions are told before it commits.
WriteBegins ==
    /\ report # NoReport /\ report.stored = "no"
    /\ report' = [report EXCEPT !.stored = "told"]
    /\ queued' = IF reader \in {"registered", "read"} THEN Append(queued, report.entry) ELSE queued
    /\ given' = IF reader = "live" THEN Append(given, report.entry) ELSE given
    /\ UNCHANGED <<lastSeen, db, saved, reports, reporterVars, upstreamVars, reader, unread,
                   overlooked, faults>>

Commit ==
    /\ report.stored = "told"
    /\ report' = [report EXCEPT !.stored = "yes"]
    /\ db' = db \cup {report.entry}
    /\ UNCHANGED <<lastSeen, saved, reports, reporterVars, upstreamVars, readerVars, overlooked, faults>>

ReportEnds ==
    /\ report.stored = "yes" /\ report.sent
    /\ report' = NoReport
    /\ UNCHANGED <<lastSeen, db, saved, reports, reporterVars, upstreamVars, readerVars, overlooked,
                   faults>>

----------------------------------------------------------------------------
(* The reporter of the upstream (f_UpdateLogForReporter, f_NewLogEntries). *)

Runs(kinds) == tasks # <<>> /\ Head(tasks).kind \in kinds

TaskEnds == tasks' = Tail(tasks) /\ step' = "idle"

UpdateStarts ==
    /\ step = "idle" /\ Runs({"update", "retry"})
    /\ reporter' = "closed"
    /\ step' = "opening"
    /\ UNCHANGED <<storeVars, failed, tasks, opened, rows, retry, upstreamVars, readerVars, overlooked,
                   faults>>

UpdateSucceeds == reporter' = "open" /\ failed' = FALSE /\ TaskEnds

\* f_OpenLogReporter waits for the upstream's m_LogSequencer. What it has is
\* compared with what was reported here.
Opened ==
    /\ step = "opening" /\ uWork = <<>>
    /\ opened' = uSeen
    /\ IF uSeen < lastSeen
       THEN step' = "reading" /\ UNCHANGED <<lastSeen, reporter, failed, tasks>>
       ELSE lastSeen' = uSeen /\ UpdateSucceeds
    /\ UNCHANGED <<db, saved, reports, report, rows, retry, upstreamVars, readerVars, overlooked, faults>>

UpdateFailsForGood ==       \* mutant: the retry is not scheduled
    /\ Fault /\ step \in {"opening", "reading", "sending"}
    /\ failed' = TRUE
    /\ TaskEnds
    /\ UNCHANGED <<storeVars, reporter, opened, rows, retry, upstreamVars, readerVars, overlooked>>

\* The upstream is not started yet, or a call fails.
UpdateFails ==
    /\ Fault /\ step \in {"opening", "reading", "sending"}
    /\ failed' = TRUE
    /\ TaskEnds
    /\ retry' = IF retry = "no" THEN "timer" ELSE retry
    /\ UNCHANGED <<storeVars, reporter, opened, rows, upstreamVars, readerVars, overlooked>>

\* What was reported and is neither in the snapshot nor waits behind this task.
Misses == IF report = NoReport \/ report.entry \in db \/ ~report.sent THEN {} ELSE {report.entry.n}

ReadSnapshot ==
    /\ step = "reading"
    /\ rows' = Above(db, opened)
    /\ step' = "sending"
    /\ overlooked' = overlooked \cup Misses
    /\ UNCHANGED <<storeVars, reporter, failed, tasks, opened, retry, upstreamVars, readerVars, faults>>

SendBatch ==
    /\ step = "sending" /\ uWork = <<>>
    /\ \E n \in Numbers(rows) :
          /\ uWork' = <<[rows |-> rows \ Above(rows, n), accepted |-> FALSE]>>
          /\ rows' = Above(rows, n)
    /\ UNCHANGED <<storeVars, reporter, failed, tasks, step, opened, retry, uSeen, uDb, readerVars,
                   overlooked, faults>>

BatchesSent ==
    /\ step = "sending" /\ rows = {} /\ uWork = <<>>
    /\ UpdateSucceeds
    /\ UNCHANGED <<storeVars, opened, rows, retry, upstreamVars, readerVars, overlooked, faults>>

\* An entry that was reported is sent, unless the reporter is not there to send it.
Deliver ==
    /\ step = "idle" /\ Runs({"entry"})
    /\ IF failed \/ reporter # "open"
       THEN /\ TaskEnds
            /\ report' = [report EXCEPT !.sent = TRUE]
            /\ UNCHANGED uWork
       ELSE /\ step' = "delivering"
            /\ uWork' = Append(uWork, [rows |-> {Head(tasks).entry}, accepted |-> FALSE])
            /\ UNCHANGED <<tasks, report>>
    /\ UNCHANGED <<lastSeen, db, saved, reports, reporter, failed, opened, rows, retry, uSeen, uDb,
                   readerVars, overlooked, faults>>

Delivered ==
    /\ step = "delivering" /\ uWork = <<>>
    /\ TaskEnds
    /\ report' = [report EXCEPT !.sent = TRUE]
    /\ UNCHANGED <<lastSeen, db, saved, reports, reporter, failed, opened, rows, retry, upstreamVars,
                   readerVars, overlooked, faults>>

\* f_RetryFailedReporters, a minute after the failure.
RetryTimer ==
    /\ retry = "timer"
    /\ retry' = "running"
    /\ tasks' = IF failed THEN Append(tasks, [Update EXCEPT !.kind = "retry"]) ELSE tasks
    /\ UNCHANGED <<storeVars, reporter, failed, step, opened, rows, upstreamVars, readerVars, overlooked,
                   faults>>

RetryEnds ==
    /\ retry = "running" /\ \A i \in DOMAIN tasks : tasks[i].kind # "retry"
    /\ retry' = IF failed THEN "timer" ELSE "no"
    /\ UNCHANGED <<storeVars, reporter, failed, tasks, step, opened, rows, upstreamVars, readerVars,
                   overlooked, faults>>

----------------------------------------------------------------------------
(* The upstream.                                                           *)

UAccept ==
    /\ uWork # <<>> /\ ~Head(uWork).accepted
    /\ LET new == Above(Head(uWork).rows, uSeen) IN
          /\ uSeen' = Max(Numbers(new) \cup {uSeen})
          /\ uWork' = [uWork EXCEPT ![1] = [rows |-> new, accepted |-> TRUE]]
    /\ UNCHANGED <<storeVars, reporterVars, uDb, readerVars, overlooked, faults>>

UCommit ==
    /\ uWork # <<>> /\ Head(uWork).accepted
    /\ uDb' = uDb \cup Head(uWork).rows
    /\ uWork' = Tail(uWork)
    /\ UNCHANGED <<storeVars, reporterVars, uSeen, readerVars, overlooked, faults>>

----------------------------------------------------------------------------
(* Connections, crashes and what else changes a log.                       *)

\* The reporter goes with its sequencer and functor, and what was not taken may be lost.
Disconnected ==
    /\ reporter' = "none" /\ failed' = FALSE
    /\ tasks' = <<>> /\ step' = "idle" /\ rows' = {}
    /\ UNCHANGED opened

\* What the upstream has begun to store: it takes one at a time.
Accepted == IF uWork # <<>> /\ Head(uWork).accepted THEN <<Head(uWork)>> ELSE <<>>

\* f_LogReporterInterfaceRemoved, the upstream may have restarted.
Break ==
    /\ Fault /\ reporter # "none"
    /\ Disconnected
    /\ report' = [report EXCEPT !.sent = report # NoReport]
    /\ \/ /\ uWork' = Accepted \/ uWork' = uWork
          /\ UNCHANGED uSeen
       \/ uWork' = <<>> /\ uSeen' = Max({0} \cup Numbers(uDb))
    /\ UNCHANGED <<lastSeen, db, saved, reports, retry, uDb, readerVars, overlooked>>

\* f_LogReporterInterfaceAdded: the upstream is there (again).
Added ==
    /\ reporter = "none"
    /\ reporter' = "closed"
    /\ tasks' = <<Update>>
    /\ UNCHANGED <<storeVars, failed, step, opened, rows, retry, upstreamVars, readerVars, overlooked,
                   faults>>

\* A number that was given and not committed is given again after a crash.
Crash ==
    /\ Fault
    /\ lastSeen' = Max(Numbers(db) \cup {saved})
    /\ overlooked' = IF report = NoReport \/ report.entry \in db THEN overlooked
                     ELSE overlooked \cup {report.entry.n}
    /\ report' = NoReport
    /\ Disconnected /\ retry' = "no"
    /\ uWork' = Accepted \/ uWork' = uWork
    /\ reader' = "none" /\ queued' = <<>> /\ given' = <<>> /\ unread' = {}
    /\ UNCHANGED <<db, saved, reports, uSeen, uDb>>

\* f_LogInfoChanged, by f_RemoveLogs: every reporter is told.
LogInfoChanged ==
    /\ Fault /\ report.stored # "told"
    /\ saved' = lastSeen
    /\ tasks' = IF reporter = "none" THEN tasks ELSE Append(tasks, Update)
    /\ UNCHANGED <<lastSeen, db, reports, report, reporter, failed, step, opened, rows, retry,
                   upstreamVars, readerVars, overlooked>>

Deletes == \E n \in Numbers(db) : db' = Above(db, n)

CleanupUnsaved ==   \* mutant: f_PrepareForCleanup is not called
    /\ Fault /\ report.stored # "told"
    /\ Deletes
    /\ UNCHANGED <<lastSeen, saved, reports, report, reporterVars, upstreamVars, readerVars, overlooked>>

\* The oldest entries are deleted (fs_Cleanup).
Cleanup ==
    /\ Fault /\ report.stored # "told"
    /\ saved' = lastSeen
    /\ Deletes
    /\ UNCHANGED <<lastSeen, reports, report, reporterVars, upstreamVars, readerVars, overlooked>>

----------------------------------------------------------------------------
(* A reader that wants all entries (f_SubscribeLogEntries).                *)

Subscribe ==
    /\ reader = "none"
    /\ reader' = "registered"
    /\ UNCHANGED <<storeVars, reporterVars, upstreamVars, queued, given, unread, overlooked, faults>>

ReadInitial ==
    /\ reader = "registered"
    /\ reader' = "read"
    /\ given' \in Sortings(db, [x \in db |-> x.n])
    /\ unread' = IF report.stored = "told" /\ report.entry \notin ToSet(queued)
                 THEN {report.entry} ELSE {}
    /\ UNCHANGED <<storeVars, reporterVars, upstreamVars, queued, overlooked, faults>>

NotSeenAny(x) == TRUE       \* mutant: m_LastSeenEntry is not compared
NotSeen(x) == \A i \in DOMAIN given : given[i].n < x.n

\* The entries that came in while the initial ones were read.
FinishInitial ==
    /\ reader = "read"
    /\ reader' = "live"
    /\ LET new == {i \in DOMAIN queued : NotSeen(queued[i])} IN
       \E f \in Sortings(new, [i \in new |-> i]) :
          given' = given \o [k \in DOMAIN f |-> queued[f[k]]]
    /\ queued' = <<>>
    /\ UNCHANGED <<storeVars, reporterVars, upstreamVars, unread, overlooked, faults>>

----------------------------------------------------------------------------

\* The store alone, the reporter with the upstream, the reader.
StoreProgress == WriteBegins \/ Commit \/ ReportEnds
ReporterProgress ==
    \/ Added \/ UpdateStarts \/ Opened \/ ReadSnapshot \/ SendBatch \/ BatchesSent
    \/ Deliver \/ Delivered \/ RetryTimer \/ RetryEnds
    \/ UAccept \/ UCommit
ReaderProgress == ReadInitial \/ FinishInitial

StoreNext == StoreProgress \/ Report \/ Crash \/ Cleanup \/ LogInfoChanged
ReporterNext == ReporterProgress \/ UpdateFails \/ Break
ReaderNext == ReaderProgress \/ Subscribe

Progress == StoreProgress \/ ReporterProgress \/ ReaderProgress
Next == StoreNext \/ ReporterNext \/ ReaderNext

Spec == Init /\ [][Next]_vars /\ WF_vars(Progress)

----------------------------------------------------------------------------

\* The upstream has, or is storing, every entry of the local database up to the last
\* number it has seen, which is all it will ever be sent from: but for the entries
\* the catch-up cannot know of, no number is ever given to two entries or skipped.
UpstreamAgrees ==
    \A r \in db : r.n <= uSeen =>
        \/ r \in uDb \/ r.n \in overlooked
        \/ \E i \in DOMAIN uWork : uWork[i].accepted /\ r \in uWork[i].rows

\* A reader gets every entry once and in order, whatever is stored while it reads
\* the initial ones, but for an entry that was being stored when it subscribed.
ReadersFollow ==
    /\ \A i, j \in DOMAIN given : i < j => given[i].n < given[j].n
    /\ reader = "live" => db \subseteq ToSet(given) \cup unread

\* In the end the upstream has all of the local database.
CaughtUp == <>[](\A r \in db : r \in uDb \/ r.n \in overlooked)
=============================================================================
