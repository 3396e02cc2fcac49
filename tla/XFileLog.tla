----------------------------- MODULE XFileLog -----------------------------
(***************************************************************************)
(* The file logger of log/xlog/file.go: an XFileLog holds two open files,  *)
(* <name>.log for levels below Warn and <name>.log.wf for Warn and Fatal.  *)
(* A spliter goroutine wakes every SpliterDelay seconds, cleans old        *)
(* rotated files and, when the hour changed, renames the two files and     *)
(* reopens them (rename, ReOpen), handing the old handles to delayClose    *)
(* goroutines that close them a second later.  Close closes the current    *)
(* handles and cancels the spliter, whose deferred Close runs again.       *)
(* Logging goroutines read p.file without the mutex and write to what they *)
(* read.                                                                   *)
(*                                                                         *)
(* A file handle is a number; the disk is abstracted to whether each      *)
(* active file has content and which rotated files (kind, hour) exist.    *)
(***************************************************************************)
EXTENDS Naturals, FiniteSets, SequencesExt

CONSTANTS
    Writers,      \* goroutines that call Warn, Notice, Debug, ...
    Level,        \* p.level, the configured level
    MaxHandles,   \* bound on the file handles opened in a run
    MaxHour,      \* bound on the clock, in hours
    KeepCounts,   \* logKeepCounts
    KeepHours,    \* logKeepDays, in hours
    OpenMayFail,  \* whether os.OpenFile may fail (disk full, permissions)
    DoSplit       \* config["dosplit"] = "true": the spliter is started

\* The level constants of xlog, in the order its guards rely on.
DebugLevel == 0
TraceLevel == 1
NoticeLevel == 2
WarnLevel == 3
FatalLevel == 4
Levels == DebugLevel .. FatalLevel

Handles == 1 .. MaxHandles
Nil == 0
Kinds == {"log", "wf"}
Hours == 0 .. MaxHour

ASSUME XFileLogAssumption ==
    /\ Level \in Levels
    /\ MaxHandles \in Nat /\ MaxHandles >= 2
    /\ MaxHour \in Nat
    /\ KeepCounts \in Nat \ {0} /\ KeepHours \in Nat
    /\ OpenMayFail \in BOOLEAN /\ DoSplit \in BOOLEAN

VARIABLES
    file, errFile,  \* p.file, p.errFile
    open,           \* handles the process holds open
    delayed,        \* handles a delayClose goroutine will close
    nextH,          \* the next handle number os.OpenFile returns
    cancelled,      \* the spliter's context is cancelled (p.Cancel called)
    closeCalled,    \* the program called Close
    spliter,        \* "off", "wait" (in select), "rename" (hour changed), "exited"
    preHour,        \* the spliter's preHour / splitTime
    now,            \* the clock, in hours
    active,         \* active[k]: <name>.log(.wf) has content
    rotated,        \* the rotated files on disk, as [kind, hour]
    wr              \* wr[w]: a logging goroutine inside write()

logVars == <<file, errFile, open, delayed, nextH, cancelled, closeCalled,
             spliter, preHour, now, active, rotated, wr>>

Rotated == [kind : Kinds, hour : Hours]
WriterState == [pc : {"idle", "got"}, h : Handles \cup {Nil}, kind : Kinds]

-----------------------------------------------------------------------------
(* File handles                                                            *)

\* Fault variant of ReOpen: delayClose is handed the handles just opened.
ReOpenLateDelay(ok1, ok2) ==
    /\ delayed' = delayed \cup {nextH, nextH + 1}
    /\ file' = nextH /\ errFile' = nextH + 1
    /\ open' = open \cup {nextH, nextH + 1}
    /\ nextH' = nextH + 2

\* ReOpen: both current handles go to delayClose, then <name>.log and
\* <name>.log.wf are opened.  If the first open fails p.file keeps the old
\* handle; if the second fails the new p.file is closed and both become nil.
ReOpen(ok1, ok2) ==
    LET h1 == nextH
        h2 == nextH + 1
    IN /\ delayed' = delayed \cup ({file, errFile} \ {Nil})
       /\ IF ~ok1
          THEN /\ UNCHANGED <<file, errFile, open, nextH>>
          ELSE IF ~ok2
          THEN /\ file' = Nil /\ errFile' = Nil
               /\ open' = open \* h1 opened and closed again
               /\ nextH' = nextH + 2
          ELSE /\ file' = h1 /\ errFile' = h2
               /\ open' = open \cup {h1, h2}
               /\ nextH' = nextH + 2

\* The outcomes of os.OpenFile the run allows.
OpenOutcomes == IF OpenMayFail THEN BOOLEAN ELSE {TRUE}

\* removeFile(old, new): an empty active file, or an existing target, is
\* left alone; otherwise the active file becomes the rotated one.
RemoveFile(k, suffix) ==
    IF active[k] /\ [kind |-> k, hour |-> suffix] \notin rotated
    THEN {[kind |-> k, hour |-> suffix]}
    ELSE {}

\* Whether the active file of kind k still holds lines after removeFile.
RemoveFileKeeps(k, suffix) == active[k] /\ [kind |-> k, hour |-> suffix] \in rotated

\* The rotated files of f's kind newer than f.
NewerThan(f) == {g \in rotated : g.kind = f.kind /\ g.hour > f.hour}

\* filepath.Glob returns the names sorted: <name>.log-<hour>.log before
\* <name>.log.wf-<hour>.log.wf, and by hour within a kind.
GlobBefore(a, b) == (a.kind = "log" /\ b.kind = "wf") \/ (a.kind = b.kind /\ a.hour < b.hour)

\* The number of names filepath.Glob returns before f's.
GlobRank(files, f) == Cardinality({g \in files : GlobBefore(g, f)})

\* filepath.Glob's result: its i-th name is the file with i - 1 names
\* before it.
GlobSorted(files) ==
    [i \in 1 .. Cardinality(files) |-> CHOOSE f \in files : GlobRank(files, f) = i - 1]

\* One iteration of clean's first loop: count the file under its kind (the
\* name with its digits removed) and remove it beyond logKeepCounts.
KeepCountStep(acc, f) ==
    IF acc.count[f.kind] + 1 > KeepCounts
    THEN [acc EXCEPT !.removed = @ \cup {f}]
    ELSE [acc EXCEPT !.count[f.kind] = @ + 1]

KeepCountBase == [count |-> [k \in Kinds |-> 0], removed |-> {}]

\* Fault variant of clean: the glob is walked from its first (oldest) entry.
CleanOldestFirst(files) ==
    LET r == FoldLeft(KeepCountStep, KeepCountBase, GlobSorted(files))
    IN {f \in files \ r.removed : f.hour + KeepHours >= now}

\* clean(keepDays, logKeepCounts): the glob is walked from its last entry
\* and the files of a kind beyond logKeepCounts are removed; then every
\* remaining file older than keepDays is removed.  The active files are
\* skipped (canSkipClean); they are not among the rotated files here.
Clean(files) ==
    LET r == FoldLeft(KeepCountStep, KeepCountBase, Reverse(GlobSorted(files)))
    IN {f \in files \ r.removed : f.hour + KeepHours >= now}

-----------------------------------------------------------------------------
(* Actions                                                                 *)

\* Init ran ReOpen once; the spliter was started if dosplit is "true".
Init ==
    /\ file = 1 /\ errFile = 2 /\ open = {1, 2} /\ delayed = {} /\ nextH = 3
    /\ cancelled = FALSE /\ closeCalled = FALSE
    /\ spliter = IF DoSplit THEN "wait" ELSE "off"
    /\ preHour = 0 /\ now = 0
    /\ active = [k \in Kinds |-> FALSE]
    /\ rotated = {}
    /\ wr = [w \in Writers |-> [pc |-> "idle", h |-> Nil, kind |-> "log"]]

\* The clock moves to the next hour.
ClockTick ==
    /\ now < MaxHour
    /\ now' = now + 1
    /\ UNCHANGED <<file, errFile, open, delayed, nextH, cancelled, closeCalled,
                   spliter, preHour, active, rotated, wr>>

\* The spliter's timer fires: clean, and if the hour changed go on to rename.
SpliterTick ==
    /\ spliter = "wait"
    /\ ~cancelled
    /\ rotated' = Clean(rotated)
    /\ spliter' = IF now # preHour THEN "rename" ELSE "wait"
    /\ UNCHANGED <<file, errFile, open, delayed, nextH, cancelled, closeCalled,
                   preHour, now, active, wr>>

\* On an hour change the spliter cleans once more, then rename(splitTime)
\* under p.mu: unless p.file is nil both files are moved to their hourly
\* names; the deferred ReOpen runs in every case.
Rename ==
    /\ spliter = "rename"
    /\ nextH + 1 <= MaxHandles
    /\ \E ok1, ok2 \in OpenOutcomes : ReOpen(ok1, ok2)
    /\ IF file = Nil
       THEN /\ rotated' = Clean(rotated)
            /\ UNCHANGED active
       ELSE /\ rotated' = Clean(rotated) \cup UNION {RemoveFile(k, preHour) : k \in Kinds}
            /\ active' = [k \in Kinds |-> RemoveFileKeeps(k, preHour)]
    /\ spliter' = "wait"
    /\ preHour' = now
    /\ UNCHANGED <<cancelled, closeCalled, now, wr>>

\* Close under p.mu: the current handles are closed and set to nil, and
\* the spliter's context is cancelled.
CloseHandles ==
    /\ open' = open \ {file, errFile}
    /\ file' = Nil /\ errFile' = Nil
    /\ cancelled' = TRUE

\* The program closes the logger.
LoggerClose ==
    /\ ~closeCalled
    /\ closeCalled' = TRUE
    /\ CloseHandles
    /\ UNCHANGED <<delayed, nextH, spliter, preHour, now, active, rotated, wr>>

\* Fault variant of the spliter's exit: no deferred Close.
SpliterExitNoClose ==
    /\ spliter = "wait" /\ cancelled
    /\ spliter' = "exited"
    /\ UNCHANGED <<file, errFile, open, delayed, nextH, cancelled, closeCalled,
                   preHour, now, active, rotated, wr>>

\* ctx.Done(): the spliter returns and its deferred Close runs.
SpliterExit ==
    /\ spliter = "wait" /\ cancelled
    /\ spliter' = "exited"
    /\ CloseHandles
    /\ UNCHANGED <<delayed, nextH, closeCalled, preHour, now, active, rotated, wr>>

\* delayClose(fp): a second later the handle is closed.
DelayClose(h) ==
    /\ h \in delayed
    /\ delayed' = delayed \ {h}
    /\ open' = open \ {h}
    /\ UNCHANGED <<file, errFile, nextH, cancelled, closeCalled, spliter, preHour,
                   now, active, rotated, wr>>

\* Warn, Notice, Debug, ... : unless p.level is above the call's level,
\* write() picks p.errFile for Warn and Fatal and p.file otherwise.
WriteStart(w) ==
    /\ wr[w].pc = "idle"
    /\ \E lvl \in Levels :
         /\ Level <= lvl
         /\ wr' = [wr EXCEPT ![w] = IF lvl >= WarnLevel
                                    THEN [pc |-> "got", kind |-> "wf", h |-> errFile]
                                    ELSE [pc |-> "got", kind |-> "log", h |-> file]]
    /\ UNCHANGED <<file, errFile, open, delayed, nextH, cancelled, closeCalled,
                   spliter, preHour, now, active, rotated>>

\* file.Write: the line reaches the file if the handle is still open and
\* still the active file's (a nil or closed *os.File returns an error that
\* write() drops; a renamed handle writes into the rotated file).
WriteDone(w) ==
    /\ wr[w].pc = "got"
    /\ active' = IF wr[w].h \in open /\ wr[w].h \in {file, errFile}
                 THEN [active EXCEPT ![wr[w].kind] = TRUE] ELSE active
    /\ wr' = [wr EXCEPT ![w] = [pc |-> "idle", h |-> Nil, kind |-> "log"]]
    /\ UNCHANGED <<file, errFile, open, delayed, nextH, cancelled, closeCalled,
                   spliter, preHour, now, rotated>>

Next ==
    \/ ClockTick
    \/ SpliterTick
    \/ Rename
    \/ LoggerClose
    \/ SpliterExit
    \/ \E h \in Handles : DelayClose(h)
    \/ \E w \in Writers : WriteStart(w) \/ WriteDone(w)

\* The Go runtime runs every runnable goroutine and fires every timer: the
\* spliter, the delayClose goroutines and the writers are weakly fair; the
\* program's Close is not.
Fairness ==
    /\ WF_logVars(SpliterTick) /\ WF_logVars(Rename) /\ WF_logVars(SpliterExit)
    /\ \A h \in Handles : WF_logVars(DelayClose(h))
    /\ \A w \in Writers : WF_logVars(WriteDone(w))
    /\ WF_logVars(ClockTick)

Spec == Init /\ [][Next]_logVars /\ Fairness

-----------------------------------------------------------------------------
(* Properties                                                              *)

LogTypeOK ==
    /\ file \in Handles \cup {Nil} /\ errFile \in Handles \cup {Nil}
    /\ open \subseteq Handles /\ delayed \subseteq Handles
    /\ nextH \in 1 .. MaxHandles + 1
    /\ cancelled \in BOOLEAN /\ closeCalled \in BOOLEAN
    /\ spliter \in {"off", "wait", "rename", "exited"}
    /\ preHour \in Hours /\ now \in Hours
    /\ active \in [Kinds -> BOOLEAN]
    /\ rotated \subseteq Rotated
    /\ wr \in [Writers -> WriterState]

\* Until the program closes the logger, the handles Warn and Notice write
\* to are open and not handed to delayClose: a rotation never leaves the
\* logger writing to a file that is about to be closed, or to nil.
CurrentHandlesLive ==
    ~closeCalled =>
        \A h \in {file, errFile} : h \in open /\ h \notin delayed

\* The inductive invariant behind CurrentHandlesLive: only Close cancels the
\* spliter, and every handle that is open, handed to delayClose or current
\* was returned by an earlier os.OpenFile, so the two handles ReOpen opens
\* are fresh.
LogInv ==
    /\ LogTypeOK
    /\ cancelled => closeCalled
    /\ \A h \in open \cup delayed \cup ({file, errFile} \ {Nil}) : h < nextH
    /\ CurrentHandlesLive

\* Once the program closed the logger, every file handle it opened is
\* eventually closed, even when a rotation was reopening the files at the
\* moment of Close (rename's deferred ReOpen runs after Close).
HandlesReleased == closeCalled ~> (open = {})

\* Each clean keeps, of every kind, exactly the logKeepCounts newest rotated
\* files that are not older than logKeepDays.
CleanKeepsNewest ==
    [][SpliterTick =>
         rotated' = {f \in rotated : /\ Cardinality(NewerThan(f)) < KeepCounts
                                    /\ f.hour + KeepHours >= now}]_logVars

=============================================================================
