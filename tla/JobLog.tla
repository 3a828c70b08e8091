------------------------------- MODULE JobLog -------------------------------
(***************************************************************************)
(* The log files of utils/job_handler.py and the live view of them in      *)
(* utils/monitor.py.                                                       *)
(*                                                                         *)
(* The main thread starts patch jobs and watches them.  Starting one       *)
(* prunes the directory of job logs (_prune_old_action_logs()), creates    *)
(* the new log and writes to the audit log, which is rotated when it is    *)
(* full; session.log goes through the same code.  Watching one             *)
(* (_tail_log()) prints what is there and then what is added, by looking   *)
(* at the size of the file.  Meanwhile the jobs append their lines.        *)
(*                                                                         *)
(* All lines have the same size; a file is the sequence of their numbers.  *)
(*                                                                         *)
(* The names stay apart from those of Lockout, whose file lies beside      *)
(* these, so that a module may extend both.                                *)
(***************************************************************************)
EXTENDS Integers, Sequences, SequencesExt

CONSTANTS
  Jobs,
  NoJob,
  Lines,     \* lines a job writes, the header included
  Budget,    \* MAX_ACTION_LOG_BYTES, in lines
  AuditMax,  \* LOG_MAX_BYTES, in lines
  Entries,   \* bound: entries of the audit log
  LogFaults  \* what else may happen: "unlink", "rename", "touch" fail

VARIABLES
  at,       \* where the main thread is
  job,      \* the job it starts or watches
  listing,  \* the logs the pruning has still to look at, oldest first
  total,    \* its idea of their size
  file,     \* the log of each job, Absent if there is none
  age,      \* the jobs with a log, the one written last at the end
  status,   \* JOB_REGISTRY[j]["status"]
  wrote,    \* lines the job has written
  audit,    \* global_audit.log, Absent if there is none
  rotated,  \* global_audit.log.1
  entry,    \* the last entry written
  shown,    \* lines the view has printed
  missed,   \* lines written after the view has read the file and before it
            \* has taken its size
  pos,      \* last_size
  size      \* current_size

prune == <<listing, total>>
logs  == <<file, age, wrote>>
trail == <<audit, rotated, entry>>
view  == <<shown, missed, pos, size>>
logVars  == <<at, job, listing, total, file, age, status, wrote, audit, rotated, entry,
           shown, missed, pos, size>>

Absent == <<0>>  \* no line has number 0

ASSUME SizesAssumption ==
  /\ Lines \in Nat \ {0} /\ Budget \in Nat /\ AuditMax \in Nat \ {0} /\ Entries \in Nat
ASSUME NamesAssumption == NoJob \notin Jobs
ASSUME LogFaultsAssumption == LogFaults \subseteq {"unlink", "rename", "touch"}

Starting == {"list", "sum", "unlink", "create", "rotate", "touch", "append"}
Watching == {"read", "size", "poll", "grab", "check", "last", "over"}

LogTypeOK ==
  /\ at \in {"menu"} \union Starting \union Watching
  /\ job \in Jobs \union {NoJob}
  /\ at = "menu" => job = NoJob
  /\ \A i \in DOMAIN listing : listing[i] \in Jobs
  /\ total \in Int
  /\ \A j \in Jobs : file[j] = Absent \/ \A i \in DOMAIN file[j] : file[j][i] \in 1 .. Lines
  /\ ToSet(age) = {j \in Jobs : file[j] # Absent} /\ IsInjective(age)
  /\ status \in [Jobs -> {"none", "running", "done"}]
  /\ wrote \in [Jobs -> 0 .. Lines]
  /\ entry \in 0 .. Entries
  /\ shown \subseteq 1 .. Lines /\ missed \subseteq 1 .. Lines
  /\ pos \in 0 .. Lines /\ size \in 0 .. Lines

LogInit ==
  /\ at = "menu" /\ job = NoJob
  /\ listing = <<>> /\ total = 0
  /\ file = [j \in Jobs |-> Absent] /\ age = <<>>
  /\ status = [j \in Jobs |-> "none"]
  /\ wrote = [j \in Jobs |-> 0]
  /\ audit = <<>> /\ rotated = Absent /\ entry = 0
  /\ shown = {} /\ missed = {} /\ pos = 0 /\ size = 0

-----------------------------------------------------------------------------
(* Variants: slips that the properties must notice. *)

\* A deleted log is not taken off the total.
KeepTotal(f) == UNCHANGED total

\* The registry is told before the last line is in the file.
AllButOne(j) == wrote[j] = Lines - 1

\* Rotation at every entry.
RotateAlways == TRUE

\* The view looks at the registry only once.
NeverNotices == FALSE

-----------------------------------------------------------------------------
(* Helpers *)

Content(j) == IF file[j] = Absent THEN <<>> ELSE file[j]

\* The size of some logs: the lines that are in them.
Size(ls) == Cardinality({line \in ls \X (1 .. Lines) : line[2] \in DOMAIN file[line[1]]})

Grown == Len(Content(job)) > pos

\* f.seek(last_size) and f.read(): all there is by now.
AddedLines == ToSet(SubSeq(Content(job), pos + 1, Len(Content(job))))

\* Line wrote[j] + 1 of a job; open("a") creates the file if it is gone.
Write(j) ==
  /\ file' = [file EXCEPT ![j] = Append(Content(j), wrote[j] + 1)]
  /\ age' = Append(RemoveFirst(age, j), j)
  /\ wrote' = [wrote EXCEPT ![j] = @ + 1]

Goto(step) == at' = step /\ UNCHANGED job

BackToMenu == at' = "menu" /\ job' = NoJob

-----------------------------------------------------------------------------
(* get_detailed_logger(), on the main thread *)

StartJob(j) ==
  /\ at = "menu" /\ status[j] = "none" /\ entry < Entries
  /\ at' = "list" /\ job' = j
  /\ UNCHANGED <<prune, logs, status, trail, view>>

ListLogs ==
  /\ at = "list"
  /\ Goto("sum")
  /\ listing' = age
  /\ UNCHANGED <<total, logs, status, trail, view>>

SumSizes ==
  /\ at = "sum"
  /\ Goto("unlink")
  /\ total' = Size(ToSet(listing))
  /\ UNCHANGED <<listing, logs, status, trail, view>>

\* The size that is taken off is the one the log has now.
TakeOff(f) == total' = total - Len(file[f])

Unlink ==
  /\ at = "unlink" /\ listing # <<>> /\ total > Budget
  /\ LET f == Head(listing)
     IN /\ file' = [file EXCEPT ![f] = Absent]
        /\ age' = RemoveFirst(age, f)
        /\ TakeOff(f)
  /\ listing' = Tail(listing)
  /\ UNCHANGED <<at, job, wrote, status, trail, view>>

UnlinkFails ==
  /\ at = "unlink" /\ listing # <<>> /\ total > Budget /\ "unlink" \in LogFaults
  /\ listing' = Tail(listing)
  /\ UNCHANGED <<at, job, total, logs, status, trail, view>>

Pruned ==
  /\ at = "unlink" /\ (listing = <<>> \/ total <= Budget)
  /\ Goto("create")
  /\ listing' = <<>> /\ total' = 0
  /\ UNCHANGED <<logs, status, trail, view>>

\* touch() and the lines of the header.
CreateLog ==
  /\ at = "create"
  /\ Write(job)
  /\ Goto("rotate")
  /\ UNCHANGED <<prune, status, trail, view>>

-----------------------------------------------------------------------------
(* log_user() and _rotate_if_needed(): for a new job, or for another event *)

LogEvent ==
  /\ at = "menu" /\ entry < Entries
  /\ Goto("rotate")
  /\ UNCHANGED <<prune, logs, status, trail, view>>

Full == audit # Absent /\ Len(audit) >= AuditMax

Rotate ==
  /\ at = "rotate" /\ Full
  /\ rotated' = audit /\ audit' = Absent
  /\ Goto("touch")
  /\ UNCHANGED <<prune, logs, status, entry, view>>

NoRotation ==
  /\ at = "rotate" /\ (Full => "rename" \in LogFaults)
  /\ Goto("append")
  /\ UNCHANGED <<prune, logs, status, trail, view>>

TouchAudit ==
  /\ at = "touch"
  /\ Goto("append")
  /\ \/ audit' = <<>>
     \/ "touch" \in LogFaults /\ UNCHANGED audit
  /\ UNCHANGED <<prune, logs, status, rotated, entry, view>>

\* The entry; for a new job, register_job() in the caller.
AppendAudit ==
  /\ at = "append"
  /\ entry' = entry + 1
  /\ audit' = Append(IF audit = Absent THEN <<>> ELSE audit, entry')
  /\ status' = [j \in Jobs |-> IF j = job THEN "running" ELSE status[j]]
  /\ BackToMenu
  /\ UNCHANGED <<prune, logs, rotated, view>>

LogStart ==
  \/ ListLogs \/ SumSizes \/ Unlink \/ UnlinkFails \/ Pruned \/ CreateLog
  \/ Rotate \/ NoRotation \/ TouchAudit \/ AppendAudit

-----------------------------------------------------------------------------
(* The jobs *)

LogLine(j) ==
  /\ status[j] # "none" /\ wrote[j] < Lines
  /\ Write(j)
  /\ UNCHANGED <<at, job, prune, status, trail, view>>

\* Every path to finish_job() has logged its last line.
AllLogged(j) == wrote[j] = Lines

FinishJob(j) ==
  /\ status[j] = "running" /\ AllLogged(j)
  /\ status' = [status EXCEPT ![j] = "done"]
  /\ UNCHANGED <<at, job, prune, logs, trail, view>>

-----------------------------------------------------------------------------
(* _tail_log(), on the main thread; only a job with a log gets this far *)

OpenTail(j) ==
  /\ at = "menu" /\ status[j] # "none" /\ file[j] # Absent
  /\ at' = "read" /\ job' = j
  /\ UNCHANGED <<prune, logs, status, trail, view>>

PrintExisting ==
  /\ at = "read"
  /\ Goto("size")
  /\ shown' = ToSet(Content(job))
  /\ UNCHANGED <<prune, logs, status, trail, missed, pos, size>>

TakeSize ==
  /\ at = "size"
  /\ Goto("poll")
  /\ pos' = Len(Content(job))
  /\ missed' = ToSet(Content(job)) \ shown
  /\ UNCHANGED <<prune, logs, status, trail, shown, size>>

Poll ==
  /\ at = "poll"
  /\ IF Grown THEN Goto("grab") /\ size' = Len(Content(job))
              ELSE Goto("check") /\ UNCHANGED size
  /\ UNCHANGED <<prune, logs, status, trail, shown, missed, pos>>

Grab ==
  /\ at = "grab"
  /\ shown' = shown \union AddedLines
  /\ pos' = size
  /\ Goto("check")
  /\ UNCHANGED <<prune, logs, status, trail, missed, size>>

SeesEnd == status[job] # "running"

CheckStatus ==
  /\ at = "check"
  /\ Goto(IF SeesEnd THEN "last" ELSE "poll")
  /\ UNCHANGED <<prune, logs, status, trail, view>>

LastLook ==
  /\ at = "last"
  /\ shown' = shown \union AddedLines
  /\ Goto("over")
  /\ UNCHANGED <<prune, logs, status, trail, missed, pos, size>>

\* Enter, while the job runs or after it is over.
LeaveTail ==
  /\ at \in {"poll", "over"}
  /\ BackToMenu
  /\ shown' = {} /\ missed' = {} /\ pos' = 0 /\ size' = 0
  /\ UNCHANGED <<prune, logs, status, trail>>

Watch == PrintExisting \/ TakeSize \/ Poll \/ Grab \/ CheckStatus \/ LastLook

-----------------------------------------------------------------------------
LogNext ==
  \/ \E j \in Jobs : StartJob(j) \/ LogLine(j) \/ FinishJob(j) \/ OpenTail(j)
  \/ LogEvent \/ LogStart \/ Watch \/ LeaveTail

\* The main thread and the jobs go on; the operator need not press anything.
Fairness ==
  /\ WF_logVars(LogStart) /\ WF_logVars(Watch)
  /\ \A j \in Jobs : WF_logVars(LogLine(j) \/ FinishJob(j))

LogSpec == LogInit /\ [][LogNext]_logVars

FairLogSpec == LogSpec /\ Fairness

-----------------------------------------------------------------------------
(* Properties *)

\* When the view says that the job has finished, every line of the log has been
\* printed, but for those that fell between its first read and its first look at
\* the size: no interleaving of the job's lines, stat(), read() and the status
\* loses another one (utils/monitor.py:88-120).
TailShowsEnd == at = "over" => ToSet(Content(job)) \subseteq shown \union missed

\* "Stream log file output to the console" (utils/monitor.py:46): the same without
\* the exception.
TailShowsAll == at = "over" => ToSet(Content(job)) \subseteq shown

\* A view that the operator does not leave says so when the job is over.
TailReports == at \in Watching ~> at \in {"over", "menu"}

\* "Delete oldest per-action logs when the subdirectory exceeds
\* MAX_ACTION_LOG_BYTES" (utils/job_handler.py:113): a log is deleted only while the
\* directory is over the budget, although its size is added up once, jobs go on
\* writing, and a deletion may fail.
DeletedOverBudget ==
  [][\A j \in Jobs : file[j] # Absent /\ file'[j] = Absent =>
       Size(ToSet(age)) > Budget]_logVars

\* The newest entries of the audit log, as many as fill one file, are always in the
\* log or in the rotated one, in order and without a gap.
RecentEntriesKept ==
  LET kept == (IF rotated = Absent THEN <<>> ELSE rotated)
              \o (IF audit = Absent THEN <<>> ELSE audit)
      n    == Len(kept)
  IN /\ \A i \in 1 .. n : kept[i] = entry - n + i
     /\ n >= AuditMax \/ n = entry
=============================================================================
