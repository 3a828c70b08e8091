------------------------------ MODULE Console ------------------------------
(***************************************************************************)
(* The screens below the main menu and the terminal they share: Session    *)
(* with what the main thread waits for inside a task and inside the        *)
(* monitor.                                                                *)
(*                                                                         *)
(* Menus and get_hosts() read single keys in raw mode.  Prompts read a     *)
(* line: input() and getpass() on the main thread, and input() on a thread *)
(* of its own in _timed_input() (utils/task_runner.py) and _tail_log()     *)
(* (utils/monitor.py), for which the main thread waits with a timeout, or  *)
(* not only.  Such a reader cannot be called off: it lives until it gets a *)
(* line.  The interpreter lets one input() at a time have the terminal,    *)
(* the others wait for the lock.                                           *)
(***************************************************************************)
EXTENDS Session, HostInput

CONSTANTS
  Readers,  \* reader threads
  NoReader,
  Prompts,  \* prompts of a YAML task
  MaxTyped, \* bound: addresses typed in get_hosts()
  Faults    \* "interrupt": Ctrl+C in a prompt with a timeout; "eof": Ctrl+D

VARIABLES
  kind,     \* the task at work, "none" outside
  screen,   \* what the main thread waits for in a task or in the monitor
  targets,  \* the hosts the task has still to visit
  prompts,  \* prompts the YAML task has still to show
  threads,  \* the reader threads that wait for a line
  own,      \* the one that the main thread listens to
  heard,    \* what that one got: "none", "line", "eof"
  lock,     \* who has the terminal: NoReader, "main" or a thread
  watched   \* the job in the tail: "none", "running", "over"

doing     == <<kind, screen, targets, prompts>>
terminal  == <<threads, own, heard, lock>>
console   == <<kind, screen, targets, prompts, threads, own, heard, lock, watched>>
everything == <<vars, console>>

ASSUME ConsoleAssumption ==
  /\ NoReader \notin Readers \union {"main"} /\ "main" \notin Readers
  /\ Prompts \in Nat /\ MaxTyped \in Nat
  /\ Faults \subseteq {"interrupt", "eof"}

\* "delete" is user_delete() and group_delete(), "list" every task that only
\* visits hosts: the two checks and the two reboots.
PythonTasks == {"patch", "list", "delete", "password"}

\* Screens that read keys in raw mode, lines with input(), and with getpass().
KeyScreens    == {"hosts", "jobs"}
LineScreens   == {"name", "again", "enter", "failed", "over", "noJobs"}
SecretScreens == {"password", "confirm"}
Screens == KeyScreens \union LineScreens \union SecretScreens
             \union {"none", "prompt", "visit", "launch", "tail"}

ConsoleTypeOK ==
  /\ TypeOK
  /\ kind \in PythonTasks \union {"none", "yaml"} /\ (kind # "none" <=> pc = "task")
  /\ screen \in Screens /\ (screen # "none" <=> pc \in {"task", "monitor"})
  /\ Len(targets) <= MaxHosts
  /\ prompts \in 0 .. Prompts
  /\ threads \subseteq Readers
  /\ own \in Readers \union {NoReader}
  /\ heard \in {"none", "line", "eof"}
  /\ lock \in threads \union {NoReader, "main"}
  /\ watched \in {"none", "running", "over"}

ConsoleInit ==
  /\ Init
  /\ kind = "none" /\ screen = "none" /\ targets = <<>> /\ prompts = 0
  /\ threads = {} /\ own = NoReader /\ heard = "none" /\ lock = NoReader
  /\ watched = "none"

-----------------------------------------------------------------------------
(* Variants: slips that the properties must notice. *)

\* The task returns at once after a prompt that timed out.
NoPause == "none"

\* A host that cannot be reached is tried again.
TryAgain == UNCHANGED targets

-----------------------------------------------------------------------------
(* The terminal *)

ReadsLine == screen \in LineScreens \union SecretScreens

\* Who would take the next line and who has the terminal.
TakeTerminal(r) ==
  /\ lock = NoReader
  /\ r \in threads \union (IF ReadsLine THEN {"main"} ELSE {})
  /\ lock' = r
  /\ UNCHANGED <<vars, doing, threads, own, heard, watched>>

\* A line, or Ctrl+D: EOFError ends a tail's reader without setting its event,
\* _timed_input() notes both.
ThreadGetsLine(r, line) ==
  /\ lock = r /\ r \in threads
  /\ threads' = threads \ {r} /\ lock' = NoReader
  /\ heard' = IF r = own THEN line ELSE heard
  /\ UNCHANGED <<vars, doing, own, watched>>

StartReader ==
  \E r \in Readers \ threads :
    threads' = threads \union {r} /\ own' = r /\ heard' = "none"

\* A pause of 0.2 s or a timeout of a minute later the reader waits for its line,
\* if it does not have it yet.
ReaderStarted == own \in threads => lock # NoReader

StopListening == own' = NoReader /\ heard' = "none"

Show(s) == screen' = s /\ UNCHANGED <<kind, targets, prompts>>

NoTask == kind' = "none" /\ screen' = "none" /\ targets' = <<>> /\ prompts' = 0

\* The main thread gives the terminal up with its line or its exception.
Release == lock' = IF lock = "main" THEN NoReader ELSE lock

-----------------------------------------------------------------------------
(* A task: _run_task(), run_yaml_task() and the functions of the modules *)

\* A YAML task without commands, or a patch job that runs already, only pauses.
BeginTask(k) ==
  /\ RunTask
  /\ kind' = k /\ targets' = <<>>
  /\ IF k = "yaml" /\ Prompts > 0
     THEN screen' = "prompt" /\ prompts' = Prompts /\ StartReader
     ELSE /\ screen' \in {"hosts"} \union (IF k \in {"yaml", "patch"} THEN {"enter"} ELSE {})
          /\ prompts' = 0 /\ UNCHANGED <<threads, own, heard>>
  /\ UNCHANGED <<lock, watched>>

EndTask == BackFromTasks /\ pc = "task" /\ NoTask

\* A value that passes the check: the next prompt, or get_hosts().
PromptAnswered ==
  /\ screen = "prompt" /\ heard = "line"
  /\ prompts' = prompts - 1
  /\ IF prompts' > 0
     THEN StartReader /\ UNCHANGED screen
     ELSE StopListening /\ screen' = "hosts" /\ UNCHANGED threads
  /\ UNCHANGED <<vars, kind, targets, lock, watched>>

AfterPrompt == "enter"

\* The timeout, Ctrl+D, an empty line or one that fails the check.
PromptFails ==
  /\ screen = "prompt" /\ ReaderStarted
  /\ StopListening
  /\ IF AfterPrompt = "none" THEN EndTask ELSE Show(AfterPrompt) /\ UNCHANGED vars
  /\ UNCHANGED <<threads, lock, watched>>

\* Esc leaves get_hosts(), Ctrl+C does nothing there.
LeaveHosts ==
  /\ screen = "hosts"
  /\ EndTask
  /\ UNCHANGED <<terminal, watched>>

ConfirmHosts(raw) ==
  /\ screen = "hosts"
  /\ targets' = ValidateHosts(raw) /\ targets' # <<>>
  /\ screen' = IF kind \in {"delete", "password"} THEN "name"
               ELSE IF kind = "patch" THEN "launch" ELSE "visit"
  /\ UNCHANGED <<vars, kind, prompts, terminal, watched>>

LaunchJob ==
  /\ screen = "launch"
  /\ SubmitJob /\ NoTask
  /\ UNCHANGED <<terminal, watched>>

\* connect() that fails or a command that comes to an end.
HostIsThrough == targets' = Tail(targets)

VisitHost ==
  /\ screen = "visit" /\ targets # <<>>
  /\ HostIsThrough
  /\ UNCHANGED <<vars, kind, screen, prompts, terminal, watched>>

AllVisited ==
  /\ screen = "visit" /\ targets = <<>>
  /\ Show("enter")
  /\ UNCHANGED <<vars, terminal, watched>>

\* "except Exception" of _run_task(); a YAML task makes a row of it.
TaskRaises ==
  /\ screen \in {"visit", "launch"} /\ kind \in PythonTasks
  /\ Show("failed")
  /\ UNCHANGED <<vars, terminal, watched>>

\* What a line leads to: the right answer, or the one that ends the questions.
AnswerLeadsTo(s) ==
  {"enter", IF s = "name" THEN IF kind = "delete" THEN "again" ELSE "password"
            ELSE IF s = "password" THEN "confirm" ELSE "visit"}

AnswerQuestion ==
  /\ lock = "main" /\ screen \in {"name", "again", "password", "confirm"}
  /\ \E s \in AnswerLeadsTo(screen) : Show(s)
  /\ Release
  /\ UNCHANGED <<vars, threads, own, heard, watched>>

PressEnter ==
  /\ lock = "main" /\ screen \in {"enter", "failed"}
  /\ EndTask /\ Release
  /\ UNCHANGED <<threads, own, heard, watched>>

\* EOFError on the main thread: caught once, around a Python task.
EofInTask ==
  /\ lock = "main" /\ pc = "task" /\ "eof" \in Faults
  /\ IF kind \in PythonTasks /\ screen # "failed"
     THEN Show("failed") /\ UNCHANGED vars
     ELSE Abort /\ NoTask
  /\ Release
  /\ UNCHANGED <<threads, own, heard, watched>>

\* Ctrl+C: the menu is back.  A main thread that waits for the lock of input()
\* only notices it with its line.
InterruptTask ==
  /\ pc = "task" /\ screen # "hosts"
  /\ screen = "prompt" => "interrupt" \in Faults
  /\ screen \in LineScreens => lock = "main"
  /\ EndTask /\ Release
  /\ own' = NoReader /\ heard' = "none"
  /\ UNCHANGED <<threads, watched>>

Questions ==
  \/ PromptAnswered \/ PromptFails \/ LeaveHosts \/ AnswerQuestion \/ PressEnter

Work == LaunchJob \/ VisitHost \/ AllVisited

-----------------------------------------------------------------------------
(* The monitor: show_running_tasks() and _tail_log() *)

OpenJobs ==
  /\ OpenMonitor
  /\ screen' \in {"jobs", "noJobs"}
  /\ UNCHANGED <<kind, targets, prompts, terminal, watched>>

OpenTail ==
  /\ screen = "jobs" /\ Watch
  /\ StartReader
  /\ watched' \in {"over"} \union (IF jobs > 0 THEN {"running"} ELSE {})
  /\ Show("tail")
  /\ UNCHANGED lock

\* "Log file not found.": the loop of the monitor notes the activity.
NoLogToTail ==
  /\ screen = "jobs" /\ Watch
  /\ Show("over")
  /\ UNCHANGED <<terminal, watched>>

\* enter_pressed.
Detach ==
  /\ screen = "tail" /\ heard = "line" /\ Watch
  /\ Show("jobs") /\ StopListening /\ watched' = "none"
  /\ UNCHANGED <<threads, lock>>

SeesEnd == watched = "over"

\* The view looks at the job's status and asks for Enter itself.
TailEnds ==
  /\ screen = "tail" /\ SeesEnd /\ ReaderStarted
  /\ Show("over") /\ StopListening /\ watched' = "none"
  /\ UNCHANGED <<vars, threads, lock>>

LeaveTail ==
  /\ lock = "main" /\ screen = "over" /\ Watch
  /\ Show("jobs") /\ Release
  /\ UNCHANGED <<threads, own, heard, watched>>

\* "Back", Esc, or Enter when there is no job to show.
LeaveMonitor ==
  /\ (screen = "jobs" \/ (screen = "noJobs" /\ lock = "main"))
  /\ BackFromMonitor /\ NoTask /\ Release
  /\ UNCHANGED <<threads, own, heard, watched>>

\* Ctrl+C, Ctrl+D or an exception of the tail, whose file may be gone by the time
\* its size is taken, goes up to the entry point.
LeaveByException ==
  /\ pc = "monitor"
  /\ screen \in {"over", "noJobs"} => lock = "main"
  /\ \/ InterruptMenu
     \/ screen = "tail" /\ Abort
     \/ lock = "main" /\ "eof" \in Faults /\ Abort
  /\ NoTask /\ Release
  /\ own' = NoReader /\ heard' = "none" /\ watched' = "none"
  /\ UNCHANGED threads

Monitor ==
  \/ OpenJobs \/ OpenTail \/ NoLogToTail \/ Detach \/ TailEnds \/ LeaveTail \/ LeaveMonitor
  \/ LeaveByException

-----------------------------------------------------------------------------
(* The rest of Session *)

\* The job of the tail may be the one that ends, and must be if it is the last.
JobOver ==
  /\ JobEnds
  /\ \/ watched = "running" /\ watched' = "over"
     \/ (watched = "running" => jobs > 1) /\ UNCHANGED watched
  /\ UNCHANGED <<doing, terminal>>

\* SystemExit of a tamper alarm in the foreground, or an exception of a YAML task.
TaskAborts ==
  /\ screen = "visit"
  /\ Abort /\ NoTask
  /\ UNCHANGED <<terminal, watched>>

\* Reader threads are daemons.
ProcessOver ==
  /\ ProcessEnds
  /\ threads' = {} /\ lock' = NoReader
  /\ UNCHANGED <<doing, own, heard, watched>>

AtMenu ==
  \/ Start \/ (\E u \in Users : SignIn(u)) \/ InterruptLogin
  \/ CheckTimesOut \/ CheckPasses \/ Choose \/ ChoiceTimesOut \/ SignOut \/ Exit
  \/ OpenTasks \/ Finally \/ Tick
  \/ pc = "submenu" /\ (BackFromTasks \/ Abort)
  \/ pc \notin {"task", "monitor"} /\ (InterruptMenu \/ Abort)

ConsoleNext ==
  \/ AtMenu /\ UNCHANGED console
  \/ \E k \in PythonTasks \union {"yaml"} : BeginTask(k)
  \/ \E raw \in SeqOf(Typed, MaxTyped) : ConfirmHosts(raw)
  \/ Questions \/ Work \/ TaskRaises \/ TaskAborts \/ EofInTask \/ InterruptTask
  \/ Monitor \/ JobOver \/ ProcessOver
  \/ \E r \in Readers \union {"main"} : TakeTerminal(r)
  \/ \E r \in Readers : \/ ThreadGetsLine(r, "line")
                        \/ "eof" \in Faults /\ ThreadGetsLine(r, "eof")

\* The operator goes on pressing Enter where a line is asked for, and Esc in
\* get_hosts(); the hosts answer and jobs end.
ConsoleFairness ==
  /\ WF_everything(Questions) /\ WF_everything(Work)
  /\ WF_everything(TailEnds) /\ WF_everything(Detach) /\ WF_everything(JobOver)
  /\ \A r \in Readers \union {"main"} : WF_everything(TakeTerminal(r))
  /\ \A r \in Readers : WF_everything(ThreadGetsLine(r, "line"))

ConsoleSpec == ConsoleInit /\ [][ConsoleNext]_everything

FairConsoleSpec == ConsoleSpec /\ ConsoleFairness

-----------------------------------------------------------------------------
(* Properties *)

\* A menu, get_hosts() and every question have the terminal for themselves: the
\* reader of a prompt that timed out and the one of a tail whose job ended have got
\* the line they wait for by then, the Enter for which the main thread pauses
\* ("Press Enter to go back...", utils/task_runner.py:282, utils/monitor.py:124).
\* Ctrl+C in a prompt with a timeout breaks it.
NobodyElseReads ==
  /\ pc \in {"login", "select", "submenu"} => threads = {}
  /\ screen \in KeyScreens \union {"name", "again", "password", "confirm"} => threads = {}
  /\ screen \in {"prompt", "tail"} => threads \subseteq {own}

\* "Press ENTER to detach" (utils/monitor.py:69) and "Press Enter to go back": who
\* keeps pressing Enter gets out of every task and every tail, whoever waits for
\* lines, after Ctrl+D too.
EnterGetsBack ==
  /\ pc = "task" ~> pc # "task"
  /\ screen = "tail" ~> screen # "tail"

\* No host is visited twice by a task or beyond the limit of 50
\* (utils/host_input.py:8): the targets of a task are distinct spellings.
TargetsDistinct == IsInjective(targets) /\ Len(targets) <= MaxHosts

\* The same for the machines behind the spellings: "10.0.0.1" and "10.0.0.01" are
\* two targets (utils/host_input.py:26).
MachinesDistinct(machine) ==
  \A i, j \in DOMAIN targets : machine[targets[i]] = machine[targets[j]] => i = j
=============================================================================
