------------------------------ MODULE Session ------------------------------
(***************************************************************************)
(* The life of the process in Main.py: the vault is opened once, users sign*)
(* in and out, main_menu() serves one session with its inactivity timeout, *)
(* and every way out of a session - Sign Out, the timeout, Exit, Ctrl+C,   *)
(* an exception or the SystemExit of a tamper alarm - has to wipe the      *)
(* secrets that the session used.                                          *)
(*                                                                         *)
(* Three secrets are in memory: the SSH credentials of the vault (Main.py),*)
(* their copy for the session (utils/ssh_secure.py) and the key that signs *)
(* the host key store (utils/ssh_known_hosts.py).  Background jobs outlive *)
(* a session, and they keep a process alive whose main thread has ended.   *)
(***************************************************************************)
EXTENDS Naturals

CONSTANTS
  Users,
  NoUser,   \* nobody is signed in
  Timeout,  \* SESSION_TIMEOUT in ticks
  MaxIdle,  \* bound: ticks an operator is away
  MaxJobs   \* bound: background jobs at a time

VARIABLES
  pc,     \* where the main thread is
  user,   \* the user signed in
  idle,   \* time since last_activity
  choice, \* what the main menu has returned
  next,   \* where an unfinished main_menu() leads: "login", "exit",
          \* "interrupt", "abort"
  vault,  \* _vault_ssh_password_buf is loaded
  creds,  \* _SSH_PASSWORD_BUF is loaded
  hmac,   \* _hmac_key_buf is loaded
  jobs    \* background jobs at work

secrets == <<vault, creds, hmac>>
vars == <<pc, user, idle, choice, next, vault, creds, hmac, jobs>>

ASSUME NumbersAssumption ==
  /\ Timeout \in Nat /\ MaxIdle \in Nat /\ MaxJobs \in Nat
ASSUME NoUserAssumption == NoUser \notin Users

Points ==
  {"off",      \* no process
   "login",    \* user_login()
   "check",    \* head of the loop of main_menu()
   "select",   \* its numbered_select()
   "chosen",   \* that has returned
   "submenu",  \* _os_selector() and the menus below it
   "task",     \* a task in the foreground
   "monitor",  \* show_running_tasks()
   "finally",  \* main_menu() is left
   "linger"}   \* the main thread has ended, jobs run

InMenu == {"check", "select", "chosen", "submenu", "task", "monitor"}

MenuItems == {"Task", "Monitor", "SignOut", "Exit"}

TypeOK ==
  /\ pc \in Points
  /\ user \in Users \union {NoUser}
  /\ pc \in InMenu => user # NoUser
  /\ idle \in 0 .. MaxIdle
  /\ choice \in MenuItems \union {"none"}
  /\ next \in {"none", "login", "exit", "interrupt", "abort"}
  /\ vault \in BOOLEAN /\ creds \in BOOLEAN /\ hmac \in BOOLEAN
  /\ jobs \in 0 .. MaxJobs

Init ==
  /\ pc = "off" /\ user = NoUser /\ idle = 0 /\ choice = "none" /\ next = "none"
  /\ vault = FALSE /\ creds = FALSE /\ hmac = FALSE
  /\ jobs = 0

-----------------------------------------------------------------------------
(* Variants: slips that the properties must notice. *)

\* No second look at the clock once the menu has returned.
NeverTimedOut == FALSE

\* No "finally" around main_menu().
NoFinally == UNCHANGED <<creds, hmac>>

\* The handler of KeyboardInterrupt forgets the vault's copy.
WipeAtExitOnly(how) == vault' = (vault /\ how # "exit")

-----------------------------------------------------------------------------
(* Helpers *)

TimedOut == idle > Timeout

\* clear_ssh_credentials() and clear_hmac_key().
ClearSecrets == creds' = FALSE /\ hmac' = FALSE

\* The finally clause around main_menu().
FinallyClears == ClearSecrets

\* Exit wipes the vault's copy before it raises SystemExit, the handler of
\* KeyboardInterrupt after the finally clause.
WipeVault(how) == vault' = (vault /\ how \notin {"exit", "interrupt"})

\* main_menu() returns or is left by an exception.
LeaveMenu(to) ==
  /\ pc' = "finally" /\ next' = to
  /\ choice' = "none"
  /\ UNCHANGED <<user, idle, jobs>>

\* main_menu() returns of its own: it has wiped the secrets.
Return(to) == LeaveMenu(to) /\ ClearSecrets /\ UNCHANGED vault

\* last_activity = time.time() at the end of the loop body.
BackToMenu == pc' = "check" /\ idle' = 0

-----------------------------------------------------------------------------
(* Startup and login *)

\* get_user_list(): the only call of init_hmac_key().
Start ==
  /\ pc = "off"
  /\ pc' = "login" /\ vault' = TRUE /\ hmac' = TRUE
  /\ UNCHANGED <<user, idle, choice, next, creds, jobs>>

SignIn(u) ==
  /\ pc = "login" /\ vault
  /\ pc' = "check" /\ user' = u /\ idle' = 0
  /\ creds' = TRUE
  /\ UNCHANGED <<choice, next, vault, hmac, jobs>>

\* Ctrl+C, or Q in the list of accounts: the handler wipes everything.
InterruptLogin ==
  /\ pc = "login"
  /\ pc' = "linger" /\ next' = "interrupt"
  /\ ClearSecrets /\ WipeVault("interrupt")
  /\ UNCHANGED <<user, idle, choice, jobs>>

-----------------------------------------------------------------------------
(* main_menu() *)

CheckTimesOut == pc = "check" /\ TimedOut /\ Return("login")

CheckPasses ==
  /\ pc = "check" /\ ~TimedOut
  /\ pc' = "select"
  /\ UNCHANGED <<user, idle, choice, next, secrets, jobs>>

\* Esc is a Sign Out.
Choose ==
  /\ pc = "select"
  /\ pc' = "chosen" /\ choice' \in MenuItems
  /\ UNCHANGED <<user, idle, next, secrets, jobs>>

\* The second look at the clock, after numbered_select() has returned.
ChosenTooLate == TimedOut

ChoiceTimesOut == pc = "chosen" /\ ChosenTooLate /\ Return("login")

SignOut ==
  /\ pc = "chosen" /\ ~ChosenTooLate /\ choice = "SignOut"
  /\ Return("login")

Exit ==
  /\ pc = "chosen" /\ ~ChosenTooLate /\ choice = "Exit"
  /\ LeaveMenu("exit") /\ ClearSecrets /\ WipeVault("exit")

OpenTasks ==
  /\ pc = "chosen" /\ ~ChosenTooLate /\ choice = "Task"
  /\ pc' = "submenu" /\ choice' = "none"
  /\ UNCHANGED <<user, idle, next, secrets, jobs>>

\* The monitor notes the activity at once.
OpenMonitor ==
  /\ pc = "chosen" /\ ~ChosenTooLate /\ choice = "Monitor"
  /\ pc' = "monitor" /\ choice' = "none" /\ idle' = 0
  /\ UNCHANGED <<user, next, secrets, jobs>>

-----------------------------------------------------------------------------
(* Below the main menu *)

RunTask ==
  /\ pc = "submenu"
  /\ pc' = "task"
  /\ UNCHANGED <<user, idle, choice, next, secrets, jobs>>

\* Back, Esc or Ctrl+C (Q) in a submenu, and a task that is over: done, failed
\* or interrupted.
BackFromTasks ==
  /\ pc \in {"submenu", "task"}
  /\ BackToMenu
  /\ UNCHANGED <<user, choice, next, secrets, jobs>>

SubmitJob ==
  /\ pc = "task" /\ jobs < MaxJobs
  /\ BackToMenu
  /\ jobs' = jobs + 1
  /\ UNCHANGED <<user, choice, next, secrets>>

\* Every key in the monitor, and every line that the job writes, is activity.
Watch ==
  /\ pc = "monitor"
  /\ idle' = 0
  /\ UNCHANGED <<pc, user, choice, next, secrets, jobs>>

BackFromMonitor ==
  /\ pc = "monitor"
  /\ BackToMenu
  /\ UNCHANGED <<user, choice, next, secrets, jobs>>

\* Ctrl+C, or Q, where no handler of main_menu() is: it goes up to the entry
\* point, by way of the finally clause.
InterruptMenu ==
  /\ pc \in {"check", "select", "chosen", "monitor"}
  /\ LeaveMenu("interrupt") /\ UNCHANGED secrets

\* SystemExit of _tamper_abort() in the foreground, or an exception that nobody
\* catches, such as the EOFError of Ctrl+D.
Abort ==
  /\ pc \in InMenu
  /\ LeaveMenu("abort") /\ UNCHANGED secrets

-----------------------------------------------------------------------------
(* The entry point, the jobs, time *)

\* The finally clause around main_menu() and what comes after it.
Finally ==
  /\ pc = "finally"
  /\ FinallyClears
  /\ IF next = "login"
     THEN pc' = "login" /\ next' = "none" /\ UNCHANGED vault
     ELSE pc' = "linger" /\ UNCHANGED next /\ WipeVault(next)
  /\ user' = NoUser
  /\ UNCHANGED <<idle, choice, jobs>>

\* The interpreter waits for the job threads; then the memory is gone.
ProcessEnds ==
  /\ pc = "linger" /\ jobs = 0
  /\ pc' = "off" /\ next' = "none" /\ idle' = 0
  /\ vault' = FALSE /\ creds' = FALSE /\ hmac' = FALSE
  /\ UNCHANGED <<user, choice, jobs>>

JobEnds ==
  /\ jobs > 0
  /\ jobs' = jobs - 1
  /\ UNCHANGED <<pc, user, idle, choice, next, secrets>>

\* The operator takes time, and so does a task; a process that was stopped with
\* Ctrl+Z may go on hours later between any two of its looks at the clock.
Tick ==
  /\ pc \in {"check", "select", "chosen", "submenu", "task", "monitor"}
  /\ idle < MaxIdle
  /\ idle' = idle + 1
  /\ UNCHANGED <<pc, user, choice, next, secrets, jobs>>

Menu ==
  \/ CheckTimesOut \/ CheckPasses \/ Choose \/ ChoiceTimesOut
  \/ SignOut \/ Exit \/ OpenTasks \/ OpenMonitor
  \/ RunTask \/ BackFromTasks \/ SubmitJob \/ Watch \/ BackFromMonitor

Next ==
  \/ Start \/ (\E u \in Users : SignIn(u)) \/ InterruptLogin
  \/ Menu \/ InterruptMenu \/ Abort
  \/ Finally \/ ProcessEnds \/ JobEnds \/ Tick

Spec == Init /\ [][Next]_vars

-----------------------------------------------------------------------------
(* Properties *)

\* "Call clear_ssh_credentials() on every exit path (logout, timeout, Ctrl+C)"
\* (utils/ssh_secure.py:79): the session's copy of the SSH password is in memory
\* exactly while a user is in the menus; it is there for every task, and neither
\* the next login nor a process that waits for its jobs finds it.
CredentialsFollowSession ==
  /\ pc \in InMenu => creds
  /\ pc \in {"off", "login", "linger"} => ~creds

\* "Called at process exit (KeyboardInterrupt handler and normal exit)"
\* (Main.py:237): a process that only waits for its jobs after Exit or Ctrl+C
\* has no secret left.
NothingLeftAtExit ==
  pc = "linger" /\ next \in {"exit", "interrupt"} => ~vault /\ ~creds /\ ~hmac

\* An operator who was away for longer than the timeout gets nothing from the
\* main menu but the way out, although the clock is not looked at while the menu
\* waits for a key.
IdleMenuSignsOut ==
  [][pc = "chosen" /\ idle > Timeout => pc' \in {"chosen", "finally"}]_vars

\* "SESSION_TIMEOUT = 1800   # 30 minutes inactivity" (Main.py:57): no task is
\* started in a session that was left alone for longer.
NoTaskAfterTimeout == [][pc # "task" /\ pc' = "task" => idle <= Timeout]_vars

\* "init_hmac_key() must be called after vault decryption before any SSH
\* connection is attempted" (utils/ssh_known_hosts.py:88-90): a task finds the
\* key that signs the host key store.
KeyForEveryTask == pc = "task" => hmac
=============================================================================
