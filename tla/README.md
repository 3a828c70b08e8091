# TLA+ models of the patching tool

The repository is a console program for Linux administrators: after a vault has
been opened with a passphrase and a user has signed in, its menus run tasks over
SSH on up to 50 hosts at a time - patching in background jobs, reboots, YAML
tasks, user management. This directory holds TLA+ models of its stateful parts,
TLC configurations that check them on small instances, and TLAPS proofs of the
most important results for every instance.

To check a model: `tlc -config MCSshClient.cfg MCSshClient.tla`. To check a
proof: `tlapm SshClientProofs.tla`. `PROJECT.json` lists the runs, the source
lines each definition stands for, the hazards and the findings.

## 1. The system

| Component | Source | State it keeps | Operations |
|---|---|---|---|
| SSH slots and clients | `utils/ssh.py` | `_GLOBAL_SSH_SEM` (30 slots), per object the paramiko client and `_sem_acquired` | constructor, `connect()`, `_tofu_reconnect()`, `close()` |
| Remote commands | `utils/ssh.py` `run()` | two reader threads, their buffers, the channel | start, read, join, close, report |
| Host key store | `utils/ssh_known_hosts.py` | `_store`, `_loaded`, the HMAC key; on disk the store and its signature | `verify_or_learn()`, `_load()`, `_save()`, `init_hmac_key()`, `clear_hmac_key()` |
| Patch jobs | `modules/redhat.py`, `modules/ubuntu.py` `patch()`, `utils/job_handler.py` | `JOB_REGISTRY`; per job a thread, two pools, `hosts_done`, the summary | register, precheck, patch, progress, finish |
| Reboots | the same modules | the summary rows, the attempt counter | `reboot_required()`, `force_reboot()`, `_wait_for_reboot()` |
| YAML tasks | `utils/task_runner.py` | pool, futures, rows | `run_yaml_task()` |
| Login lockout | `Main.py` | `_failed_attempts`, `_lockout_until`, their file | `_record_failure()`, `_record_success()`, `_is_locked_out()`, load, save |
| Session and secrets | `Main.py`, `utils/ssh_secure.py` | the vault's copy of the SSH credentials, the session's copy, `last_activity` | startup, sign-in, menus, timeout, sign-out, exit |
| Numbered menu | `utils/navigation.py` | the highlight, the digit buffer; below it the buffer of `sys.stdin` | `numbered_select()` |
| Monitor | `utils/monitor.py` | a reader thread per tail, the position in the log | list jobs, tail a log |
| Prompts | `utils/task_runner.py` `_timed_input()` | a reader thread per prompt | ask with a timeout |
| Logs | `utils/job_handler.py` | files under `logs/` | append, rotate, prune |
| Host input | `utils/host_input.py` | the address list being typed | `get_hosts()`, `_validate_hosts()` |
| User, password and group tasks, checks | `modules/redhat.py`, `modules/ubuntu.py` | none that outlives a call, but each asks its questions on the terminal | `user_delete()`, `group_delete()`, `password_update()`, `check_update()`, `check_reboot()` |
| Vault, display, Windows stubs | `patcher_helpers.py`, `utils/display.py`, `modules/windows.py` | none | |

How they meet. The main thread runs the menus and every foreground task; a patch
job is a thread of its own with pools of workers; each worker builds an
`SSHClient`, takes one of the 30 slots of the process, and calls
`verify_or_learn()` on the way to the host. Job threads share the registry with
the monitor, the key store with each other and with the foreground, and the
secrets with the main thread, which wipes them when the session ends - while
jobs go on.

What is hard here:

* **Concurrency**: 50 + 20 workers per job on 30 slots; concurrent first sights
  of hosts that rewrite the same two files; progress counted and published in two
  steps; readers that append to buffers while `run()` collects them; threads that
  wait for a line of the terminal and cannot be called off; a view that follows a
  file while it grows.
* **Control flow**: KeyboardInterrupt only hits the main thread and goes past
  `except Exception`; so does the SystemExit of the tamper alarm, which in a worker
  only ends up in a future.
* **Crashes**: two persistent states (key store, lockout), each written in more
  than one step.
* **Timeouts**: slots (60 s), joins (10 s, 5 s), futures, the reboot wait, the
  inactivity timeout - each counted from a different start.
* **Order**: sign-out during a job; a second session in the same process; results
  taken in host order while workers finish in any.

## 2. The modules

| Module | Models | Composes |
|---|---|---|
| `SshSlots` | abstract: a bounded set of slots, sessions only under a slot | |
| `SshClient` | the life of `SSHClient` objects | implements `SshSlots` |
| `SshClientProofs` | proofs about it | |
| `TofuMap` | abstract: a host is learned once and every answer agrees with that | |
| `HostKeyStore` | `ssh_known_hosts.py` with threads, crashes, restarts | implements `TofuMap` |
| `HostKeyStoreProofs` | proofs about it | |
| `PatchJob` | background jobs, the registry, the operator | |
| `PatchJobProofs` | proofs about it | |
| `RemoteRun` | one `run()` with its readers and the channel | |
| `RemoteRunProofs` | proofs about it | |
| `YamlTask` | the pool and the collection of `run_yaml_task()` | |
| `YamlTaskProofs` | proofs about it | |
| `Lockout` | the login lockout over restarts | |
| `Session` | sign-in, `main_menu()`, the secrets; what a console promises of them | |
| `HostInput` | what becomes of typed addresses | |
| `Console` | the screens of every task and of the monitor, the readers of the terminal | extends `Session` and `HostInput`, implements `Session` |
| `JobLog` | job logs, the audit log, pruning, rotation, the live view of a log | |
| `LogDirProofs` | proofs about `Lockout` and `JobLog`, what lies under `logs/` | extends both |
| `Reboot` | the reboot tasks against real machines | |
| `RebootProofs` | proofs about it | |
| `NumberedSelect` | `numbered_select()` on a terminal | |
| `ConsoleProofs` | proofs about `Session`, `HostInput`, `Console` and `NumberedSelect` | extends `Console` and `NumberedSelect` |

A configuration names its module first: `RebootSlow.cfg` belongs to `Reboot`. The two
`MC...` modules hold definitions that only TLC's instances need: the spellings that
mean the same machine, and where Ctrl+C may land.

No module holds a recursive operator: what the code adds up in a loop
(`ValidateHosts`, `Number`) is a recursive function. The specifications that are
proved about together have names of their own (`LogSpec`, `SelectSpec`,
`ConsoleSpec` beside `Spec`). Constants carry
named assumptions; the constant `Faults` (in `RemoteRun` `Conditions`, in
`SshClient` `InterruptPoints`, in `JobLog` `LogFaults`) says what may go wrong in the surroundings, so that
each property can be claimed, and its boundary shown, under exactly the faults that
matter. Every module has a section of *variants*: slips such as a dropped guard,
which are no part of the specification and of which each property has one that
breaks it.

### Correspondence, module by module

**SshClient.** A client is a thread that handles one host after another. Control
points follow `connect()` (lines 77-150), `_tofu_reconnect()` (152-201) and
`close()` (206-216). Taking the slot and setting `_sem_acquired` are two steps, and
so are releasing it and clearing the flag. The key table of a fresh paramiko client
is empty, so a first dial that reaches the host always goes through the
trust-on-first-use branch; the direct branch (114-127) cannot be reached. `unlocked`
is the SSH password in `ssh_secure`; a sign-out makes the constructor and
`get_ssh_password()` raise. `InterruptBody`/`InterruptClose` are Ctrl+C, on the one
client that runs on the main thread.

**HostKeyStore.** A call of `verify_or_learn()` loads, checks and learns in the
steps of the code, under `_store_lock` where the code has it: `_load()` takes and
releases the lock on its own, so between loading and checking other calls run.
The saved image and its signature are computed before the two renames, the only
steps another process start can observe. A signature is the table it signs, or
`BadSig` if made with a key that `clear_hmac_key()` was zeroing. `Crash` loses the
memory and keeps the files.

**PatchJob.** `Register`/`Launch` are the two halves of `patch()` around its sleep
of 1.5 s. A job thread takes results in host order (`list(exe.map(...))`), notices a
failure when its turn comes, cancels what is queued, waits for what runs and goes
to its handler, which SystemExit passes. `PatchHost` and `PublishProgress` are
`hosts_done += 1` and the registry call with the count it carries (in CPython
3.13, the Dockerfile's interpreter, no thread switch falls between the addition and
the evaluation of the argument).

**RemoteRun.** Output is counted in chunks. Both streams share the window of the
channel; a command that writes into a full window blocks. This is the paramiko
and remote behaviour `run()` has to live with and is marked so; `written`, `remote`
and `eof` are what has arrived of the command. A reader that gave up
after its timeout is told apart from one that met the end or the cap. `listens`
is `not silent or log_func`: only such a caller is told anything (`Tell`), and `told`
holds the warning of the close, that of the cap, and the -1 that stands for an exit
status which never came. `ConnectionLost` ends the channel as paramiko does:
`recv_exit_status()` returns, and what has arrived can still be read. The two buffers are
put together one after the other (`Collect`), with the readers still free to move.

**YamlTask.** Time passes in ticks for hosts at work and for the main thread that
waits for the future of its turn; what can be done at once is done before the next tick.
A command may take up to `CommandTime`, with the fault "long" any finite time (the limit
inside `run()` is one of silence), and a hung one never ends. `age` is history: how long
`run_host()` has been at work on a host, without the time in the queue.

**Lockout.** `Fail` and `Pass` are `_record_failure()` and `_record_success()` up to
the save, which is two steps, truncation and writing. The passphrase is an account
like the others, except that a wrong one ends the process. `saved` and `lost` are
history: a process has ended with something it had not saved.

**Session.** The main thread's place in the menus, the time since `last_activity`,
and which of the three secrets are in memory. `Return` is a `return` of
`main_menu()`, which wipes on its own; `Finally` is the clause around it.

**HostInput.** `ValidateHosts` is the loop of `_validate_hosts()` over typed
spellings, of which one is malformed; a spelling is all the code compares.

**Console.** Puts into `Session`'s "task" and "monitor" what the main thread waits
for there: `screen` is the line of code that holds it, and each action below a menu
either leaves `Session`'s variables alone or is one of its actions. The tasks are
told apart by the questions they ask (`PythonTasks`, "yaml"). `threads` are the
readers of `_timed_input()` (`utils/task_runner.py:98`) and of `_tail_log()`
(`utils/monitor.py:80`): daemon threads in `input()`, which end only with a line.
One `input()` at a time has the terminal (the lock of the interpreter's
`sys.stdin`); which of those that wait gets it next is open. `ReaderStarted`: the
main thread gives a reader up after a minute, or looks at the job after 0.2 s, and
by then the reader waits for the terminal. Ctrl+D ends a tail's reader without
setting its event, and is EOFError on the main thread: caught by `_run_task()`
around a Python task, and by nobody around a YAML task or in the monitor. Ctrl+C
reaches a main thread that waits for a line, for a host or for its reader; one that
waits behind another thread's `input()` notices it with its line.

**JobLog.** A file is the sequence of the numbers of its lines, so that a line has
an identity and a size. `StartJob` to `AppendAudit` are `get_detailed_logger()` and
`log_user()` step by step: the directory is listed, its sizes added up once, the
oldest logs deleted until the total fits, the new log created, the audit log
rotated. Jobs go on writing between any two of these steps. `OpenTail` to
`LeaveTail` are `_tail_log()`: the first read, the look at the size, and then size,
read and status in a loop. `missed` is history: what fell between the first read and
the first look at the size.

**Reboot.** The main thread follows the two tasks; `elapsed` counts attempts as
the code does, `waited` the time they take. Machines go down and come up on their
own; `steady` is a history variable: who was up and reachable for its whole turn.

**NumberedSelect.** Reads take all bytes that are there into the buffer of
`sys.stdin`; `tty.setraw()` throws away what was typed while nobody read; between
reads the terminal is in line mode. `keys` is a history variable; `Names` and `Spelled`
read numbers out of it.

## 3. The runs

Each module has one passing run, `Session` and `HostInput` as parts of `Console`,
and the key store has two (an unreadable store file is a fault of its own: the code
starts with an empty table then, and `KnownKeysKept` and the refinement do not
survive that):

| Run | Instance | Distinct states | Checks |
|---|---|---|---|
| `ssh_client` | 3 clients, 2 slots, one on the main thread | 3k | `SlotsConserved`, `ImplementsSlots`, `AcquireReturns` |
| `host_key_store` | 3 calls, 2 hosts, 2 keys; restarts, deletion, unreadable store | 55k | `NoFalseTamperAlarm`, `FirstSightPersisted`, `DeletedMeansRelearn` |
| `host_key_store_tofu` | the same; crash in save, unwritable files, unreadable signature, sign-out, torn key | 364k | `KnownKeysKept`, `ImplementsTofu`, `CallsReturn` |
| `patch_job` | 2 users, 2 jobs, 2 hosts, 2 workers; alarm, Ctrl+C | 154k | `OneRunningJob`, `DoneCoversAllHosts`, `ProgressIsReal`, `EndIsFinal`, `JobEnds` |
| `remote_run` | cap 2, window 2, up to 5 chunks per stream; all conditions: hang, lingering child, slow reader, silence, lost connection; with and without a caller who listens | 1.1M | `CutIsTold`, `ReadersEnd`, `RunReturns` |
| `yaml_task` | 3 hosts, 2 workers, 2 commands of 2 ticks, `connect()` of 2, a timeout of 3; every fault | 763k | `TimeoutsAreEarned`, `TamperEndsProcess`, `MenuMeansIdle`, `TaskEnds` |
| `lockout` | 1 user and the vault, 2 attempts, 4 ticks; crash in save, unwritable file | 2.3M | `AttemptBudget`, `SuccessForgives`, `LockOutlivesProcess` |
| `console` | 2 users, 2 jobs, timeout 2 of 4 ticks, 2 spare readers, 2 prompts, 3 spellings; Ctrl+D | 20k | `CredentialsFollowSession`, `NothingLeftAtExit`, `IdleMenuSignsOut`, `NobodyElseReads`, `EnterGetsBack`, `TargetsDistinct` |
| `job_log` | 3 jobs of 3 lines, a budget of 4, an audit log of 2 entries; failing unlink, rename, touch | 455k | `TailShowsEnd`, `TailReports`, `DeletedOverBudget`, `RecentEntriesKept` |
| `reboot` | 3 machines, 2 attempts; every fault | 265k | `OfflineIsTrue`, `TableComplete`, `OnlyNeedyStop`, `WaitEnds` |
| `numbered_select` | 12 items, all keys, 5 before Enter | 13k | `NumbersDecide`, `EnterEnds` |

What they show beyond the obvious:

* `remote_run`: `RunReturns` needs what the readers leave unread to be *less* than
  the window: a leftover that fills it to the last chunk blocks the other
  stream as well, though that one is read. `CutIsTold` is about a caller who listens.
  One who asked for silence and gave no log function, as the reboot checks do
  (`modules/redhat.py:97` and `126`, `modules/ubuntu.py:84` and `113`), gets the part that
  was read and nothing else. `ReadersEnd` is the first half of the sentence at
  `utils/ssh.py:245-247`: closing the channel does free the readers. The other half, that
  they have stopped when the buffers are read, fails with a reader that outlives its
  last join (`RemoteRunSlow`).
* `lockout`: a file that cannot be written for a while costs nothing as long as
  the process lives; only a process that ends with an unsaved change (`lost`) can
  forget a lock, and even then nobody is locked out without a cause.
* `patch_job`: sign-outs and failing hosts never keep a job from ending; an alarm in
  a worker and a Ctrl+C before the thread starts do. They are the only two as long as every
  remote command ends, which the run assumes; one that hangs holds its job for ever
  (`RemoteRun` says when `run()` returns).
* `console`: a reader that was left behind by a prompt or a tail is harmless because, and only
  because, the code pauses for Enter on each of these paths: whoever of the two gets that
  line, the operator's second Enter brings the menu back and nobody is left reading. A
  Ctrl+C skips the pause, and the next menu shares its keys with the reader.
* `job_log`: whatever lies between the look at the size, the read and the look at the
  status, the view shows every line of a job it saw end, except those that fall
  between its first read and its first look at the size. A line may be printed twice.
* `yaml_task`: the limits have the order of the code, where 3675 s cover the dial and
  *one* command: a host that works through two commands may be reported although it is
  healthy (`YamlTaskTwoCommands`). What the code does guarantee is `TimeoutsAreEarned`: the
  first host that is reported has really been at work for the whole timeout, though the
  main thread began to count when the host before was collected and workers may have been
  short. Behind a reported host this is lost: the next may be reported while it is still
  queued. With it goes an alarm of the key store that such a host raises later, which
  nobody looks at any more: `TamperEndsProcess` exempts hosts behind a reported one.
* `numbered_select`: `NumbersDecide` asks only of numbers about which code and docstring
  agree: of one digit, or with a leading zero, none of which exceeds the menu on its way.
  For two digits without a leading zero the docstring promises one item and the code returns
  another (`NumberedSelectShortcut`).

Why the bounds are enough. Two slots for three clients is the smallest instance in
which a client waits while others hold slots; three calls on two hosts give a first
sight racing a first sight of the same and of another host, with a third reading;
two hosts of a job can be finished, at work, failed and queued in every combination
of the two, in both pools, while another job and its user go on; three hosts on two
workers leave one queued, and a timeout longer than the dial and shorter than the dial with
both commands lets a host be reported that works, and one behind it that has not begun;
output of two caps and a half lets a stream be full, cut and
blocked, and a window of one cap lets the streams block each other; a second spare
reader lets one that was left behind meet the next one; three logs on a budget of
one and a third let pruning delete a log that is finished, one that is being
written, and both. Times are in ticks: what matters is the order of the limits,
which is that of the code.

The type invariant of every module is a theorem; those of `SshClient`, `Console`,
`JobLog`, `Lockout` and `NumberedSelect` are also checked by configurations of their
own (`JobLogTypes.cfg` and so on). These also hold what is true but says less than the properties above:
`FailureCleansUp` of `SshClient` (a failed `connect()` keeps nothing) and
`LockHasCause` of `Lockout` (no lock without a wrong answer). `ConsoleTypeOK` includes
the type invariant of `Session`. Deadlock checking is off where the system really
stops: a task that is over, a clock that has run out, a process that has ended.

### Fairness

* `SshClient`: every wait in `connect()` has a timeout and `close()` returns, so
  both are weakly fair. Nothing is assumed of the commands in between: a session
  may last for ever, and still nobody waits for ever for a slot.
* `HostKeyStore`: a call that was begun goes on; nobody has to call.
* `PatchJob`: job threads and workers go on; operators need not do anything. A
  host's commands are assumed to end here, which `RemoteRun` looks at.
* `RemoteRun`: local threads run; the remote command goes on unless it hangs or
  is blocked by the window. Nobody counts on the hour after which a reader gives up, nor on
  the connection being lost.
* `YamlTask`: main thread and workers run and time passes. A long command ends some time;
  a hung host keeps the pool open, which `TaskEnds` allows for.
* `Console`: the operator goes on pressing Enter where a line is asked for and Esc in
  `get_hosts()`, the hosts answer, jobs end, and a thread that waits for a line
  gets the terminal and the line some time. Nothing is assumed of menus and the clock.
* `JobLog`: the main thread and the jobs go on; the operator need not press anything.
* `Reboot`: the main thread goes on; machines told to stop do stop, and none has to come up again.
* `NumberedSelect`: the function runs on and the user presses Enter again.

### Where the code and its own words differ

One run, `session_second`, checks a sentence of the repository and finds a behaviour
of the code against it: the second session of a process has no HMAC key.
`PROJECT.json` quotes the sentences.

Further configurations do the same for other sentences, which stand in the comments
of the properties. They are kept to be run by hand and each ends in a counterexample:

| Configuration | Property | What happens |
|---|---|---|
| `MCSshClientInterruptedClose` | `AllSlotsBack` | Ctrl+C inside `self.ssh.close()` loses the slot |
| `HostKeyStoreCrash` | `NoFalseTamperAlarm` | dying between the two renames of `_save()` leads to a false tamper alarm at the next start |
| `HostKeyStoreDelete` | `DeletedMeansRelearn` | a running process does not notice that the files were deleted |
| `PatchJobInterrupt` | `RunningMeansEnds` | Ctrl+C before the thread starts leaves a job running for ever |
| `PatchJobTamper` | `NoWorkAfterTamper` | hosts are begun after the alarm that is to exit immediately |
| `RemoteRunOverflow` | `AlwaysReturns` | a stream over the cap blocks the command, and `run()` with it |
| `RemoteRunSlow` | `BuffersReadAfterStop` | a buffer is read while its reader, slower than the second join, is alive |
| `YamlTaskTwoCommands` | `NoFalseTimeout` | a host with two commands, each within its time, is reported as a timeout |
| `LockoutCrash` | `LockSurvives` | a crash during the save forgets an announced lock |
| `SessionIdle` | `NoTaskAfterTimeout` | a task starts from a submenu after the timeout |
| `MCConsoleInterrupt` | `NobodyElseReads` | after Ctrl+C at a prompt its reader takes keys from the menu |
| `MCConsoleSpellings` | `MachineOnce` | 10.0.0.1 and 10.0.0.01 are two targets |
| `JobLogGap` | `TailShowsAll` | a line written between the view's first read and its first look at the size is not shown |
| `RebootSlow` | `BackMeansRebooted` | the uptime from before the reboot is shown as back online |
| `RebootBound` | `WaitIsBounded` | the wait takes longer than `MAX_REBOOT_WAIT` seconds |
| `NumberedSelectShortcut` | `TwoDigitShortcut` | 1, 2, Enter selects item 2 |
| `NumberedSelectArrow` | `ArrowIsNoEsc` | an arrow key is taken for Esc |

The last two depend on how Python's `sys.stdin` and the Linux terminal work
together; both were observed with `numbered_select()` on a pseudo-terminal.

## 4. The proofs

Eight modules have proofs: of every type invariant, of every safety invariant and
of every action property that a passing run checks, and of the three refinements.
Each follows one line: an inductive invariant, a lemma per action or group of
actions, and temporal theorems that only combine steps.

**SshClientProofs**, for any finite set of clients and any limit, assuming that
Ctrl+C lands at clean points only (`CleanInterrupts`; outside them the theorem is
false, as `MCSshClientInterruptedClose` shows). `SlotsConserved` is not inductive:
the invariant adds what the flag says at each control point (`FlagMatches`) and that
a session has a slot (`SessionCovered`). Three lemmas say how a step changes the set
of holders - by none, one more or one fewer - and each action cites one. Proved:
`TypeOK`, `SlotsConserved`, `AllSlotsBack`, and the refinement of `SshSlots`.

**HostKeyStoreProofs**, for any hosts, keys and number of calls. `IInv` is the
type invariant with the ownership of the lock. On top of it each theorem has an
invariant of its own and names the faults it excludes: `DiskKnown` (a loaded table knows
what the file knows) for `KnownKeysKept` and for the refinement of `TofuMap`,
`PairMatches` (file and signature match except between the renames) for
`NoFalseTamperAlarm`, `TableSaved` for `FirstSightPersisted`. The faults that are
excluded are the ones that break the property, and the counterexamples above show
some of them doing so. `DeletedMeansRelearn` follows from `TableSaved`
too: everything that is in the table is in the file or about to be, and a key is
rejected only where no other call holds the lock (`RejectStep`), so that with both
files gone there is none to be rejected against; it excludes unwritable files,
sign-outs and a deletion under a running process, of which `HostKeyStoreDelete` shows
the last. The theorems hold under more faults than the runs use:
`NoAlarm` with unwritable store files and sign-outs, `AcceptedIsOnDisk` with
crashes between the renames and signatures that cannot be written or read.

**PatchJobProofs**, for any number of jobs, users, hosts and workers. The
invariant says of each job what its counter and its hosts' states are in every
phase; the cardinality of the finished hosts is tied to the counter by lemmas on
finite sets. Proved: `TypeOK`, `OneRunningJob`, `DoneCoversAllHosts`,
`ProgressIsReal`, `EndIsFinal`.

**ConsoleProofs**, for any users, jobs, readers, prompts and typed addresses. The three theorems
about the secrets are proved of `Session` (a control point says which secrets are in
memory), and `ConsoleImplementsSession` carries them over to the console: each of
its steps is a step of `Session` or leaves its variables alone. `NoOtherReader`
needs for each screen who may be reading there and who has the terminal: at a pause
for Enter a reader that was left behind has the terminal, so the main thread gets
its line only after the reader has got one and ended. It assumes that there is no
Ctrl+C at a prompt, without which `MCConsoleInterrupt` is the counterexample.
`ConsoleTypeCorrect` needs no such assumption.

`TargetsAreDistinct` is an induction over what `_validate_hosts()` reads. The library's
induction theorems take an operator, which these provers cannot instantiate;
`NatSetInduction` says the same of a set of numbers (from the least number of its
complement), and with it `FoldExists` shows that a function defined by its value
one place before exists, and `ValidateHostsOK` that its values are sequences
without repetition. `Console` hands such a sequence on or takes its head off.

`DigitsDecide`, of `NumberedSelect`, for any number of items and of keys. `MenuInv`
says that between two keys the first n keys are either settled - the buffer of digits is
empty and the highlight is on the item they name (`Fresh`) - or their last number is in
the buffer and the highlight on what was named before it (`Pending`); what an arrow of
the menu before has left in stdin names nothing. Three lemmas on `Names` carry it: what
keys name does not depend on those behind them, a number more decides if it is an item,
and a key that is no digit changes nothing. `MenuTypeCorrect` holds for all keys.

**RemoteRunProofs**, for any cap, window and amount of output and under all conditions,
slow readers and a lost connection included. `Accounted`: what has arrived of a stream is
kept or unread until a chunk is dropped at the cap. `StopsAtEnd`: a reader that stops below
the cap has read all that will ever arrive. `EndOfOutput`: a command's own output arrives
before its exit status. `CloseIsSaid` and `ReportIsTrue` tie this to the caller: if nothing
was said both readers had stopped when `run()` looked, neither was capped, and the exit
status came, so what is collected is the whole (`CutAlwaysTold`).

**LogDirProofs**, first part: `Lockout`, for any accounts, limits and clock, with
every fault. `DiskFits` says what the file would give back, `LocksKnown` that an
announced lock that lasts is in memory, `Counted` that the counter is the number of
wrong answers, and `Spaced` that from the one that locks on there is a whole lock
between any two. That gives `AttemptBudget`: of two answers that are `MAX_ATTEMPTS`
apart the later one comes a whole lock after the one before it, and so after the
earlier one. Proved: `TypeOK`, `AttemptBudget`, `SuccessForgives`,
`LockOutlivesProcess` and, with no exception for a process that ended in a save,
`LockHasCause`: there `CauseKnown` says that the file is behind the memory only by
locks that are over, and that an account that is asked for is not locked.

Second part: `JobLog`, for any jobs, lines, sizes and entries, with every fault.

* `TailShowsEnd` rests on `TailInv`: a log is no longer than what its job has written,
  a job that is done has written everything, and what the view has gone past is
  on the screen or `missed`. What remains after the last look at the status is read
  by the last read.
* `RecentEntriesKept` rests on `AuditFits`: the two files hold consecutive entries up
  to the newest one, and a rotation happens only when the log holds as many as are to
  be kept.
* `DeletedOverBudget` is the hardest of the three: the sizes were added up before,
  jobs go on writing, and a file that could not be deleted stays counted. `BudgetInv`
  says that the total is at most what the logs hold while they are deleted
  (`PruningFits`): lines that are added only make that more (`LinesGrow`), and a
  deletion lowers both by the same (`LinesOfOneLess`).

**YamlTaskProofs**, for any number of hosts, workers and commands and any limits. A fresh
timeout per future could run out for a host that is still queued; `TimeoutsEarned` shows
that it cannot, but behind a host that was reported. Hosts start in the order in which they
are collected (`Ordered`), so while none before the current one was reported, every one
before it is over and it has a worker; and the main thread has never waited for it longer
than it has worked (`Patient`). `TamperIsSeen` assumes `Connects`: `connect()`, which alone
raises alarms, is shorter than the timeout - in the code 60 s for a slot and two dials of at most
15 + 30 + 15 s each against 3675 s. Then the first host that is reported is past its
connection (`FirstRuns`), and an alarm is no longer to be expected of it. Nothing is
assumed of the number and the length of the commands. `MenuIsIdle` needs no assumption.

**RebootProofs**, for any hosts and attempts, with every fault. `AttemptsFit` ties
the counter to the host at its turn: attempts were made for that host only and it
was not there for one.

Only model-checked: every liveness property (`AcquireReturns`, `FailureCleansUp`,
`CallsReturn`, `JobEnds`, `RunReturns`, `TaskEnds`, `EnterGetsBack`, `TailReports`,
`WaitEnds`, `ReadersEnd`, `EnterEnds`), since fairness and ENABLED are beyond the prover.

## 5. What is not modelled

* The Windows half of `navigation.py` and `host_input.py`, the Windows tasks
  (stubs), the tables of `display.py` and of the monitor, `logger.py` (no caller).
* `load_vault()` and the bcrypt checks: cryptography, a free answer.
* The parser of the task files (`_parse_simple_yaml()`) and the summaries of outputs
  (`_summarize_output()`): text in, text out, no state.
* The editing keys of `get_hosts()`; its list is whatever is typed.
* File modes, the directories of the users, and `session.log`, which is written
  like the audit log.
* `forget_host()`: no caller. `is_root()` and `check_port()`: probes without state.
* A stdin at its end, where the menu redraws for ever: `_secure_getpass()` wants a
  terminal before the first menu, so only a terminal that hangs up leads there.
* Several processes in one directory, which share the key store, the lockout file and
  the logs without a lock.
* Commands that never end in `PatchJob`: its hosts are assumed to answer, and `RemoteRun`
  looks at one command.
* `SshClient` and `PatchJob` are not composed: in `PatchJob` a host without a slot
  is one of the answers of `connect()`.

## 6. Plan

Done, in this order: `SshSlots`/`SshClient`, `TofuMap`/`HostKeyStore`, `PatchJob`,
the proofs of the three, `RemoteRun`, `YamlTask`, `Lockout`, `Session`, `Reboot`,
`NumberedSelect`; then `JobLog`, `HostInput`, `Console`, and the proofs of `Session`
and `Console`, `RemoteRun`, `Lockout`, `YamlTask` and `Reboot`; then those of `JobLog`,
`HostInput` and `NumberedSelect`, and of the properties that were left over.

Next:

1. `PatchJob` with the slots of `SshSlots`, to show how 20 + 20 workers on 30 slots
   turn into skipped hosts.
2. `HostKeyStore` with several processes.
3. The pure parts against reference definitions: the YAML parser, whose folded
   scalars come out as `>`, and the output parsers.
4. The places where a theorem excludes a fault, one by one: a configuration or a
   weaker theorem for each.
