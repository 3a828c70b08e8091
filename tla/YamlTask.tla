------------------------------ MODULE YamlTask ------------------------------
(***************************************************************************)
(* run_yaml_task() of utils/task_runner.py, from the thread pool to the    *)
(* table: one task of some commands runs on every host, the main thread    *)
(* collects the futures in host order, each with a timeout of its own, and *)
(* shows a row per host.                                                   *)
(*                                                                         *)
(* Time passes in ticks for the hosts at work and for the main thread that *)
(* waits.  What can be done at once is done before the next tick: a free   *)
(* worker takes the next host, a result that is there is collected.        *)
(*                                                                         *)
(* In the code the timeout covers connect(), one command and a buffer,     *)
(* whatever the number of commands, and connect() may use up the buffer    *)
(* while it waits for a slot.                                              *)
(***************************************************************************)
EXTENDS Integers, FiniteSets

CONSTANTS
  N,            \* hosts, numbered in the order of the futures
  Workers,      \* max_workers
  Commands,     \* commands of the task
  ConnectTime,  \* ticks connect() takes at most
  CommandTime,  \* ticks a command takes, unless it is a long one
  HostTimeout,  \* HOST_TIMEOUT_SECONDS in ticks
  Faults        \* what else may happen, out of AllFaults

VARIABLES
  phase,    \* the main thread: "collect", "leave", "menu" or "exit"
  turn,     \* the future it waits for
  waited,   \* ticks it has waited for that one
  rows,     \* the row of each host, "none" before
  failure,  \* what keeps the table from being shown: "none", "interrupt",
            \* "tamper", "impatient"
  work,     \* step of each host: "queued", "connect", "run", "over"
  left,     \* commands each host still has to run, the current one included
  spent,    \* ticks in the current step
  age,      \* ticks since run_host() began, up to HostTimeout (history)
  hung,     \* hosts whose command never ends
  outcome   \* result of each future, "none" before

main  == <<phase, turn, waited, rows, failure>>
hosts == <<work, left, spent, age, hung, outcome>>
vars  == <<phase, turn, waited, rows, failure, work, left, spent, age, hung, outcome>>

HostNos == 1 .. N

AllFaults ==
  {"hang",       \* a command that never ends
   "long",       \* a command that ends, after any time
   "tamper",     \* _tamper_abort() in a worker
   "interrupt",  \* Ctrl+C while the main thread collects
   "impatient"}  \* Ctrl+C again, while it leaves the pool

ASSUME SizesAssumption ==
  /\ N \in Nat \ {0} /\ Workers \in Nat \ {0} /\ Commands \in Nat \ {0}
  /\ ConnectTime \in Nat /\ CommandTime \in Nat /\ HostTimeout \in Nat
ASSUME FaultsAssumption == Faults \subseteq AllFaults

Outcomes == {"yes", "no", "error", "tamper"}

TypeOK ==
  /\ phase \in {"collect", "leave", "menu", "exit"}
  /\ turn \in 1 .. N + 1
  /\ waited \in 0 .. HostTimeout
  /\ rows \in [HostNos -> {"none", "yes", "no", "error", "timeout"}]
  /\ failure \in {"none", "interrupt", "tamper", "impatient"}
  /\ work \in [HostNos -> {"queued", "connect", "run", "over"}]
  /\ left \in [HostNos -> 1 .. Commands]
  /\ spent \in [HostNos -> 0 .. ConnectTime + CommandTime]
  /\ age \in [HostNos -> 0 .. HostTimeout]
  /\ hung \subseteq HostNos
  /\ outcome \in [HostNos -> Outcomes \union {"none"}]

Init ==
  /\ phase = "collect" /\ turn = 1 /\ waited = 0
  /\ rows = [h \in HostNos |-> "none"]
  /\ failure = "none"
  /\ work = [h \in HostNos |-> "queued"]
  /\ left = [h \in HostNos |-> Commands]
  /\ spent = [h \in HostNos |-> 0]
  /\ age = [h \in HostNos |-> 0]
  /\ hung = {}
  /\ outcome = [h \in HostNos |-> "none"]

-----------------------------------------------------------------------------
(* Variants: slips that the properties must notice. *)

\* One deadline for all hosts instead of one for each.
KeepWaiting(h) == waited

\* "except BaseException" around future.result().
SwallowTamper(o) == o # "none"

\* The pool is left with shutdown(wait=False).
LeaveAtOnce == TRUE

-----------------------------------------------------------------------------
(* run_host() in the pool *)

Busy == {h \in HostNos : work[h] \in {"connect", "run"}}

Queued == {h \in HostNos : work[h] = "queued"}

SetWork(h, w) == work' = [work EXCEPT ![h] = w]

\* Variant: a host that cannot be reached is tried again, without a bound.
ConnectRetries(h) ==
  /\ work[h] = "connect"
  /\ SetWork(h, "queued")
  /\ spent' = [spent EXCEPT ![h] = 0]
  /\ UNCHANGED <<left, age, hung, outcome, main>>

\* run_host() is over; its finally has closed the client.
Finish(h, o) ==
  /\ SetWork(h, "over")
  /\ outcome' = [outcome EXCEPT ![h] = o]
  /\ spent' = [spent EXCEPT ![h] = 0]
  /\ UNCHANGED <<left, age, hung, main>>

CanStart == Queued # {} /\ Cardinality(Busy) < Workers

StartHost(h) ==
  /\ CanStart
  /\ h \in Queued /\ \A g \in Queued : h <= g
  /\ SetWork(h, "connect")
  /\ UNCHANGED <<left, spent, age, hung, outcome, main>>

ConnectFails(h) == work[h] = "connect" /\ Finish(h, "no")

\* Also a command with a placeholder that no prompt has filled ends like this.
HostRaises(h) == h \in Busy \ hung /\ Finish(h, "error")

HostTampered(h) ==
  /\ work[h] = "connect" /\ "tamper" \in Faults
  /\ Finish(h, "tamper")

Connected(h) ==
  /\ work[h] = "connect"
  /\ SetWork(h, "run")
  /\ spent' = [spent EXCEPT ![h] = 0]
  /\ UNCHANGED <<left, age, hung, outcome, main>>

MoreCommands(h) == left[h] > 1

CommandEnds(h) ==
  /\ work[h] = "run" /\ h \notin hung /\ MoreCommands(h)
  /\ left' = [left EXCEPT ![h] = @ - 1]
  /\ spent' = [spent EXCEPT ![h] = 0]
  /\ UNCHANGED <<work, age, hung, outcome, main>>

LastCommandEnds(h) ==
  /\ work[h] = "run" /\ h \notin hung /\ ~MoreCommands(h)
  /\ Finish(h, "yes")

CommandHangs(h) ==
  /\ work[h] = "run" /\ h \notin hung /\ "hang" \in Faults
  /\ hung' = hung \union {h}
  /\ UNCHANGED <<work, left, spent, age, outcome, main>>

Host(h) ==
  \/ StartHost(h) \/ ConnectFails(h) \/ HostRaises(h) \/ HostTampered(h)
  \/ Connected(h) \/ CommandEnds(h) \/ LastCommandEnds(h)

-----------------------------------------------------------------------------
(* The main thread *)

Collecting == phase = "collect" /\ turn \in HostNos

\* The result of the future is there.
Ready(h) == outcome[h] # "none"

\* A result the loop turns into a row; SystemExit is no Exception.
Caught(o) == o \in {"yes", "no", "error"}

\* future.result(timeout=...) starts a new wait for the next host.
NextWait(h) == 0

AddRow(h, r) ==
  /\ rows' = [rows EXCEPT ![h] = r]
  /\ turn' = turn + 1
  /\ waited' = NextWait(h)
  /\ UNCHANGED <<phase, failure, hosts>>

TakeRow ==
  /\ Collecting /\ Ready(turn) /\ Caught(outcome[turn])
  /\ AddRow(turn, IF outcome[turn] \in {"yes", "no"} THEN outcome[turn] ELSE "error")

TimeoutRow ==
  /\ Collecting /\ ~Ready(turn) /\ waited = HostTimeout
  /\ AddRow(turn, "timeout")

\* The exception leaves the loop; "with" still waits for every host, the queued
\* ones included.
TamperRaises ==
  /\ Collecting /\ Ready(turn) /\ ~Caught(outcome[turn])
  /\ phase' = "leave" /\ failure' = "tamper"
  /\ UNCHANGED <<turn, waited, rows, hosts>>

Interrupt ==
  /\ Collecting /\ "interrupt" \in Faults
  /\ phase' = "leave" /\ failure' = "interrupt"
  /\ UNCHANGED <<turn, waited, rows, hosts>>

AllCollected ==
  /\ phase = "collect" /\ turn = N + 1
  /\ phase' = "leave"
  /\ UNCHANGED <<turn, waited, rows, failure, hosts>>

\* Leaving "with ThreadPoolExecutor".
PoolDone == \A h \in HostNos : work[h] = "over"

\* The table, or the menu after Ctrl+C, or the end of the process.
LeavePool ==
  /\ phase = "leave" /\ PoolDone
  /\ phase' = IF failure = "tamper" THEN "exit" ELSE "menu"
  /\ UNCHANGED <<turn, waited, rows, failure, hosts>>

\* Ctrl+C in shutdown(): the main thread is back, whatever it was leaving for,
\* and the pool is not done.
InterruptLeave ==
  /\ phase = "leave" /\ "impatient" \in Faults
  /\ phase' = "menu" /\ failure' = "impatient"
  /\ UNCHANGED <<turn, waited, rows, hosts>>

Main ==
  \/ TakeRow \/ TimeoutRow \/ TamperRaises \/ AllCollected \/ LeavePool

-----------------------------------------------------------------------------
(* Time *)

Limit(h) == IF work[h] = "connect" THEN ConnectTime ELSE CommandTime

AtLimit(h) == spent[h] = Limit(h)

\* run() has no limit for a command that goes on writing.
Overdue(h) == work[h] = "run" /\ "long" \in Faults

Later(h) == spent[h] + (IF h \in Busy \ hung /\ ~AtLimit(h) THEN 1 ELSE 0)

Older(h) == age[h] + (IF h \in Busy /\ age[h] < HostTimeout THEN 1 ELSE 0)

Tick ==
  /\ phase \in {"collect", "leave"}
  /\ ~CanStart
  /\ Collecting => ~Ready(turn) /\ waited < HostTimeout
  /\ \A h \in Busy \ hung : AtLimit(h) => Overdue(h)
  /\ Busy # {}
  /\ waited' = IF Collecting THEN waited + 1 ELSE waited
  /\ spent' = [h \in HostNos |-> Later(h)]
  /\ age' = [h \in HostNos |-> Older(h)]
  /\ UNCHANGED <<phase, turn, rows, failure, work, left, hung, outcome>>

Next ==
  \/ \E h \in HostNos : Host(h) \/ CommandHangs(h)
  \/ Main \/ Interrupt \/ InterruptLeave
  \/ Tick

\* Threads run and time goes on; a command ends unless it hangs.
Fairness ==
  /\ WF_vars(Main) /\ WF_vars(Tick)
  /\ \A h \in HostNos : WF_vars(Host(h))

Spec == Init /\ [][Next]_vars

FairSpec == Spec /\ Fairness

-----------------------------------------------------------------------------
(* Properties *)

\* "No response in 3675s" (utils/task_runner.py:370): the wait of the main thread
\* starts when the host before was collected, and still a host that is reported has
\* had the whole time for itself, at work and not in the queue; only behind another
\* host that was reported it may not have been started at all.
TimeoutsAreEarned ==
  [][\A h \in HostNos :
       rows[h] = "none" /\ rows'[h] = "timeout"
         => age[h] = HostTimeout \/ \E g \in 1 .. h - 1 : rows[g] = "timeout"]_vars

\* "Align with actual maximum possible duration" (utils/task_runner.py:56): a host
\* whose steps keep their limits would never be reported.  With two commands it is.
NoFalseTimeout ==
  \A h \in HostNos : rows[h] = "timeout" => \E g \in 1 .. h : g \in hung

\* A worker that runs into the tamper alarm ends the process, no row of a result and
\* no timeout of its own hides it: the menu comes back over an alarm only if a host
\* before it was reported as one without a response.
TamperEndsProcess ==
  phase = "menu" /\ failure = "none" =>
    \A h \in HostNos : outcome[h] = "tamper" => \E g \in 1 .. h - 1 : rows[g] = "timeout"

\* Back in the menu, with the table or after one Ctrl+C, no host of the task is
\* at work or still to be started; it takes a second Ctrl+C to leave some behind.
MenuMeansIdle ==
  phase = "menu" /\ failure # "impatient" => Busy = {} /\ Queued = {}

\* The task comes to its end whatever the hosts answer, unless one hangs.
TaskEnds == <>(phase \in {"menu", "exit"} \/ hung # {})
=============================================================================
