------------------------------ MODULE PatchJob ------------------------------
(***************************************************************************)
(* Background patch jobs: patch() of modules/redhat.py and of              *)
(* modules/ubuntu.py (the same program but for the commands), the job      *)
(* registry of utils/job_handler.py, and what the operator does meanwhile. *)
(*                                                                         *)
(* The main thread registers a job and starts a thread for it.  That       *)
(* thread runs two pools over the hosts, one after the other: a precheck   *)
(* and the patch itself, each as list(exe.map(f, hosts)) in a "with        *)
(* ThreadPoolExecutor".  The results are taken in host order, so a host    *)
(* that raised is noticed only when its turn comes; then what is still     *)
(* queued is cancelled, what runs is waited for, and the exception goes to *)
(* the handler of the thread.  The handler is "except Exception": the      *)
(* SystemExit of a tamper alarm passes it.                                 *)
(***************************************************************************)
EXTENDS Integers, FiniteSets

CONSTANTS
  Jobs,     \* job ids, each used once
  Users,
  Tasks,    \* "Patch Redhat" and "Patch Ubuntu"
  N,        \* hosts per job (at most 50 in the code)
  Workers,  \* size of the patch pool (20 in the code; the precheck pool has 50)
  NoUser,   \* nobody is signed in
  Menu,     \* the main thread is in a menu
  Faults    \* what else may happen: "tamper", "interrupt"

VARIABLES
  session,    \* the user signed in: SSH credentials are loaded iff there is one
  exiting,    \* Exit was chosen, the process only waits for its jobs
  main,       \* Menu, or the job patch() has registered and not started yet
  tampered,   \* some thread has run into _tamper_abort()
  status,     \* JOB_REGISTRY[j]["status"], "none" before the registration
  owner,      \* user and task of the job
  published,  \* JOB_REGISTRY[j]["hosts_done"]
  counted,    \* the thread's own hosts_done
  phase,      \* where the job's thread is
  turn,       \* the host whose result the thread takes next
  failure,    \* the exception on its way through the thread, or "none"
  work,       \* state of each host in the current pool
  carried     \* the count a host's worker is about to publish

registry == <<status, owner, published>>
thread   == <<counted, phase, turn, failure>>
pool     == <<work, carried>>
operator == <<session, exiting, main>>
vars == <<session, exiting, main, tampered, status, owner, published, counted,
          phase, turn, failure, work, carried>>

HostNos == 1 .. N

ASSUME SizesAssumption  == N \in Nat \ {0} /\ Workers \in Nat \ {0}
ASSUME FaultsAssumption == Faults \subseteq {"tamper", "interrupt"}
ASSUME NamesAssumption  == NoUser \notin Users /\ Menu \notin Jobs

Owners == [user : Users \union {NoUser}, task : Tasks \union {"none"}]

NoOwner == [user |-> NoUser, task |-> "none"]

TypeOK ==
  /\ session \in Users \union {NoUser}
  /\ exiting \in BOOLEAN /\ (exiting => session = NoUser)
  /\ main \in Jobs \union {Menu}
  /\ tampered \in BOOLEAN
  /\ status \in [Jobs -> {"none", "running", "done", "failed"}]
  /\ owner \in [Jobs -> Owners]
  /\ published \in [Jobs -> 0 .. N]
  /\ counted \in [Jobs -> 0 .. N]
  /\ phase \in [Jobs -> {"off", "precheck", "patch", "report", "ended"}]
  /\ turn \in [Jobs -> 1 .. N + 1]
  /\ failure \in [Jobs -> {"none", "error", "tamper"}]
  /\ work \in [Jobs -> [HostNos -> {"queued", "busy", "counted", "ok", "error",
                                    "tamper", "cancelled"}]]
  /\ carried \in [Jobs -> [HostNos -> 0 .. N]]

AllQueued == [h \in HostNos |-> "queued"]

Init ==
  /\ session = NoUser /\ exiting = FALSE /\ main = Menu /\ tampered = FALSE
  /\ status = [j \in Jobs |-> "none"]
  /\ owner = [j \in Jobs |-> NoOwner]
  /\ published = [j \in Jobs |-> 0]
  /\ counted = [j \in Jobs |-> 0]
  /\ phase = [j \in Jobs |-> "off"]
  /\ turn = [j \in Jobs |-> 1]
  /\ failure = [j \in Jobs |-> "none"]
  /\ work = [j \in Jobs |-> AllQueued]
  /\ carried = [j \in Jobs |-> [h \in HostNos |-> 0]]

-----------------------------------------------------------------------------
(* Variants: slips that the properties must notice. *)

\* patch() without the look into the registry.
NeverRunning(u, t) == FALSE

\* exe.map() whose results nobody takes: exceptions stay in their futures.
TakeAnything(r) == r \in {"ok", "error", "tamper"}

\* exe.shutdown(wait=False) instead of "with".
DoNotWait(j) == TRUE

\* A handler that only reports.
KeepStatus(j, s) == UNCHANGED status

-----------------------------------------------------------------------------
(* Helpers *)

HasRunningJob(u, t) ==
  \E j \in Jobs : status[j] = "running" /\ owner[j] = [user |-> u, task |-> t]

InPool(j) == {h \in HostNos : work[j][h] \in {"busy", "counted"}}

PoolSize(j) == IF phase[j] = "precheck" THEN 50 ELSE Workers

SetWork(j, h, s) == work' = [work EXCEPT ![j][h] = s]

\* A result that list(exe.map(...)) takes without raising.
Fine(r) == r = "ok"

\* Leaving "with ThreadPoolExecutor": every started host has come to its end.
PoolEmpty(j) == InPool(j) = {}

Counted(j) == counted[j] + 1

FinishJob(j, s) == status' = [status EXCEPT ![j] = s]

-----------------------------------------------------------------------------
(* Variants of two worker steps. *)

\* The precheck counts its hosts as the patch does.
PrecheckCounts(j, h) ==
  /\ phase[j] = "precheck" /\ work[j][h] = "busy"
  /\ SetWork(j, h, "ok")
  /\ counted' = [counted EXCEPT ![j] = Counted(j)]
  /\ UNCHANGED <<operator, tampered, registry, phase, turn, failure, carried>>

\* "hosts_done += 1" in the finally clause, for a host that raised too.
CountInFinally(j, h) ==
  /\ work[j][h] = "busy"
  /\ SetWork(j, h, "error")
  /\ counted' = [counted EXCEPT ![j] = Counted(j)]
  /\ UNCHANGED <<operator, tampered, registry, phase, turn, failure, carried>>

-----------------------------------------------------------------------------
(* The main thread *)

SignIn(u) ==
  /\ main = Menu /\ session = NoUser /\ ~exiting
  /\ session' = u
  /\ UNCHANGED <<exiting, main, tampered, registry, thread, pool>>

\* Sign Out and the session timeout wipe the credentials and leave the jobs.
SignOut ==
  /\ main = Menu /\ session # NoUser
  /\ session' = NoUser
  /\ UNCHANGED <<exiting, main, tampered, registry, thread, pool>>

\* sys.exit(0): the interpreter waits for the job threads, which are no daemons.
Exit ==
  /\ main = Menu /\ session # NoUser
  /\ session' = NoUser /\ exiting' = TRUE
  /\ UNCHANGED <<main, tampered, registry, thread, pool>>

\* patch() up to register_job().  Only the main thread registers jobs.
Register(j, t) ==
  /\ main = Menu /\ session # NoUser
  /\ ~HasRunningJob(session, t)
  /\ status[j] = "none"
  /\ status' = [status EXCEPT ![j] = "running"]
  /\ owner' = [owner EXCEPT ![j] = [user |-> session, task |-> t]]
  /\ main' = j
  /\ UNCHANGED <<session, exiting, tampered, published, thread, pool>>

\* After the message and the sleep of 1.5 seconds.
Launch(j) ==
  /\ main = j
  /\ main' = Menu
  /\ phase' = [phase EXCEPT ![j] = "precheck"]
  /\ UNCHANGED <<session, exiting, tampered, registry, counted, turn, failure, pool>>

\* Ctrl+C during that sleep: main_menu() goes back to its menu.
InterruptLaunch(j) ==
  /\ main = j /\ "interrupt" \in Faults
  /\ main' = Menu
  /\ UNCHANGED <<session, exiting, tampered, registry, thread, pool>>

-----------------------------------------------------------------------------
(* The workers of the pools *)

\* The next host in the queue.  SSHClient() raises when nobody is signed in.
StartHost(j, h) ==
  /\ phase[j] \in {"precheck", "patch"}
  /\ work[j][h] = "queued" /\ \A g \in 1 .. h - 1 : work[j][g] # "queued"
  /\ Cardinality(InPool(j)) < PoolSize(j)
  /\ SetWork(j, h, IF session = NoUser THEN "error" ELSE "busy")
  /\ UNCHANGED <<operator, tampered, registry, thread, carried>>

\* A host that cannot be reached is a result like any other.
PrecheckHost(j, h) ==
  /\ phase[j] = "precheck" /\ work[j][h] = "busy"
  /\ SetWork(j, h, "ok")
  /\ UNCHANGED <<operator, tampered, registry, thread, carried>>

\* Patched or skipped: the summary row, "hosts_done += 1", and the argument of
\* the call that follows.
PatchHost(j, h) ==
  /\ phase[j] = "patch" /\ work[j][h] = "busy"
  /\ SetWork(j, h, "counted")
  /\ counted' = [counted EXCEPT ![j] = Counted(j)]
  /\ carried' = [carried EXCEPT ![j][h] = Counted(j)]
  /\ UNCHANGED <<operator, tampered, registry, phase, turn, failure>>

PublishProgress(j, h) ==
  /\ work[j][h] = "counted"
  /\ SetWork(j, h, "ok")
  /\ published' = [published EXCEPT ![j] = carried[j][h]]
  /\ UNCHANGED <<operator, tampered, status, owner, thread, carried>>

\* An exception of connect() or run().
HostRaises(j, h) ==
  /\ work[j][h] = "busy"
  /\ SetWork(j, h, "error")
  /\ UNCHANGED <<operator, tampered, registry, thread, carried>>

\* _tamper_abort(): SystemExit, kept in the host's future.
HostTampered(j, h) ==
  /\ work[j][h] = "busy" /\ "tamper" \in Faults
  /\ SetWork(j, h, "tamper")
  /\ tampered' = TRUE
  /\ UNCHANGED <<operator, registry, thread, carried>>

Worker(j, h) ==
  \/ StartHost(j, h) \/ PrecheckHost(j, h) \/ PatchHost(j, h)
  \/ PublishProgress(j, h) \/ HostRaises(j, h) \/ HostTampered(j, h)

-----------------------------------------------------------------------------
(* The job's own thread *)

Collecting(j) == phase[j] \in {"precheck", "patch"} /\ failure[j] = "none"

TakeResult(j) ==
  /\ Collecting(j) /\ turn[j] \in HostNos
  /\ Fine(work[j][turn[j]])
  /\ turn' = [turn EXCEPT ![j] = turn[j] + 1]
  /\ UNCHANGED <<operator, tampered, registry, counted, phase, failure, pool>>

\* The result raises: map() cancels the futures that have not started.
ResultRaises(j) ==
  /\ Collecting(j) /\ turn[j] \in HostNos
  /\ ~Fine(work[j][turn[j]]) /\ work[j][turn[j]] \in {"error", "tamper"}
  /\ failure' = [failure EXCEPT ![j] = work[j][turn[j]]]
  /\ work' = [work EXCEPT ![j] =
                [h \in HostNos |-> IF @[h] = "queued" THEN "cancelled" ELSE @[h]]]
  /\ UNCHANGED <<operator, tampered, registry, counted, phase, turn, carried>>

StartPatching(j) ==
  /\ Collecting(j) /\ phase[j] = "precheck" /\ turn[j] = N + 1 /\ ~exiting
  /\ phase' = [phase EXCEPT ![j] = "patch"]
  /\ turn' = [turn EXCEPT ![j] = 1]
  /\ work' = [work EXCEPT ![j] = AllQueued]
  /\ UNCHANGED <<operator, tampered, registry, counted, failure, carried>>

\* Once the main thread is gone, a new pool takes no work: submit() raises.
NoMorePools(j) ==
  /\ Collecting(j) /\ phase[j] = "precheck" /\ turn[j] = N + 1 /\ exiting
  /\ failure' = [failure EXCEPT ![j] = "error"]
  /\ UNCHANGED <<operator, tampered, registry, counted, phase, turn, pool>>

PatchingEnds(j) ==
  /\ Collecting(j) /\ phase[j] = "patch" /\ turn[j] = N + 1
  /\ phase' = [phase EXCEPT ![j] = "report"]
  /\ UNCHANGED <<operator, tampered, registry, counted, turn, failure, pool>>

FinishDone(j) ==
  /\ phase[j] = "report"
  /\ FinishJob(j, "done")
  /\ phase' = [phase EXCEPT ![j] = "ended"]
  /\ UNCHANGED <<operator, tampered, owner, published, counted, turn, failure, pool>>

\* The exception leaves the pool once the started hosts are through.
FinishFailed(j) ==
  /\ failure[j] = "error" /\ phase[j] # "ended" /\ PoolEmpty(j)
  /\ FinishJob(j, "failed")
  /\ phase' = [phase EXCEPT ![j] = "ended"]
  /\ UNCHANGED <<operator, tampered, owner, published, counted, turn, failure, pool>>

\* SystemExit is no Exception: the thread ends and the registry is not told.
ThreadExits(j) ==
  /\ failure[j] = "tamper" /\ phase[j] # "ended" /\ PoolEmpty(j)
  /\ phase' = [phase EXCEPT ![j] = "ended"]
  /\ UNCHANGED <<operator, tampered, registry, counted, turn, failure, pool>>

JobThread(j) ==
  \/ TakeResult(j) \/ ResultRaises(j) \/ StartPatching(j) \/ NoMorePools(j)
  \/ PatchingEnds(j) \/ FinishDone(j) \/ FinishFailed(j) \/ ThreadExits(j)

-----------------------------------------------------------------------------
Next ==
  \/ \E u \in Users : SignIn(u)
  \/ SignOut \/ Exit
  \/ \E j \in Jobs : \/ \E t \in Tasks : Register(j, t)
                     \/ Launch(j) \/ InterruptLaunch(j)
                     \/ \E h \in HostNos : Worker(j, h)
                     \/ JobThread(j)

\* The main thread gets through its sleep, a worker through its host, a job
\* through its hosts.  This takes the remote commands to come to an end.
Fairness ==
  \A j \in Jobs : /\ WF_vars(Launch(j))
                  /\ \A h \in HostNos : WF_vars(Worker(j, h))
                  /\ WF_vars(JobThread(j))

Spec == Init /\ [][Next]_vars

FairSpec == Spec /\ Fairness

-----------------------------------------------------------------------------
(* Properties *)

Ended(j) == status[j] \in {"done", "failed"}

\* A user never has two running jobs of one task: the check in patch() is made
\* without holding the registry lock until the registration.
OneRunningJob ==
  \A i, j \in Jobs :
    status[i] = "running" /\ status[j] = "running" /\ owner[i] = owner[j] => i = j

\* A job that reports "done" has a summary row for every host, counted each, and
\* no host ended in an exception that nobody saw.
DoneCoversAllHosts ==
  \A j \in Jobs :
    status[j] = "done" =>
      counted[j] = N /\ \A h \in HostNos : work[j][h] = "ok"

\* What the registry says of an ended job is final, and none of its hosts is
\* being worked on: no worker outlives the status of its job.
EndIsFinal ==
  [][\A j \in Jobs : Ended(j) =>
       /\ status'[j] = status[j] /\ published'[j] = published[j]
       /\ work'[j] = work[j]]_vars

\* The progress shown never runs ahead of the hosts that are through, and the
\* thread's count is exactly their number.
ProgressIsReal ==
  \A j \in Jobs :
    /\ published[j] <= counted[j]
    /\ phase[j] = "patch" =>
         counted[j] = Cardinality({h \in HostNos : work[j][h] \in {"counted", "ok"}})

\* Registered, and its thread was never started.
Abandoned(j) == status[j] = "running" /\ phase[j] = "off" /\ main # j

\* A job that is registered as running comes to an end: its user is not kept from
\* the task for the life of the process (modules/redhat.py:164).  It takes an
\* alarm in one of its hosts or a Ctrl+C before its thread to prevent that.
JobEnds ==
  \A j \in Jobs :
    status[j] = "running" ~> Ended(j) \/ Abandoned(j) \/ failure[j] = "tamper"

\* "Wait for it to complete before starting another" (modules/redhat.py:167): the
\* same without the exceptions.
RunningMeansEnds == \A j \in Jobs : status[j] = "running" ~> Ended(j)

\* _tamper_abort(): "exit immediately" (utils/ssh_known_hosts.py:158): once a
\* thread has raised the alarm, no work on another host begins.
NoWorkAfterTamper ==
  [][tampered => \A j \in Jobs, h \in HostNos :
                   work'[j][h] = "busy" => work[j][h] = "busy"]_vars
=============================================================================
