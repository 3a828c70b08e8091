------------------------------- MODULE Reboot -------------------------------
(***************************************************************************)
(* reboot_required() and force_reboot() of modules/redhat.py and           *)
(* modules/ubuntu.py with _wait_for_reboot(): the main thread asks the     *)
(* hosts one after the other whether they need a reboot, sends the         *)
(* reboots, sleeps for 20 seconds, and then visits the hosts of the summary*)
(* in order until each answers or its attempts are used up.                *)
(*                                                                         *)
(* Meanwhile every machine goes down and comes up at its own pace.  The    *)
(* hosts are 1 .. N; a forced reboot starts at the sending and has all of  *)
(* them to reboot.                                                         *)
(***************************************************************************)
EXTENDS Integers

CONSTANTS
  N,            \* hosts
  MaxWait,      \* MAX_REBOOT_WAIT, the attempts for a host
  ConnectTime,  \* ticks a failing connect() takes at most
  Faults        \* what else may happen, out of AllFaults

VARIABLES
  forced,   \* the task is force_reboot()
  phase,    \* the main thread: "check", "send", "sleep", "wait", "table" or,
            \* after an exception, "failed"
  turn,     \* the host it is at
  chosen,   \* to_reboot
  status,   \* entry[1] of each host's summary row, "none" without a row
  uptime,   \* entry[2]: "Pending", "N/A", "Offline", or the uptime shown, which
            \* is one from "before" or from "after" a reboot
  elapsed,  \* attempts made for the host at turn
  waited,   \* ticks they took
  power,    \* each machine: "up", "stopping" (it still answers) or "down"
  booted,   \* machines that have gone through a boot since they were told to
  needy,    \* machines that need a reboot
  steady    \* history: machines that have been up since their turn began and
            \* could be reached at every attempt

main     == <<forced, phase, turn, chosen, status, uptime, elapsed, waited>>
machines == <<power, booted, needy>>
vars == <<forced, phase, turn, chosen, status, uptime, elapsed, waited, power, booted,
          needy, steady>>

AllFaults ==
  {"network",  \* a machine that is up may not be reached
   "slow",     \* a machine may still answer 20 seconds after the command
   "refuses",  \* the reboot command may fail on the machine
   "raises"}   \* run() may raise

ASSUME NumbersAssumption ==
  /\ N \in Nat /\ MaxWait \in Nat \ {0} /\ ConnectTime \in Nat
ASSUME FaultsAssumption == Faults \subseteq AllFaults

HostNos == 1 .. N

TypeOK ==
  /\ forced \in BOOLEAN
  /\ phase \in {"check", "send", "sleep", "wait", "table", "failed"}
  /\ turn \in 1 .. N + 1
  /\ chosen \subseteq HostNos
  /\ status \in [HostNos -> {"none", "Rebooted", "Failed"}]
  /\ uptime \in [HostNos -> {"none", "Pending", "N/A", "Offline", "before", "after"}]
  /\ \A h \in HostNos : status[h] # "none" => h \in chosen
  /\ elapsed \in 0 .. MaxWait
  /\ waited \in Nat
  /\ power \in [HostNos -> {"up", "stopping", "down"}]
  /\ booted \subseteq HostNos /\ needy \subseteq HostNos
  /\ steady \subseteq HostNos

\* A machine may be down, and may need a reboot, from the start.
Init ==
  /\ forced \in BOOLEAN
  /\ phase = IF forced THEN "send" ELSE "check"
  /\ turn = 1
  /\ chosen = IF forced THEN HostNos ELSE {}
  /\ status = [h \in HostNos |-> "none"]
  /\ uptime = [h \in HostNos |-> "none"]
  /\ elapsed = 0 /\ waited = 0
  /\ power \in [HostNos -> {"up", "down"}]
  /\ booted = {}
  /\ needy \in SUBSET HostNos
  /\ steady = {}

-----------------------------------------------------------------------------
(* Variants: slips that the properties must notice. *)

\* "elapsed = 0" before the loop over the hosts instead of in it.
KeepElapsed == elapsed

\* "elapsed += 1" on the path of a host that answers only.
NoProgress == elapsed

\* The answer to the check is the connection, not the need.
RebootAnyway(h) == TRUE

\* The row of a host that failed is left for later.
NoRow(h) == UNCHANGED <<status, uptime>>

-----------------------------------------------------------------------------
(* Helpers *)

Reachable(h) == power[h] # "down"

\* connect() fails.
Unreachable(h) == ~Reachable(h) \/ "network" \in Faults

AddRow(h, s, u) ==
  /\ status' = [status EXCEPT ![h] = s]
  /\ uptime' = [uptime EXCEPT ![h] = u]

FailedRow(h) == AddRow(h, "Failed", "N/A")

ElapsedAtTurn == 0

AttemptsLeft == elapsed < MaxWait

\* Bound on waited, never reached before the attempts are used up.
LongestWait == MaxWait * (ConnectTime + 1)

OneAttemptMore == elapsed + 1

\* The host at turn is done with; the next one of the list, if any.
NextHost == turn' = turn + 1

-----------------------------------------------------------------------------
(* reboot_required(): which hosts need a reboot *)

Needs(h) == h \in needy

\* A host that cannot be reached is passed over without a word.
CheckHost ==
  /\ phase = "check" /\ turn \in HostNos
  /\ \/ Reachable(turn) /\ Needs(turn) /\ chosen' = chosen \union {turn}
     \/ (Unreachable(turn) \/ ~Needs(turn)) /\ UNCHANGED chosen
  /\ NextHost
  /\ UNCHANGED <<forced, phase, status, uptime, elapsed, waited, machines, steady>>

\* "No servers require reboot." ends the task with an empty table.
CheckDone ==
  /\ phase = "check" /\ turn = N + 1
  /\ phase' = IF chosen = {} THEN "table" ELSE "send"
  /\ turn' = 1
  /\ UNCHANGED <<forced, chosen, status, uptime, elapsed, waited, machines, steady>>

-----------------------------------------------------------------------------
(* Both: sending the reboots *)

\* The output of the command is not looked at.
SendReboot ==
  /\ phase = "send" /\ turn \in chosen
  /\ Reachable(turn)
  /\ power' \in {[power EXCEPT ![turn] = "stopping"]}
                \union (IF "refuses" \in Faults THEN {power} ELSE {})
  /\ booted' = booted \ {turn}
  /\ AddRow(turn, "Rebooted", "Pending")
  /\ NextHost
  /\ UNCHANGED <<forced, phase, chosen, elapsed, waited, needy, steady>>

SendFails ==
  /\ phase = "send" /\ turn \in chosen
  /\ Unreachable(turn)
  /\ FailedRow(turn)
  /\ NextHost
  /\ UNCHANGED <<forced, phase, chosen, elapsed, waited, machines, steady>>

SkipHost ==
  /\ phase = "send" /\ turn \in HostNos \ chosen
  /\ NextHost
  /\ UNCHANGED <<forced, phase, chosen, status, uptime, elapsed, waited, machines, steady>>

SendDone ==
  /\ phase = "send" /\ turn = N + 1
  /\ phase' = "sleep" /\ turn' = 1
  /\ UNCHANGED <<forced, chosen, status, uptime, elapsed, waited, machines, steady>>

-----------------------------------------------------------------------------
(* _wait_for_reboot() *)

\* 20 seconds are long enough for a machine to go down, unless it is slow.
SleptEnough == "slow" \in Faults \/ \A h \in HostNos : power[h] # "stopping"

Sleep ==
  /\ phase = "sleep" /\ SleptEnough
  /\ phase' = "wait"
  /\ steady' = {h \in HostNos : power[h] = "up"}
  /\ UNCHANGED <<forced, turn, chosen, status, uptime, elapsed, waited, machines>>

\* entry[2] is written and the next entry begun.
Settle(u) ==
  /\ uptime' = [uptime EXCEPT ![turn] = u]
  /\ NextHost
  /\ elapsed' = ElapsedAtTurn /\ waited' = 0
  /\ steady' = {h \in HostNos : power[h] = "up"}
  /\ UNCHANGED <<forced, phase, chosen, status, machines>>

HostAnswers ==
  /\ phase = "wait" /\ turn \in chosen /\ AttemptsLeft
  /\ Reachable(turn)
  /\ Settle(IF turn \in booted THEN "after" ELSE "before")

\* connect() takes its time to fail, then a second of sleep counts as one.
HostSilent ==
  /\ phase = "wait" /\ turn \in chosen /\ AttemptsLeft
  /\ Unreachable(turn)
  /\ elapsed' = OneAttemptMore
  /\ \E d \in 0 .. ConnectTime :
       waited' = IF waited + d + 1 > LongestWait THEN LongestWait ELSE waited + d + 1
  /\ steady' = steady \ {turn}
  /\ UNCHANGED <<forced, phase, turn, chosen, status, uptime, machines>>

GiveUp ==
  /\ phase = "wait" /\ turn \in chosen /\ ~AttemptsLeft
  /\ Settle("Offline")

NoEntry ==
  /\ phase = "wait" /\ turn \in HostNos \ chosen
  /\ NextHost
  /\ steady' = {h \in HostNos : power[h] = "up"}
  /\ UNCHANGED <<forced, phase, chosen, status, uptime, elapsed, waited, machines>>

ShowTable ==
  /\ phase = "wait" /\ turn = N + 1
  /\ phase' = "table"
  /\ UNCHANGED <<forced, turn, chosen, status, uptime, elapsed, waited, machines, steady>>

\* run() raises after the connection: nothing catches it before _run_task(), the
\* summary of all hosts is lost.
RunRaises ==
  /\ phase \in {"check", "send", "wait"} /\ turn \in HostNos
  /\ phase # "check" => turn \in chosen
  /\ "raises" \in Faults /\ Reachable(turn)
  /\ phase' = "failed"
  /\ UNCHANGED <<forced, turn, chosen, status, uptime, elapsed, waited, machines, steady>>

Main ==
  \/ CheckHost \/ CheckDone
  \/ SendReboot \/ SendFails \/ SkipHost \/ SendDone
  \/ Sleep \/ HostAnswers \/ HostSilent \/ GiveUp \/ NoEntry \/ ShowTable

-----------------------------------------------------------------------------
(* The machines *)

GoDown(h) ==
  /\ power[h] = "stopping"
  /\ power' = [power EXCEPT ![h] = "down"]
  /\ steady' = steady \ {h}
  /\ UNCHANGED <<main, booted, needy>>

ComeUp(h) ==
  /\ power[h] = "down"
  /\ power' = [power EXCEPT ![h] = "up"]
  /\ booted' = booted \union {h}
  /\ needy' = needy \ {h}
  /\ UNCHANGED <<main, steady>>

Next ==
  \/ Main \/ RunRaises
  \/ \E h \in HostNos : GoDown(h) \/ ComeUp(h)

\* The main thread runs on: connect() has timeouts, run() is assumed to return.
\* A machine that was told to stop stops; none has to come up again.
Fairness == WF_vars(Main) /\ \A h \in HostNos : WF_vars(GoDown(h))

Spec == Init /\ [][Next]_vars

FairSpec == Spec /\ Fairness

-----------------------------------------------------------------------------
(* Properties *)

\* Whatever the machines do, the wait ends and the menu comes back.
WaitEnds == <>(phase \in {"table", "failed"})

\* A row says "Offline" of no host that was up and could be reached all the time
\* since its turn began: the attempts made for the hosts before it cost it nothing.
OfflineIsTrue ==
  [][\A h \in HostNos :
       uptime'[h] = "Offline" /\ uptime[h] # "Offline" => h \notin steady]_vars

\* reboot_required() reboots no machine that had no need of it, and each one
\* once: a machine stops in this task at most once.
OnlyNeedyStop ==
  [][\A h \in HostNos : power[h] = "up" /\ power'[h] = "stopping" =>
       /\ h \in needy \/ forced
       /\ status[h] = "none"]_vars

\* The table has a row for every host that was to be rebooted, the ones that could
\* not be reached included, and each tells whether the host answered in the end.
TableComplete ==
  phase = "table" =>
    \A h \in chosen : status[h] # "none" /\ uptime[h] \notin {"none", "Pending", "N/A"}

\* "Waiting for servers to come back online" (modules/redhat.py:106): the uptime
\* shown for a host that was rebooted is one from after the reboot.
BackMeansRebooted ==
  \A h \in HostNos : status[h] = "Rebooted" => uptime[h] # "before"

\* "MAX_REBOOT_WAIT = 300  # seconds" (modules/redhat.py:52): a host is waited
\* for no longer than that.
WaitIsBounded == waited <= MaxWait
=============================================================================
