---------------------------- MODULE RebootProofs ----------------------------
(***************************************************************************)
(* Proofs about Reboot for any number of hosts, any MAX_REBOOT_WAIT and    *)
(* every fault: the table is complete, "Offline" is said of no host that   *)
(* answered all the time, and only machines that need it are stopped.      *)
(***************************************************************************)
EXTENDS Reboot, TLAPS

\* How far the rows of the summary are.
RowsFit ==
  /\ phase = "check" => \A h \in HostNos : status[h] = "none"
  /\ phase = "send" => \A h \in HostNos : h < turn /\ h \in chosen <=> status[h] # "none"
  /\ phase \in {"sleep", "wait", "table"} => \A h \in chosen : status[h] # "none"

Settled(h) == uptime[h] \in {"Offline", "before", "after"}

UptimesFit ==
  /\ phase = "sleep" => turn = 1
  /\ phase = "wait" => \A h \in chosen : h < turn => Settled(h)
  /\ phase = "table" => \A h \in chosen : Settled(h)

\* Attempts were made for the host at turn only, and it was not there for one.
AttemptsFit ==
  /\ phase \notin {"wait", "failed"} => elapsed = 0
  /\ elapsed > 0 => turn \in chosen /\ turn \notin steady

\* A machine stops because of a row, and one that waits for its command is up and
\* still needs it.
PowerFits ==
  /\ \A h \in HostNos : power[h] = "stopping" => status[h] # "none"
  /\ ~forced => \A h \in chosen : status[h] = "none" => h \in needy /\ power[h] = "up"

IInv == TypeOK /\ RowsFit /\ UptimesFit /\ AttemptsFit /\ PowerFits

LEMMA InitOK == Init => IInv
<1> SUFFICES ASSUME Init PROVE IInv
  OBVIOUS
<1> USE NumbersAssumption DEF Init
<1>1. TypeOK
  BY DEF TypeOK, HostNos
<1>2. RowsFit /\ UptimesFit /\ AttemptsFit
  BY DEF RowsFit, UptimesFit, AttemptsFit, HostNos
<1>3. PowerFits
  BY DEF PowerFits, HostNos
<1> QED
  BY <1>1, <1>2, <1>3 DEF IInv

-----------------------------------------------------------------------------
(* Steps *)

LEMMA CheckStep == ASSUME IInv, CheckHost \/ CheckDone PROVE IInv'
<1> USE NumbersAssumption DEF IInv, machines
<1>1. TypeOK'
  <2>1. CASE CheckHost
    <3>1. turn' = turn + 1 /\ turn \in 1 .. N /\ chosen' \in {chosen, chosen \union {turn}}
      BY <2>1 DEF CheckHost, NextHost, HostNos
    <3>2. turn' \in 1 .. N + 1 /\ chosen' \subseteq HostNos /\ chosen \subseteq chosen'
      BY <3>1 DEF TypeOK, HostNos
    <3> QED
      BY <2>1, <3>2 DEF TypeOK, CheckHost
  <2>2. CASE CheckDone
    BY <2>2 DEF TypeOK, CheckDone
  <2> QED
    BY <2>1, <2>2
<1>2. RowsFit'
  <2>1. \A h \in HostNos : status'[h] = "none" /\ ~(h < 1)
    BY DEF RowsFit, CheckHost, CheckDone, HostNos
  <2>2. CASE CheckHost
    BY <2>1, <2>2 DEF RowsFit, CheckHost
  <2>3. CASE CheckDone
    BY <2>1, <2>3 DEF RowsFit, CheckDone
  <2> QED
    BY <2>2, <2>3
<1>3. UptimesFit' /\ AttemptsFit'
  BY DEF UptimesFit, AttemptsFit, TypeOK, CheckHost, CheckDone
<1>4. PowerFits'
  <2>1. \A h \in HostNos : power[h] # "stopping" \/ phase # "check"
    BY DEF PowerFits, RowsFit
  <2>2. CASE CheckHost
    BY <2>1, <2>2 DEF PowerFits, TypeOK, CheckHost, Reachable, Needs
  <2>3. CASE CheckDone
    BY <2>3 DEF PowerFits, CheckDone
  <2> QED
    BY <2>2, <2>3
<1> QED
  BY <1>1, <1>2, <1>3, <1>4

LEMMA SendRebootStep == ASSUME IInv, SendReboot PROVE IInv'
<1> USE NumbersAssumption DEF IInv
<1>1. /\ phase = "send" /\ turn \in chosen /\ turn' = turn + 1
      /\ power' \in {power, [power EXCEPT ![turn] = "stopping"]}
      /\ booted' \subseteq booted
      /\ status' = [status EXCEPT ![turn] = "Rebooted"]
      /\ uptime' = [uptime EXCEPT ![turn] = "Pending"]
      /\ UNCHANGED <<forced, phase, chosen, elapsed, waited, needy, steady>>
  BY DEF SendReboot, AddRow, NextHost
<1>2. turn \in HostNos
  BY <1>1 DEF TypeOK
<1>3. TypeOK'
  BY <1>1, <1>2 DEF TypeOK, HostNos
<1>4. RowsFit'
  BY <1>1, <1>2 DEF RowsFit, TypeOK, HostNos
<1>5. UptimesFit' /\ AttemptsFit'
  BY <1>1, <1>2 DEF UptimesFit, AttemptsFit
<1>6. PowerFits'
  BY <1>1, <1>2 DEF PowerFits, TypeOK
<1> QED
  BY <1>3, <1>4, <1>5, <1>6

LEMMA SendStep == ASSUME IInv, SendFails \/ SkipHost \/ SendDone PROVE IInv'
<1> USE NumbersAssumption DEF IInv, machines
<1>1. CASE SendFails
  <2>1. /\ phase = "send" /\ turn \in chosen /\ turn' = turn + 1
        /\ status' = [status EXCEPT ![turn] = "Failed"]
        /\ uptime' = [uptime EXCEPT ![turn] = "N/A"]
        /\ UNCHANGED <<forced, phase, chosen, elapsed, waited, power, booted, needy, steady>>
    BY <1>1 DEF SendFails, FailedRow, AddRow, NextHost
  <2>2. turn \in HostNos
    BY <2>1 DEF TypeOK
  <2>3. TypeOK' /\ RowsFit'
    BY <2>1, <2>2 DEF TypeOK, RowsFit, HostNos
  <2>4. UptimesFit' /\ AttemptsFit' /\ PowerFits'
    BY <2>1, <2>2 DEF TypeOK, UptimesFit, AttemptsFit, PowerFits
  <2> QED
    BY <2>3, <2>4
<1>2. CASE SkipHost
  BY <1>2 DEF SkipHost, NextHost, TypeOK, RowsFit, UptimesFit, AttemptsFit, PowerFits, HostNos
<1>3. CASE SendDone
  BY <1>3 DEF SendDone, TypeOK, RowsFit, UptimesFit, AttemptsFit, PowerFits, HostNos
<1> QED
  BY <1>1, <1>2, <1>3

LEMMA WaitStep ==
  ASSUME IInv, Sleep \/ HostSilent \/ NoEntry \/ ShowTable \/ RunRaises PROVE IInv'
<1> USE NumbersAssumption DEF IInv, machines
<1>1. UNCHANGED <<forced, chosen, status, uptime, power, booted, needy>>
  BY DEF Sleep, HostSilent, NoEntry, ShowTable, RunRaises
<1>2. TypeOK'
  <2>1. waited' \in Nat
    <3>1. LongestWait \in Nat
      BY DEF LongestWait
    <3> QED
      BY <3>1 DEF TypeOK, Sleep, HostSilent, NoEntry, ShowTable, RunRaises
  <2>2. elapsed' \in 0 .. MaxWait
    BY DEF TypeOK, Sleep, HostSilent, NoEntry, ShowTable, RunRaises, AttemptsLeft,
       OneAttemptMore
  <2>3. turn' \in 1 .. N + 1
    BY DEF TypeOK, Sleep, HostSilent, NoEntry, ShowTable, RunRaises, NextHost, HostNos
  <2>4. steady' \subseteq HostNos
    BY DEF TypeOK, Sleep, HostSilent, NoEntry, ShowTable, RunRaises
  <2>5. phase' \in {"wait", "table", "failed"}
    BY DEF Sleep, HostSilent, NoEntry, ShowTable, RunRaises
  <2> QED
    BY <1>1, <2>1, <2>2, <2>3, <2>4, <2>5 DEF TypeOK
<1>3. RowsFit' /\ PowerFits'
  BY <1>1 DEF RowsFit, PowerFits, Sleep, HostSilent, NoEntry, ShowTable, RunRaises
<1>4. UptimesFit'
  <2>1. CASE Sleep
    BY <1>1, <2>1 DEF UptimesFit, Sleep, TypeOK, HostNos
  <2>2. CASE HostSilent \/ RunRaises
    BY <1>1, <2>2 DEF UptimesFit, HostSilent, RunRaises, Settled
  <2>3. CASE NoEntry \/ ShowTable
    BY <1>1, <2>3 DEF UptimesFit, NoEntry, ShowTable, Settled, NextHost, TypeOK, HostNos
  <2> QED
    BY <2>1, <2>2, <2>3
<1>5. AttemptsFit'
  BY <1>1 DEF AttemptsFit, TypeOK, HostNos,
     Sleep, HostSilent, NoEntry, ShowTable, RunRaises, OneAttemptMore
<1> QED
  BY <1>2, <1>3, <1>4, <1>5

LEMMA SettleStep == ASSUME IInv, HostAnswers \/ GiveUp PROVE IInv'
<1> USE NumbersAssumption DEF IInv, machines
<1>1. PICK u \in {"Offline", "before", "after"} : Settle(u)
  BY DEF HostAnswers, GiveUp
<1>2. /\ phase = "wait" /\ turn \in chosen /\ turn' = turn + 1 /\ elapsed' = 0 /\ waited' = 0
      /\ uptime' = [uptime EXCEPT ![turn] = u]
      /\ steady' = {h \in HostNos : power[h] = "up"}
      /\ UNCHANGED <<forced, phase, chosen, status, power, booted, needy>>
  BY <1>1 DEF HostAnswers, GiveUp, Settle, NextHost, ElapsedAtTurn
<1>3. turn \in HostNos
  BY <1>2 DEF TypeOK
<1>4. TypeOK'
  BY <1>2, <1>3 DEF TypeOK, HostNos
<1>5. RowsFit' /\ AttemptsFit' /\ PowerFits'
  BY <1>2 DEF RowsFit, AttemptsFit, PowerFits
<1>6. UptimesFit'
  BY <1>2, <1>3 DEF UptimesFit, Settled, TypeOK, HostNos
<1> QED
  BY <1>4, <1>5, <1>6

LEMMA MachineStep ==
  ASSUME IInv, NEW h \in HostNos, GoDown(h) \/ ComeUp(h) PROVE IInv'
<1> USE NumbersAssumption DEF IInv, main
<1>1. UNCHANGED main /\ steady' \subseteq steady
  BY DEF GoDown, ComeUp
<1>2. TypeOK'
  BY <1>1 DEF TypeOK, GoDown, ComeUp
<1>3. RowsFit' /\ UptimesFit' /\ AttemptsFit'
  BY <1>1 DEF RowsFit, UptimesFit, Settled, AttemptsFit
<1>4. PowerFits'
  <2>1. power[h] # "up"
    BY DEF GoDown, ComeUp
  <2>2. power' \in [HostNos -> {"up", "stopping", "down"}]
    BY <1>2 DEF TypeOK
  <2>3. power'[h] # "stopping" /\ \A g \in HostNos \ {h} : power'[g] = power[g]
    BY DEF GoDown, ComeUp, TypeOK
  <2>4. \A g \in needy \ {h} : g \in needy'
    BY DEF GoDown, ComeUp
  <2> QED
    BY <1>1, <2>1, <2>3, <2>4 DEF PowerFits, TypeOK
<1> QED
  BY <1>2, <1>3, <1>4

LEMMA NextOK == IInv /\ [Next]_vars => IInv'
<1> SUFFICES ASSUME IInv, [Next]_vars PROVE IInv'
  OBVIOUS
<1>1. CASE UNCHANGED vars
  BY <1>1 DEF vars, IInv, TypeOK, RowsFit, UptimesFit, Settled, AttemptsFit, PowerFits
<1> QED
  BY <1>1, CheckStep, SendRebootStep, SendStep, WaitStep, SettleStep, MachineStep
     DEF Next, Main

-----------------------------------------------------------------------------
(* Theorems *)

\* The values of the summary, the counter and the machines, for any hosts and limits.
THEOREM TypeCorrect == Spec => []TypeOK
<1>1. IInv => TypeOK
  BY DEF IInv
<1> QED
  BY <1>1, InitOK, NextOK, PTL DEF Spec

\* Every host to be rebooted has a row in the table that tells whether it answered in
\* the end, also one that could not be reached when the command was sent.
THEOREM Complete == Spec => []TableComplete
<1>1. IInv => TableComplete
  BY DEF IInv, RowsFit, UptimesFit, Settled, TableComplete
<1> QED
  BY <1>1, InitOK, NextOK, PTL DEF Spec

LEMMA OfflineStep ==
  ASSUME IInv, [Next]_vars, NEW h \in HostNos, uptime'[h] = "Offline", uptime[h] # "Offline"
  PROVE  h \notin steady
<1> USE DEF IInv
<1>1. GiveUp /\ h = turn
  <2>1. CASE UNCHANGED uptime
    BY <2>1
  <2>2. CASE SendReboot \/ SendFails
    BY <2>2 DEF SendReboot, SendFails, FailedRow, AddRow, TypeOK
  <2>3. CASE HostAnswers
    BY <2>3 DEF HostAnswers, Settle, TypeOK
  <2>4. CASE GiveUp
    BY <2>4 DEF GiveUp, Settle, TypeOK
  <2> QED
    BY <2>1, <2>2, <2>3, <2>4 DEF Next, Main, CheckHost, CheckDone, SkipHost, SendDone,
       Sleep, HostSilent, NoEntry, ShowTable, RunRaises, GoDown, ComeUp, main, vars
<1>2. elapsed > 0
  BY <1>1, NumbersAssumption DEF GiveUp, AttemptsLeft, TypeOK
<1> QED
  BY <1>1, <1>2 DEF AttemptsFit

\* A host that has been up and reachable since its turn began is never reported
\* "Offline", whatever the hosts before it cost (elapsed in _wait_for_reboot()).
THEOREM OfflineTrue == Spec => OfflineIsTrue
<1>1. IInv /\ [Next]_vars =>
        (\A h \in HostNos :
           uptime'[h] = "Offline" /\ uptime[h] # "Offline" => h \notin steady)
  BY OfflineStep
<1> QED
  BY <1>1, InitOK, NextOK, PTL DEF Spec, OfflineIsTrue

LEMMA StopStep ==
  ASSUME IInv, [Next]_vars, NEW h \in HostNos, power[h] = "up", power'[h] = "stopping"
  PROVE  (h \in needy \/ forced) /\ status[h] = "none"
<1> USE DEF IInv
<1>1. SendReboot /\ h = turn
  <2>1. CASE UNCHANGED power
    BY <2>1
  <2>2. CASE SendReboot
    BY <2>2 DEF SendReboot, TypeOK
  <2>3. CASE \E g \in HostNos : GoDown(g) \/ ComeUp(g)
    BY <2>3 DEF GoDown, ComeUp, TypeOK
  <2> QED
    BY <2>1, <2>2, <2>3 DEF Next, Main, CheckHost, CheckDone, SendFails, SkipHost, SendDone,
       Sleep, HostAnswers, HostSilent, GiveUp, Settle, NoEntry, ShowTable, RunRaises,
       machines, vars
<1>2. status[h] = "none" /\ h \in chosen
  BY <1>1, NumbersAssumption DEF SendReboot, RowsFit, TypeOK
<1> QED
  BY <1>2 DEF PowerFits

\* The task stops a machine at most once, and without force only one that needs it.
THEOREM OnlyNeedy == Spec => OnlyNeedyStop
<1>1. IInv /\ [Next]_vars =>
        (\A h \in HostNos : power[h] = "up" /\ power'[h] = "stopping" =>
           /\ h \in needy \/ forced
           /\ status[h] = "none")
  BY StopStep
<1> QED
  BY <1>1, InitOK, NextOK, PTL DEF Spec, OnlyNeedyStop
=============================================================================
