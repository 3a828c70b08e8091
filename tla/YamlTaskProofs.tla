--------------------------- MODULE YamlTaskProofs ---------------------------
(***************************************************************************)
(* Proofs about YamlTask for any number of hosts, workers and commands,    *)
(* and for commands of any length.                                         *)
(*                                                                         *)
(* The argument for the timeouts: hosts start in the order in which they   *)
(* are collected, so as long as no host was reported, every host before    *)
(* the one that is waited for is over and that one has a worker.  The main *)
(* thread then never waits for longer than that host has been at work, and *)
(* by the time it gives up the host is past connect(), where alarms arise. *)
(***************************************************************************)
EXTENDS YamlTask, TLAPS

\* A host before h was reported as one without a response.
Behind(h) == \E g \in 1 .. h - 1 : rows[g] = "timeout"

\* Hosts start in order.
Ordered ==
  \A g, h \in HostNos : work[g] = "queued" /\ g < h => work[h] = "queued"

\* What a host's step says of its future, its time and its age.
StepFits ==
  \A h \in HostNos :
    /\ work[h] = "over" <=> outcome[h] # "none"
    /\ work[h] = "queued" => spent[h] = 0 /\ age[h] = 0
    /\ work[h] = "connect" => spent[h] <= ConnectTime /\ age[h] <= spent[h]
    /\ work[h] = "run" => spent[h] <= CommandTime
    /\ h \in hung => work[h] = "run"

\* A row that is no timeout was made of a result.
RowsTell ==
  \A h \in HostNos :
    IF h < turn THEN rows[h] = "timeout" \/ (rows[h] # "none" /\ Caught(outcome[h]))
                ELSE rows[h] = "none"

\* Who is waited for has been at work all that time.
Patient ==
  Collecting /\ work[turn] # "over" /\ ~Behind(turn) => waited <= age[turn]

\* The first host that is reported has passed connect().
Connects == ConnectTime < HostTimeout

FirstRuns ==
  \A h \in HostNos :
    rows[h] = "timeout" /\ ~Behind(h) =>
      work[h] = "run" \/ (work[h] = "over" /\ outcome[h] # "tamper")

\* How the main thread got where it is.
Leaving ==
  /\ phase = "collect" => failure = "none"
  /\ phase \in {"leave", "menu"} /\ failure = "none" => turn = N + 1
  /\ phase = "menu" /\ failure # "impatient" => PoolDone

IInv ==
  /\ TypeOK /\ Ordered /\ StepFits /\ RowsTell /\ Patient /\ Leaving
  /\ Connects => FirstRuns

-----------------------------------------------------------------------------
(* The invariant *)

LEMMA InitOK == Init => IInv
<1> SUFFICES ASSUME Init PROVE IInv
  OBVIOUS
<1> USE SizesAssumption DEF Init
<1>1. TypeOK
  BY DEF TypeOK, HostNos, Outcomes
<1>2. Ordered /\ StepFits
  BY DEF Ordered, StepFits
<1>3. RowsTell /\ FirstRuns
  BY DEF RowsTell, FirstRuns, HostNos
<1>4. Patient
  BY DEF Patient, Collecting
<1>5. Leaving
  BY DEF Leaving
<1> QED
  BY <1>1, <1>2, <1>3, <1>4, <1>5 DEF IInv

\* The steps of a host that only concern itself and keep the order of the queue.
LEMMA HostKeeps ==
  ASSUME IInv, NEW h \in HostNos, UNCHANGED <<main, age>>, TypeOK', StepFits', Ordered',
         \A g \in HostNos \ {h} : work'[g] = work[g] /\ outcome'[g] = outcome[g],
         work[h] # "over" /\ outcome[h] = "none",
         work[h] = "run" =>
           work'[h] = "run" \/ (work'[h] = "over" /\ outcome'[h] # "tamper")
  PROVE  IInv'
<1> USE DEF IInv, main
<1>1. RowsTell'
  BY DEF RowsTell, Caught, StepFits, TypeOK
<1>2. Patient'
  <2> SUFFICES ASSUME Collecting, work'[turn] # "over", ~Behind(turn)
               PROVE  waited <= age[turn]
    BY DEF Patient, Collecting, Behind
  <2>1. turn \in HostNos /\ work[turn] # "over"
    BY DEF Collecting
  <2> QED
    BY <2>1 DEF Patient
<1>3. Leaving'
  <2>1. ~PoolDone
    BY DEF PoolDone
  <2> QED
    BY <2>1 DEF Leaving
<1>4. Connects => FirstRuns'
  <2> SUFFICES ASSUME Connects, NEW g \in HostNos, rows[g] = "timeout", ~Behind(g)
               PROVE  work'[g] = "run" \/ (work'[g] = "over" /\ outcome'[g] # "tamper")
    BY DEF FirstRuns, Behind
  <2>1. work[g] = "run" \/ (work[g] = "over" /\ outcome[g] # "tamper")
    BY DEF FirstRuns
  <2> QED
    BY <2>1
<1> QED
  BY <1>1, <1>2, <1>3, <1>4

LEMMA FinishStep ==
  ASSUME IInv, NEW h \in HostNos, NEW o \in Outcomes, h \in Busy \ hung, Finish(h, o),
         work[h] = "run" => o # "tamper"
  PROVE  IInv'
<1> USE SizesAssumption DEF IInv
<1>1. work' = [work EXCEPT ![h] = "over"] /\ outcome' = [outcome EXCEPT ![h] = o]
      /\ spent' = [spent EXCEPT ![h] = 0] /\ UNCHANGED <<left, age, hung>>
      /\ UNCHANGED main
  BY DEF Finish, SetWork, main
<1>2. TypeOK'
  BY <1>1 DEF TypeOK, main
<1>3. work[h] \in {"connect", "run"} /\ h \notin hung /\ outcome[h] = "none"
  BY DEF Busy, StepFits
<1>4. StepFits'
  BY <1>1, <1>3 DEF StepFits, TypeOK, Outcomes
<1>5. Ordered'
  BY <1>1, <1>3 DEF Ordered, TypeOK
<1>6. \A g \in HostNos \ {h} : work'[g] = work[g] /\ outcome'[g] = outcome[g]
  BY <1>1 DEF TypeOK
<1>7. work'[h] = "over" /\ outcome'[h] = o
  BY <1>1 DEF TypeOK
<1> HIDE DEF IInv
<1> QED
  BY <1>1, <1>2, <1>3, <1>4, <1>5, <1>6, <1>7, HostKeeps

LEMMA StartHostStep == ASSUME IInv, NEW h \in HostNos, StartHost(h) PROVE IInv'
<1> USE SizesAssumption DEF IInv
<1>1. work' = [work EXCEPT ![h] = "connect"]
      /\ UNCHANGED <<left, spent, age, hung, outcome>> /\ UNCHANGED main
  BY DEF StartHost, SetWork, main
<1>2. TypeOK'
  BY <1>1 DEF TypeOK, main
<1>3. work[h] = "queued" /\ \A g \in HostNos : work[g] = "queued" => h <= g
  BY DEF StartHost, Queued
<1>4. StepFits'
  BY <1>1, <1>3 DEF StepFits, TypeOK
<1>5. Ordered'
  <2> SUFFICES ASSUME NEW f \in HostNos, NEW g \in HostNos, work'[f] = "queued", f < g
               PROVE  work'[g] = "queued"
    BY DEF Ordered
  <2>1. f # h /\ work[f] = "queued"
    BY <1>1 DEF TypeOK
  <2>2. g # h /\ work[g] = "queued"
    BY <1>3, <2>1 DEF Ordered, HostNos
  <2> QED
    BY <1>1, <2>2 DEF TypeOK
<1>6. \A g \in HostNos \ {h} : work'[g] = work[g] /\ outcome'[g] = outcome[g]
  BY <1>1 DEF TypeOK
<1>7. outcome[h] = "none"
  BY <1>3 DEF StepFits
<1> HIDE DEF IInv
<1> QED
  BY <1>1, <1>2, <1>3, <1>4, <1>5, <1>6, <1>7, HostKeeps

LEMMA ConnectedStep == ASSUME IInv, NEW h \in HostNos, Connected(h) PROVE IInv'
<1> USE SizesAssumption DEF IInv
<1>1. work' = [work EXCEPT ![h] = "run"] /\ spent' = [spent EXCEPT ![h] = 0]
      /\ UNCHANGED <<left, age, hung, outcome>> /\ UNCHANGED main
  BY DEF Connected, SetWork, main
<1>2. TypeOK'
  BY <1>1 DEF TypeOK, main
<1>3. work[h] = "connect" /\ h \notin hung /\ outcome[h] = "none"
  BY DEF Connected, StepFits
<1>4. StepFits'
  BY <1>1, <1>3 DEF StepFits, TypeOK
<1>5. Ordered'
  BY <1>1, <1>3 DEF Ordered, TypeOK
<1>6. \A g \in HostNos \ {h} : work'[g] = work[g] /\ outcome'[g] = outcome[g]
  BY <1>1 DEF TypeOK
<1> HIDE DEF IInv
<1> QED
  BY <1>1, <1>2, <1>3, <1>4, <1>5, <1>6, HostKeeps

LEMMA CommandStep ==
  ASSUME IInv, NEW h \in HostNos, CommandEnds(h) \/ CommandHangs(h) PROVE IInv'
<1> USE SizesAssumption DEF IInv
<1>1. UNCHANGED <<work, age, outcome>> /\ UNCHANGED main /\ work[h] = "run"
  BY DEF CommandEnds, CommandHangs, main
<1>2. TypeOK'
  <2>1. CASE CommandEnds(h)
    <3>1. left[h] - 1 \in 1 .. Commands
      BY <2>1 DEF CommandEnds, MoreCommands, TypeOK
    <3> QED
      BY <1>1, <2>1, <3>1 DEF CommandEnds, TypeOK, main
  <2>2. CASE CommandHangs(h)
    BY <1>1, <2>2 DEF CommandHangs, TypeOK, main
  <2> QED
    BY <2>1, <2>2
<1>3. StepFits' /\ outcome[h] = "none"
  BY <1>1 DEF StepFits, CommandEnds, CommandHangs, TypeOK
<1>4. Ordered'
  BY <1>1 DEF Ordered
<1> HIDE DEF IInv
<1> QED
  BY <1>1, <1>2, <1>3, <1>4, HostKeeps

LEMMA HostStep ==
  ASSUME IInv, NEW h \in HostNos, Host(h) \/ CommandHangs(h) PROVE IInv'
<1>1. CASE ConnectFails(h)
  <2>1. h \in Busy \ hung
    BY <1>1 DEF ConnectFails, Busy, IInv, StepFits
  <2> QED
    BY <1>1, <2>1, FinishStep DEF ConnectFails, Outcomes
<1>2. CASE HostRaises(h)
  BY <1>2, FinishStep DEF HostRaises, Outcomes
<1>3. CASE HostTampered(h)
  <2>1. h \in Busy \ hung
    BY <1>3 DEF HostTampered, Busy, IInv, StepFits
  <2> QED
    BY <1>3, <2>1, FinishStep DEF HostTampered, Outcomes
<1>4. CASE LastCommandEnds(h)
  <2>1. h \in Busy \ hung
    BY <1>4 DEF LastCommandEnds, Busy
  <2> QED
    BY <1>4, <2>1, FinishStep DEF LastCommandEnds, Outcomes
<1> QED
  BY <1>1, <1>2, <1>3, <1>4, StartHostStep, ConnectedStep, CommandStep DEF Host

-----------------------------------------------------------------------------
(* The main thread *)

\* When the main thread gives up on a host and was not made to wait by one that it
\* gave up on before, the host has been at work for the whole timeout.
LEMMA TimeoutIsOwn ==
  ASSUME IInv, TimeoutRow, ~Behind(turn)
  PROVE  age[turn] = HostTimeout /\ work[turn] # "over"
<1>1. turn \in HostNos /\ outcome[turn] = "none" /\ waited = HostTimeout /\ Collecting
  BY DEF TimeoutRow, Collecting, Ready
<1>2. work[turn] # "over"
  BY <1>1 DEF IInv, StepFits
<1>3. waited <= age[turn] /\ age[turn] \in 0 .. HostTimeout
  BY <1>1, <1>2 DEF IInv, Patient, TypeOK
<1> QED
  BY <1>1, <1>2, <1>3, SizesAssumption

\* A row more: the next host is waited for from now on.
LEMMA RowStep ==
  ASSUME IInv, Collecting, NEW r \in {"yes", "no", "error", "timeout"}, AddRow(turn, r),
         r = "timeout" \/ Caught(outcome[turn]),
         Connects /\ r = "timeout" /\ ~Behind(turn) => work[turn] = "run"
  PROVE  IInv'
<1> USE SizesAssumption DEF IInv
<1>1. rows' = [rows EXCEPT ![turn] = r] /\ turn' = turn + 1 /\ waited' = 0
      /\ UNCHANGED <<phase, failure, work, left, spent, age, hung, outcome>>
  BY DEF AddRow, NextWait, hosts
<1>2. turn \in HostNos /\ phase = "collect" /\ turn \in 1 .. N
  BY DEF Collecting, HostNos
<1>3. TypeOK'
  <2>1. turn' \in 1 .. N + 1 /\ waited' \in 0 .. HostTimeout
    BY <1>1, <1>2
  <2>2. rows' \in [HostNos -> {"none", "yes", "no", "error", "timeout"}]
    BY <1>1, <1>2 DEF TypeOK
  <2> QED
    BY <1>1, <2>1, <2>2 DEF TypeOK
<1>4. Ordered' /\ StepFits'
  BY <1>1 DEF Ordered, StepFits
<1>5. RowsTell'
  BY <1>1, <1>2 DEF RowsTell, Caught, TypeOK, HostNos
<1>6. Patient'
  <2> SUFFICES ASSUME Collecting' PROVE waited' <= age'[turn']
    BY DEF Patient
  <2>1. turn' \in HostNos
    BY DEF Collecting
  <2>2. age[turn'] \in 0 .. HostTimeout
    BY <2>1 DEF TypeOK
  <2> QED
    BY <1>1, <2>2
<1>7. Leaving'
  BY <1>1, <1>2 DEF Leaving
<1>8. Connects => FirstRuns'
  <2> SUFFICES ASSUME Connects, NEW h \in HostNos, rows'[h] = "timeout", ~Behind(h)'
               PROVE  work[h] = "run" \/ (work[h] = "over" /\ outcome[h] # "tamper")
    BY <1>1 DEF FirstRuns
  <2>1. CASE h = turn
    <3>1. r = "timeout"
      BY <1>1, <1>2, <2>1 DEF TypeOK
    <3>2. \A g \in 1 .. turn - 1 : rows[g] # "timeout"
      <4> SUFFICES ASSUME NEW g \in 1 .. turn - 1 PROVE rows[g] # "timeout"
        OBVIOUS
      <4>1. g \in HostNos /\ g # turn /\ g \in 1 .. h - 1
        BY <1>2, <2>1 DEF HostNos
      <4>2. rows'[g] # "timeout"
        BY <4>1 DEF Behind
      <4> QED
        BY <1>1, <4>1, <4>2 DEF TypeOK
    <3> QED
      BY <2>1, <3>1, <3>2 DEF Behind
  <2>2. CASE h # turn
    <3>1. rows[h] = "timeout"
      BY <1>1, <2>2 DEF TypeOK
    <3>2. h < turn
      BY <3>1, <1>2 DEF RowsTell, HostNos
    <3>3. ~Behind(h)
      <4> SUFFICES ASSUME NEW g \in 1 .. h - 1, rows[g] = "timeout" PROVE FALSE
        BY DEF Behind
      <4>1. g \in HostNos /\ g # turn
        BY <1>2, <3>2 DEF HostNos
      <4>2. rows'[g] = "timeout"
        BY <1>1, <4>1 DEF TypeOK
      <4> QED
        BY <4>2 DEF Behind
    <3> QED
      BY <3>1, <3>3 DEF FirstRuns
  <2> QED
    BY <2>1, <2>2
<1> QED
  BY <1>3, <1>4, <1>5, <1>6, <1>7, <1>8

LEMMA MainStep ==
  ASSUME IInv, Main \/ Interrupt \/ InterruptLeave PROVE IInv'
<1> USE SizesAssumption
<1>1. CASE TakeRow
  <2> DEFINE r == IF outcome[turn] \in {"yes", "no"} THEN outcome[turn] ELSE "error"
  <2>1. r \in {"yes", "no", "error", "timeout"} /\ r # "timeout"
    OBVIOUS
  <2>2. Collecting /\ Caught(outcome[turn]) /\ AddRow(turn, r)
    BY <1>1 DEF TakeRow
  <2> HIDE DEF r
  <2> QED
    BY <2>1, <2>2, RowStep
<1>2. CASE TimeoutRow
  <2>1. Collecting /\ AddRow(turn, "timeout") /\ turn \in HostNos
    BY <1>2 DEF TimeoutRow, Collecting
  <2>2. ASSUME Connects, ~Behind(turn) PROVE work[turn] = "run"
    <3>1. age[turn] = HostTimeout /\ work[turn] # "over"
      BY <1>2, <2>2, TimeoutIsOwn
    <3>2. HostTimeout > ConnectTime /\ HostTimeout > 0
      BY <2>2 DEF Connects
    <3>3. spent[turn] \in Nat /\ work[turn] \in {"queued", "connect", "run", "over"}
      BY <2>1 DEF IInv, TypeOK
    <3> QED
      BY <2>1, <3>1, <3>2, <3>3 DEF IInv, StepFits
  <2> QED
    BY <2>1, <2>2, RowStep
<1>3. CASE TamperRaises \/ Interrupt \/ AllCollected \/ LeavePool \/ InterruptLeave
  <2>1. UNCHANGED <<turn, waited, rows, work, left, spent, age, hung, outcome>>
    BY <1>3 DEF TamperRaises, Interrupt, AllCollected, LeavePool, InterruptLeave, hosts
  <2>2. TypeOK'
    BY <1>3, <2>1
       DEF IInv, TypeOK, TamperRaises, Interrupt, AllCollected, LeavePool, InterruptLeave
  <2>3. Ordered' /\ StepFits' /\ RowsTell' /\ (Connects => FirstRuns')
    BY <2>1 DEF IInv, Ordered, StepFits, RowsTell, Caught, FirstRuns, Behind
  <2>4. phase' # "collect"
    BY <1>3 DEF TamperRaises, Interrupt, AllCollected, LeavePool, InterruptLeave
  <2>5. Patient'
    BY <2>4 DEF Patient, Collecting
  <2>6. Leaving'
    BY <1>3, <2>1 DEF IInv, Leaving, PoolDone, Collecting,
       TamperRaises, Interrupt, AllCollected, LeavePool, InterruptLeave
  <2> QED
    BY <2>2, <2>3, <2>5, <2>6 DEF IInv
<1> QED
  BY <1>1, <1>2, <1>3 DEF Main

-----------------------------------------------------------------------------
(* Time *)

\* With nobody reported before it, who is waited for is at work when time passes.
LEMMA TurnAtWork ==
  ASSUME IInv, Tick, Collecting, ~Behind(turn)
  PROVE  turn \in Busy
<1> USE DEF IInv
<1>1. turn \in HostNos /\ turn \in Nat
  BY DEF Collecting, HostNos
<1>2. \A g \in HostNos : g < turn => work[g] = "over"
  <2> SUFFICES ASSUME NEW g \in HostNos, g < turn PROVE work[g] = "over"
    OBVIOUS
  <2>1. rows[g] # "timeout"
    <3>1. g \in 1 .. turn - 1
      BY <1>1 DEF HostNos
    <3> QED
      BY <3>1 DEF Behind
  <2> QED
    BY <2>1 DEF RowsTell, Caught, StepFits
<1>3. work[turn] # "over"
  BY <1>1 DEF Tick, Ready, StepFits
<1>4. work[turn] # "queued"
  <2> SUFFICES ASSUME work[turn] = "queued" PROVE FALSE
    OBVIOUS
  <2>1. \A h \in HostNos : h > turn => work[h] = "queued"
    BY <1>1 DEF Ordered
  <2>2. \A h \in HostNos : h < turn \/ h = turn \/ h > turn
    BY <1>1 DEF HostNos
  <2> QED
    BY <1>2, <2>1, <2>2 DEF Tick, Busy
<1> QED
  BY <1>1, <1>3, <1>4 DEF Busy, TypeOK

LEMMA TickStep == ASSUME IInv, Tick PROVE IInv'
<1> USE SizesAssumption DEF IInv
<1>1. UNCHANGED <<phase, turn, rows, failure, work, left, hung, outcome>>
      /\ spent' = [h \in HostNos |-> Later(h)] /\ age' = [h \in HostNos |-> Older(h)]
  BY DEF Tick
<1>2. /\ Collecting => waited' = waited + 1 /\ waited < HostTimeout
      /\ ~Collecting => waited' = waited
  BY DEF Tick
<1>3. \A h \in Busy \ hung : work[h] = "connect" => spent[h] # ConnectTime
  BY DEF Tick, AtLimit, Overdue, Limit
<1>4. ASSUME NEW h \in HostNos
      PROVE  /\ spent[h] \in Nat /\ age[h] \in 0 .. HostTimeout
             /\ h \notin Busy => spent'[h] = spent[h] /\ age'[h] = age[h]
             /\ spent'[h] \in {spent[h], spent[h] + 1}
             /\ age'[h] \in {age[h], age[h] + 1} /\ age'[h] \in 0 .. HostTimeout
             /\ work[h] = "connect" => spent'[h] = spent[h] + 1 /\ spent'[h] <= ConnectTime
             /\ work[h] = "run" => spent'[h] <= CommandTime
             /\ h \in Busy /\ age[h] < HostTimeout => age'[h] = age[h] + 1
  <2>1. spent[h] \in Nat /\ age[h] \in 0 .. HostTimeout
    BY DEF TypeOK
  <2>2. spent'[h] = spent[h] + (IF h \in Busy \ hung /\ ~AtLimit(h) THEN 1 ELSE 0)
        /\ age'[h] = age[h] + (IF h \in Busy /\ age[h] < HostTimeout THEN 1 ELSE 0)
    BY <1>1 DEF Later, Older
  <2>3. work[h] = "connect" => h \in Busy \ hung /\ spent[h] <= ConnectTime
                               /\ Limit(h) = ConnectTime
    BY DEF Busy, StepFits, Limit
  <2>4. work[h] = "run" => spent[h] <= CommandTime /\ Limit(h) = CommandTime
    BY DEF StepFits, Limit
  <2>5. work[h] = "connect" => spent'[h] = spent[h] + 1 /\ spent'[h] <= ConnectTime
    BY <1>3, <2>1, <2>2, <2>3 DEF AtLimit
  <2>6. work[h] = "run" => spent'[h] <= CommandTime
    BY <2>1, <2>2, <2>4 DEF AtLimit
  <2> QED
    BY <2>1, <2>2, <2>5, <2>6
<1>5. TypeOK'
  <2>1. waited' \in 0 .. HostTimeout
    BY <1>2 DEF TypeOK
  <2>2. \A h \in HostNos : spent'[h] \in 0 .. ConnectTime + CommandTime
    <3> SUFFICES ASSUME NEW h \in HostNos PROVE spent'[h] \in 0 .. ConnectTime + CommandTime
      OBVIOUS
    <3>1. CASE work[h] \in {"connect", "run"}
      BY <1>4, <3>1
    <3>2. CASE work[h] \notin {"connect", "run"}
      <4>1. h \notin Busy
        BY <3>2 DEF Busy
      <4>2. spent[h] \in 0 .. ConnectTime + CommandTime
        BY DEF TypeOK
      <4> QED
        BY <1>4, <4>1, <4>2
    <3> QED
      BY <3>1, <3>2
  <2>3. spent' \in [HostNos -> 0 .. ConnectTime + CommandTime]
    BY <1>1, <2>2
  <2>4. age' \in [HostNos -> 0 .. HostTimeout]
    BY <1>1, <1>4
  <2> QED
    BY <1>1, <2>1, <2>3, <2>4 DEF TypeOK
<1>6. StepFits'
  <2> SUFFICES ASSUME NEW h \in HostNos
               PROVE  /\ work[h] = "queued" => spent'[h] = 0 /\ age'[h] = 0
                      /\ work[h] = "connect" => spent'[h] <= ConnectTime
                                                /\ age'[h] <= spent'[h]
                      /\ work[h] = "run" => spent'[h] <= CommandTime
    BY <1>1 DEF StepFits
  <2>1. work[h] = "queued" => h \notin Busy /\ spent[h] = 0 /\ age[h] = 0
    BY DEF StepFits, Busy
  <2>2. work[h] = "connect" => age[h] <= spent[h]
    BY DEF StepFits
  <2> QED
    BY <1>4, <2>1, <2>2
<1>7. Ordered' /\ RowsTell' /\ Leaving' /\ (Connects => FirstRuns')
  BY <1>1 DEF Ordered, RowsTell, Leaving, FirstRuns, Behind, PoolDone, Caught
<1>8. Patient'
  <2> SUFFICES ASSUME Collecting, work[turn] # "over", ~Behind(turn)
               PROVE  waited' <= age'[turn]
    BY <1>1 DEF Patient, Collecting, Behind
  <2>1. turn \in HostNos /\ turn \in Busy
    BY TurnAtWork DEF Collecting
  <2>2. waited <= age[turn] /\ waited \in Nat /\ waited' = waited + 1 /\ waited < HostTimeout
    BY <1>2 DEF Patient, TypeOK
  <2> QED
    BY <1>4, <2>1, <2>2
<1> QED
  BY <1>5, <1>6, <1>7, <1>8

LEMMA NextOK == IInv /\ [Next]_vars => IInv'
<1> SUFFICES ASSUME IInv, [Next]_vars PROVE IInv'
  OBVIOUS
<1>1. CASE UNCHANGED vars
  BY <1>1 DEF vars, IInv, TypeOK, Ordered, StepFits, RowsTell, Patient, Leaving,
     FirstRuns, Behind, Collecting, PoolDone, Caught
<1> QED
  BY <1>1, HostStep, MainStep, TickStep DEF Next

-----------------------------------------------------------------------------
(* Theorems *)

\* The values the pool and the main thread can have, for any sizes and every fault.
THEOREM TypeCorrect == Spec => []TypeOK
<1>1. IInv => TypeOK
  BY DEF IInv
<1> QED
  BY <1>1, InitOK, NextOK, PTL DEF Spec

\* The first host that is reported as one without a response has been at work for the
\* whole timeout (utils/task_runner.py:366-370): whatever the limits, the number of
\* hosts, workers and commands, and however long a command takes.
THEOREM TimeoutsEarned == Spec => TimeoutsAreEarned
<1> DEFINE Earned ==
      \A h \in HostNos :
        rows[h] = "none" /\ rows'[h] = "timeout"
          => age[h] = HostTimeout \/ \E g \in 1 .. h - 1 : rows[g] = "timeout"
<1>1. IInv /\ [Next]_vars => [Earned]_vars
  <2> SUFFICES ASSUME IInv, Next, NEW h \in HostNos, rows[h] = "none", rows'[h] = "timeout",
                      ~Behind(h)
               PROVE  age[h] = HostTimeout
    BY DEF Behind
  <2>1. rows' # rows
    BY DEF IInv, TypeOK
  <2>2. TakeRow \/ TimeoutRow
    BY <2>1 DEF Next, Host, StartHost, ConnectFails, HostRaises, HostTampered, Connected,
       CommandEnds, LastCommandEnds, CommandHangs, Finish, Main, TamperRaises, AllCollected,
       LeavePool, Interrupt, InterruptLeave, Tick, main
  <2>3. ~TakeRow /\ h = turn
    BY <2>2 DEF TakeRow, TimeoutRow, AddRow, IInv, TypeOK
  <2> QED
    BY <2>2, <2>3, TimeoutIsOwn
<1>2. Spec => []IInv
  BY InitOK, NextOK, PTL DEF Spec
<1> QED
  BY <1>1, <1>2, PTL DEF Spec, TimeoutsAreEarned

\* Whatever was left for, the menu comes back only when no host is at work or queued,
\* unless Ctrl+C cuts the leaving of the pool short.
THEOREM MenuIsIdle == Spec => []MenuMeansIdle
<1>1. IInv => MenuMeansIdle
  BY DEF IInv, Leaving, MenuMeansIdle, PoolDone, Busy, Queued
<1> QED
  BY <1>1, InitOK, NextOK, PTL DEF Spec

\* An alarm of the key store in a worker is hidden by no row of its own, as long as
\* connect(), where alarms arise, is shorter than the timeout (some minutes of 3675 s):
\* for commands of any number and length.
THEOREM TamperIsSeen == ASSUME Connects PROVE Spec => []TamperEndsProcess
<1>1. IInv => TamperEndsProcess
  <2> SUFFICES ASSUME IInv, phase = "menu", failure = "none", NEW h \in HostNos,
                      outcome[h] = "tamper", ~Behind(h)
               PROVE  FALSE
    BY DEF TamperEndsProcess, Behind
  <2>1. turn = N + 1 /\ PoolDone
    BY DEF IInv, Leaving
  <2>2. rows[h] # "timeout"
    BY <2>1 DEF IInv, FirstRuns, PoolDone
  <2>3. h < turn
    BY <2>1, SizesAssumption DEF HostNos
  <2> QED
    BY <2>2, <2>3 DEF IInv, RowsTell, Caught
<1> QED
  BY <1>1, InitOK, NextOK, PTL DEF Spec
=============================================================================
