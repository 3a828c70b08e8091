--------------------------- MODULE PatchJobProofs ---------------------------
(***************************************************************************)
(* Proofs about PatchJob, for any number of jobs, users, hosts and workers *)
(* and with every fault.                                                   *)
(***************************************************************************)
EXTENDS PatchJob, FiniteSetTheorems, TLAPS

\* The hosts whose patch is over and counted.
Through(j) == {h \in HostNos : work[j][h] \in {"counted", "ok"}}

AllOk(j) == \A h \in HostNos : work[j][h] = "ok"

\* Where the job's thread is, against what the registry says of the job.
StatusFits(j) ==
  /\ phase[j] = "off" => status[j] \in {"none", "running"}
  /\ phase[j] \in {"precheck", "patch", "report"} => status[j] = "running"
  /\ failure[j] # "none" => phase[j] \in {"precheck", "patch", "ended"}
  /\ phase[j] = "ended" => status[j] # "none"

\* The results taken so far were fine; after the last pool nobody is at work.
ResultsFit(j) ==
  /\ phase[j] = "off" => work[j] = AllQueued /\ turn[j] = 1
  /\ phase[j] \in {"precheck", "patch"} =>
       \A h \in HostNos : h < turn[j] => work[j][h] = "ok"
  /\ phase[j] \in {"report", "ended"} =>
       \A h \in HostNos : work[j][h] \notin {"busy", "counted"}
  /\ phase[j] = "report" \/ status[j] = "done" => counted[j] = N /\ AllOk(j)

\* The thread's count, what the workers carry of it and what is published.
CountFits(j) ==
  /\ phase[j] \in {"off", "precheck"} =>
       counted[j] = 0 /\ \A h \in HostNos : work[j][h] # "counted"
  /\ phase[j] = "patch" => counted[j] = Cardinality(Through(j))
  /\ published[j] <= counted[j]
  /\ \A h \in HostNos : work[j][h] = "counted" => carried[j][h] <= counted[j]

JobInv(j) == StatusFits(j) /\ ResultsFit(j) /\ CountFits(j)

\* A job that waits for its thread is registered and has done nothing.
MainFits == main # Menu => phase[main] = "off" /\ status[main] = "running"

IInv == TypeOK /\ OneRunningJob /\ MainFits /\ \A j \in Jobs : JobInv(j)

-----------------------------------------------------------------------------
(* Counting hosts *)

\* The hosts through are finitely many, at most N.
LEMMA ThroughFinite ==
  ASSUME NEW j \in Jobs
  PROVE  /\ IsFiniteSet(Through(j))
         /\ Cardinality(Through(j)) \in 0 .. N
<1>1. IsFiniteSet(HostNos) /\ Cardinality(HostNos) = N
  BY FS_Interval, SizesAssumption DEF HostNos
<1>2. Through(j) \in SUBSET HostNos
  BY DEF Through
<1>3. IsFiniteSet(Through(j)) /\ Cardinality(Through(j)) <= N
  BY <1>1, <1>2, FS_Subset
<1>4. Cardinality(Through(j)) \in Nat
  BY <1>3, FS_CardinalityType
<1> QED
  BY <1>3, <1>4, SizesAssumption

\* No host is through in a fresh pool, all are when all results were fine.
LEMMA ThroughExtremes ==
  ASSUME NEW j \in Jobs
  PROVE  /\ (\A h \in HostNos : work[j][h] \notin {"counted", "ok"}) =>
              Cardinality(Through(j)) = 0
         /\ AllOk(j) => Cardinality(Through(j)) = N
<1>1. ASSUME \A h \in HostNos : work[j][h] \notin {"counted", "ok"}
      PROVE  Cardinality(Through(j)) = 0
  BY <1>1, FS_EmptySet DEF Through
<1>2. ASSUME AllOk(j) PROVE Cardinality(Through(j)) = N
  <2>1. Through(j) = 1 .. N
    BY <1>2 DEF AllOk, Through, HostNos
  <2> QED
    BY <2>1, FS_Interval, SizesAssumption
<1> QED
  BY <1>1, <1>2

\* One more host through: there was room for it.
LEMMA OneMoreThrough ==
  ASSUME NEW j \in Jobs, NEW h \in HostNos, h \notin Through(j),
         Through(j)' = Through(j) \union {h}
  PROVE  /\ Cardinality(Through(j)') = Cardinality(Through(j)) + 1
         /\ Cardinality(Through(j)) + 1 <= N
<1>1. Cardinality(Through(j) \union {h}) = Cardinality(Through(j)) + 1
  BY ThroughFinite, FS_AddElement
<1>2. IsFiniteSet(HostNos) /\ Cardinality(HostNos) = N
  BY FS_Interval, SizesAssumption DEF HostNos
<1>3. Through(j) \union {h} \in SUBSET HostNos
  BY DEF Through
<1>4. Cardinality(Through(j) \union {h}) <= N
  BY <1>2, <1>3, FS_Subset
<1> QED
  BY <1>1, <1>4

\* Every worker and the thread of a job leave the other jobs alone.
LEMMA Frame ==
  ASSUME NEW i \in Jobs, JobInv(i),
         status'[i] = status[i], published'[i] = published[i],
         counted'[i] = counted[i], phase'[i] = phase[i], turn'[i] = turn[i],
         failure'[i] = failure[i], work'[i] = work[i], carried'[i] = carried[i]
  PROVE  JobInv(i)'
<1>1. Through(i)' = Through(i)
  BY DEF Through
<1> QED
  BY <1>1 DEF JobInv, StatusFits, ResultsFit, CountFits, AllOk

-----------------------------------------------------------------------------
(* The invariant *)

LEMMA InitInvariant == Init => IInv
<1> SUFFICES ASSUME Init PROVE IInv
  OBVIOUS
<1>1. TypeOK
  <2>1. NoOwner \in Owners
    BY DEF NoOwner, Owners
  <2>2. AllQueued \in [HostNos -> {"queued", "busy", "counted", "ok", "error",
                                  "tamper", "cancelled"}]
    BY DEF AllQueued
  <2>3. 0 \in 0 .. N /\ 1 \in 1 .. N + 1
    BY SizesAssumption
  <2>4. Init => [h \in HostNos |-> 0] \in [HostNos -> 0 .. N]
    BY <2>3
  <2> HIDE DEF NoOwner, AllQueued
  <2> QED
    BY <2>1, <2>2, <2>3, <2>4 DEF Init, TypeOK
<1>2. OneRunningJob /\ MainFits
  BY DEF Init, OneRunningJob, MainFits
<1>3. ASSUME NEW j \in Jobs PROVE JobInv(j)
  <2>1. \A h \in HostNos : work[j][h] = "queued"
    BY DEF Init, AllQueued
  <2> QED
    BY <2>1 DEF Init, JobInv, StatusFits, ResultsFit, CountFits
<1> QED
  BY <1>1, <1>2, <1>3 DEF IInv

\* Nothing of job i changes.
Untouched(i) ==
  /\ status'[i] = status[i] /\ published'[i] = published[i]
  /\ counted'[i] = counted[i] /\ phase'[i] = phase[i]
  /\ turn'[i] = turn[i] /\ failure'[i] = failure[i]
  /\ work'[i] = work[i] /\ carried'[i] = carried[i]

\* A step of job j: what is left to show for it.
LEMMA JobStep ==
  ASSUME NEW j \in Jobs, IInv, TypeOK', OneRunningJob', MainFits', JobInv(j)',
         \A i \in Jobs \ {j} : Untouched(i)
  PROVE  IInv'
<1>1. ASSUME NEW i \in Jobs, i # j PROVE JobInv(i)'
  BY <1>1, Frame DEF IInv, Untouched
<1> QED
  BY <1>1 DEF IInv

\* A step that leaves the registry and the main thread alone and is none of a
\* job that waits for its thread.
LEMMA InnerStep ==
  ASSUME IInv, NEW j \in Jobs, phase[j] # "off",
         status' = status, owner' = owner, main' = main,
         \A i \in Jobs \ {j} : Untouched(i)
  PROVE  OneRunningJob' /\ MainFits'
<1>1. OneRunningJob'
  BY DEF IInv, OneRunningJob
<1>2. MainFits'
  BY DEF IInv, MainFits, TypeOK, Untouched
<1> QED
  BY <1>1, <1>2

-----------------------------------------------------------------------------
(* The workers *)

\* The next host starts, or its SSHClient() raises.
LEMMA StartHostKeeps ==
  ASSUME IInv, NEW j \in Jobs, NEW h \in HostNos, StartHost(j, h)
  PROVE  IInv'
<1>0. TypeOK /\ JobInv(j) /\ phase[j] # "off"
  BY DEF IInv, StartHost, SetWork, JobInv, StatusFits, ResultsFit, CountFits, TypeOK, AllQueued
<1>1. \A i \in Jobs \ {j} : Untouched(i)
  BY <1>0 DEF StartHost, SetWork, Untouched, TypeOK, registry, thread, pool
<1>2. TypeOK'
  BY <1>0 DEF StartHost, SetWork, TypeOK, operator, registry, thread, pool
<1>3. OneRunningJob' /\ MainFits'
  BY <1>0, <1>1, InnerStep DEF StartHost, SetWork, operator, registry
<1>4. JobInv(j)'
  <2>1. Through(j)' = Through(j)
    BY <1>0 DEF StartHost, SetWork, Through, TypeOK, pool
  <2>2. StatusFits(j)'
    BY <1>0 DEF StartHost, SetWork, JobInv, StatusFits, TypeOK, registry, thread
  <2>3. ResultsFit(j)'
    BY <1>0 DEF StartHost, SetWork, JobInv, StatusFits, ResultsFit, AllOk, TypeOK, registry, thread, pool
  <2>4. CountFits(j)'
    BY <1>0, <2>1 DEF StartHost, SetWork, JobInv, CountFits, TypeOK, registry, thread, pool
  <2> QED
    BY <2>2, <2>3, <2>4 DEF JobInv
<1> QED
  BY <1>1, <1>2, <1>3, <1>4, JobStep

\* A host passes the precheck.
LEMMA PrecheckHostKeeps ==
  ASSUME IInv, NEW j \in Jobs, NEW h \in HostNos, PrecheckHost(j, h)
  PROVE  IInv'
<1>0. TypeOK /\ JobInv(j) /\ phase[j] # "off"
  BY DEF IInv, PrecheckHost, SetWork, JobInv, StatusFits, ResultsFit, CountFits, TypeOK, AllQueued
<1>1. \A i \in Jobs \ {j} : Untouched(i)
  BY <1>0 DEF PrecheckHost, SetWork, Untouched, TypeOK, registry, thread, pool
<1>2. TypeOK'
  BY <1>0 DEF PrecheckHost, SetWork, TypeOK, operator, registry, thread, pool
<1>3. OneRunningJob' /\ MainFits'
  BY <1>0, <1>1, InnerStep DEF PrecheckHost, SetWork, operator, registry
<1>4. JobInv(j)'
  <2>2. StatusFits(j)'
    BY <1>0 DEF PrecheckHost, SetWork, JobInv, StatusFits, TypeOK, registry, thread
  <2>3. ResultsFit(j)'
    BY <1>0 DEF PrecheckHost, SetWork, JobInv, StatusFits, ResultsFit, AllOk, TypeOK, registry, thread, pool
  <2>4. CountFits(j)'
    BY <1>0 DEF PrecheckHost, SetWork, JobInv, CountFits, TypeOK, registry, thread, pool
  <2> QED
    BY <2>2, <2>3, <2>4 DEF JobInv
<1> QED
  BY <1>1, <1>2, <1>3, <1>4, JobStep

\* A host ends in an exception.
LEMMA HostRaisesKeeps ==
  ASSUME IInv, NEW j \in Jobs, NEW h \in HostNos, HostRaises(j, h)
  PROVE  IInv'
<1>0. TypeOK /\ JobInv(j) /\ phase[j] # "off"
  BY DEF IInv, HostRaises, SetWork, JobInv, StatusFits, ResultsFit, CountFits, TypeOK, AllQueued
<1>1. \A i \in Jobs \ {j} : Untouched(i)
  BY <1>0 DEF HostRaises, SetWork, Untouched, TypeOK, registry, thread, pool
<1>2. TypeOK'
  BY <1>0 DEF HostRaises, SetWork, TypeOK, operator, registry, thread, pool
<1>3. OneRunningJob' /\ MainFits'
  BY <1>0, <1>1, InnerStep DEF HostRaises, SetWork, operator, registry
<1>4. JobInv(j)'
  <2>1. Through(j)' = Through(j)
    BY <1>0 DEF HostRaises, SetWork, Through, TypeOK, pool
  <2>2. StatusFits(j)'
    BY <1>0 DEF HostRaises, SetWork, JobInv, StatusFits, TypeOK, registry, thread
  <2>3. ResultsFit(j)'
    BY <1>0 DEF HostRaises, SetWork, JobInv, StatusFits, ResultsFit, AllOk, TypeOK, registry, thread, pool
  <2>4. CountFits(j)'
    BY <1>0, <2>1 DEF HostRaises, SetWork, JobInv, CountFits, TypeOK, registry, thread, pool
  <2> QED
    BY <2>2, <2>3, <2>4 DEF JobInv
<1> QED
  BY <1>1, <1>2, <1>3, <1>4, JobStep

\* A host ends in the tamper alarm.
LEMMA HostTamperedKeeps ==
  ASSUME IInv, NEW j \in Jobs, NEW h \in HostNos, HostTampered(j, h)
  PROVE  IInv'
<1>0. TypeOK /\ JobInv(j) /\ phase[j] # "off"
  BY DEF IInv, HostTampered, SetWork, JobInv, StatusFits, ResultsFit, CountFits, TypeOK, AllQueued
<1>1. \A i \in Jobs \ {j} : Untouched(i)
  BY <1>0 DEF HostTampered, SetWork, Untouched, TypeOK, registry, thread, pool
<1>2. TypeOK'
  BY <1>0 DEF HostTampered, SetWork, TypeOK, operator, registry, thread, pool
<1>3. OneRunningJob' /\ MainFits'
  BY <1>0, <1>1, InnerStep DEF HostTampered, SetWork, operator, registry
<1>4. JobInv(j)'
  <2>1. Through(j)' = Through(j)
    BY <1>0 DEF HostTampered, SetWork, Through, TypeOK, pool
  <2>2. StatusFits(j)'
    BY <1>0 DEF HostTampered, SetWork, JobInv, StatusFits, TypeOK, registry, thread
  <2>3. ResultsFit(j)'
    BY <1>0 DEF HostTampered, SetWork, JobInv, StatusFits, ResultsFit, AllOk, TypeOK, registry, thread, pool
  <2>4. CountFits(j)'
    BY <1>0, <2>1 DEF HostTampered, SetWork, JobInv, CountFits, TypeOK, registry, thread, pool
  <2> QED
    BY <2>2, <2>3, <2>4 DEF JobInv
<1> QED
  BY <1>1, <1>2, <1>3, <1>4, JobStep

\* The registry takes over what the worker carries.
LEMMA PublishProgressKeeps ==
  ASSUME IInv, NEW j \in Jobs, NEW h \in HostNos, PublishProgress(j, h)
  PROVE  IInv'
<1>0. TypeOK /\ JobInv(j) /\ phase[j] # "off"
  BY DEF IInv, PublishProgress, SetWork, JobInv, StatusFits, ResultsFit, CountFits, TypeOK, AllQueued
<1>1. \A i \in Jobs \ {j} : Untouched(i)
  BY <1>0 DEF PublishProgress, SetWork, Untouched, TypeOK, registry, thread, pool
<1>2. TypeOK'
  BY <1>0 DEF PublishProgress, SetWork, TypeOK, operator, registry, thread, pool
<1>3. OneRunningJob' /\ MainFits'
  BY <1>0, <1>1, InnerStep DEF PublishProgress, SetWork, operator, registry
<1>4. JobInv(j)'
  <2>1. Through(j)' = Through(j)
    BY <1>0 DEF PublishProgress, SetWork, Through, TypeOK, pool
  <2>2. StatusFits(j)'
    BY <1>0 DEF PublishProgress, SetWork, JobInv, StatusFits, TypeOK, registry, thread
  <2>3. ResultsFit(j)'
    BY <1>0 DEF PublishProgress, SetWork, JobInv, StatusFits, ResultsFit, AllOk, TypeOK, registry, thread, pool
  <2>4. CountFits(j)'
    BY <1>0, <2>1 DEF PublishProgress, SetWork, JobInv, CountFits, TypeOK, registry, thread, pool
  <2> QED
    BY <2>2, <2>3, <2>4 DEF JobInv
<1> QED
  BY <1>1, <1>2, <1>3, <1>4, JobStep

\* A host is through and counted: the count follows the hosts.
LEMMA PatchHostKeeps ==
  ASSUME IInv, NEW j \in Jobs, NEW h \in HostNos, PatchHost(j, h)
  PROVE  IInv'
<1>0. TypeOK /\ JobInv(j) /\ phase[j] # "off"
  BY DEF IInv, PatchHost, SetWork, Counted, JobInv, StatusFits, ResultsFit, CountFits, TypeOK, AllQueued
<1>1. \A i \in Jobs \ {j} : Untouched(i)
  BY <1>0 DEF PatchHost, SetWork, Counted, Untouched, TypeOK, registry, thread, pool
<1>2. TypeOK'
  <2>1. /\ h \notin Through(j)
        /\ Through(j)' = Through(j) \union {h}
    BY <1>0 DEF PatchHost, SetWork, Counted, Through, TypeOK
  <2>2. counted[j] + 1 \in 0 .. N
    BY <1>0, <2>1, OneMoreThrough, ThroughFinite DEF PatchHost, SetWork, Counted, JobInv, CountFits
  <2> QED
    BY <1>0, <2>2 DEF PatchHost, SetWork, Counted, TypeOK, operator, registry
<1>3. OneRunningJob' /\ MainFits'
  BY <1>0, <1>1, InnerStep DEF PatchHost, SetWork, Counted, operator, registry
<1>4. JobInv(j)'
  <2>1. /\ h \notin Through(j)
        /\ Through(j)' = Through(j) \union {h}
    BY <1>0 DEF PatchHost, SetWork, Counted, Through, TypeOK
  <2>5. /\ counted[j] = Cardinality(Through(j))
        /\ counted'[j] = Cardinality(Through(j)')
    BY <1>0, <2>1, OneMoreThrough DEF PatchHost, SetWork, Counted, JobInv, CountFits, TypeOK
  <2>2. StatusFits(j)'
    BY <1>0 DEF PatchHost, SetWork, Counted, JobInv, StatusFits, TypeOK, registry, thread
  <2>3. ResultsFit(j)'
    BY <1>0 DEF PatchHost, SetWork, Counted, JobInv, StatusFits, ResultsFit, AllOk, TypeOK, registry, thread, pool
  <2>4. CountFits(j)'
    BY <1>0, <2>5 DEF PatchHost, SetWork, Counted, JobInv, CountFits, TypeOK, registry
  <2> QED
    BY <2>2, <2>3, <2>4 DEF JobInv
<1> QED
  BY <1>1, <1>2, <1>3, <1>4, JobStep

-----------------------------------------------------------------------------
(* The job's thread *)

\* The thread takes a fine result.
LEMMA TakeResultKeeps ==
  ASSUME IInv, NEW j \in Jobs, TakeResult(j)
  PROVE  IInv'
<1>0. TypeOK /\ JobInv(j) /\ phase[j] # "off"
  BY DEF IInv, TakeResult, Collecting, Fine, JobInv, StatusFits, ResultsFit, CountFits, TypeOK, AllQueued
<1>1. \A i \in Jobs \ {j} : Untouched(i)
  BY <1>0 DEF TakeResult, Collecting, Fine, Untouched, TypeOK, registry, thread, pool
<1>2. TypeOK'
  <2>1. turn[j] + 1 \in 1 .. N + 1
    BY SizesAssumption DEF TakeResult, Collecting, Fine, HostNos
  <2> QED
    BY <1>0, <2>1 DEF TakeResult, Collecting, Fine, TypeOK, operator, registry, pool
<1>3. OneRunningJob' /\ MainFits'
  BY <1>0, <1>1, InnerStep DEF TakeResult, Collecting, Fine, operator, registry
<1>4. JobInv(j)'
  <2>1. Through(j)' = Through(j)
    BY <1>0 DEF TakeResult, Collecting, Fine, Through, TypeOK, pool
  <2>2. StatusFits(j)'
    BY <1>0 DEF TakeResult, Collecting, Fine, JobInv, StatusFits, TypeOK, registry, thread
  <2>5. turn'[j] = turn[j] + 1 /\ turn[j] \in Int /\ work[j][turn[j]] = "ok"
    BY <1>0 DEF TakeResult, Collecting, Fine, TypeOK
  <2>6. \A g \in HostNos : g < turn'[j] => g < turn[j] \/ g = turn[j]
    BY <2>5 DEF HostNos
  <2>3. ResultsFit(j)'
    BY <1>0, <2>5, <2>6 DEF TakeResult, Collecting, Fine, JobInv, StatusFits, ResultsFit, registry, pool
  <2>4. CountFits(j)'
    BY <1>0, <2>1 DEF TakeResult, Collecting, Fine, JobInv, CountFits, TypeOK, registry, thread, pool
  <2> QED
    BY <2>2, <2>3, <2>4 DEF JobInv
<1> QED
  BY <1>1, <1>2, <1>3, <1>4, JobStep

\* A result raises and the queue is cancelled.
LEMMA ResultRaisesKeeps ==
  ASSUME IInv, NEW j \in Jobs, ResultRaises(j)
  PROVE  IInv'
<1>0. TypeOK /\ JobInv(j) /\ phase[j] # "off"
  BY DEF IInv, ResultRaises, Collecting, Fine, JobInv, StatusFits, ResultsFit, CountFits, TypeOK, AllQueued
<1>1. \A i \in Jobs \ {j} : Untouched(i)
  BY <1>0 DEF ResultRaises, Collecting, Fine, Untouched, TypeOK, registry, thread, pool
<1>2. TypeOK'
  BY <1>0 DEF ResultRaises, Collecting, Fine, TypeOK, operator, registry, thread, pool
<1>3. OneRunningJob' /\ MainFits'
  BY <1>0, <1>1, InnerStep DEF ResultRaises, Collecting, Fine, operator, registry
<1>4. JobInv(j)'
  <2>1. Through(j)' = Through(j)
    BY <1>0 DEF ResultRaises, Collecting, Fine, Through, TypeOK, pool
  <2>2. StatusFits(j)'
    BY <1>0 DEF ResultRaises, Collecting, Fine, JobInv, StatusFits, TypeOK, registry, thread
  <2>3. ResultsFit(j)'
    BY <1>0 DEF ResultRaises, Collecting, Fine, JobInv, StatusFits, ResultsFit, AllOk, TypeOK, registry, thread, pool
  <2>4. CountFits(j)'
    BY <1>0, <2>1 DEF ResultRaises, Collecting, Fine, JobInv, CountFits, TypeOK, registry, thread, pool
  <2> QED
    BY <2>2, <2>3, <2>4 DEF JobInv
<1> QED
  BY <1>1, <1>2, <1>3, <1>4, JobStep

\* The patch pool cannot be built any more.
LEMMA NoMorePoolsKeeps ==
  ASSUME IInv, NEW j \in Jobs, NoMorePools(j)
  PROVE  IInv'
<1>0. TypeOK /\ JobInv(j) /\ phase[j] # "off"
  BY DEF IInv, NoMorePools, Collecting, JobInv, StatusFits, ResultsFit, CountFits, TypeOK, AllQueued
<1>1. \A i \in Jobs \ {j} : Untouched(i)
  BY <1>0 DEF NoMorePools, Collecting, Untouched, TypeOK, registry, thread, pool
<1>2. TypeOK'
  BY <1>0 DEF NoMorePools, Collecting, TypeOK, operator, registry, thread, pool
<1>3. OneRunningJob' /\ MainFits'
  BY <1>0, <1>1, InnerStep DEF NoMorePools, Collecting, operator, registry
<1>4. JobInv(j)'
  <2>1. Through(j)' = Through(j)
    BY <1>0 DEF NoMorePools, Collecting, Through, TypeOK, pool
  <2>2. StatusFits(j)'
    BY <1>0 DEF NoMorePools, Collecting, JobInv, StatusFits, TypeOK, registry, thread
  <2>3. ResultsFit(j)'
    BY <1>0 DEF NoMorePools, Collecting, JobInv, StatusFits, ResultsFit, AllOk, TypeOK, registry, thread, pool
  <2>4. CountFits(j)'
    BY <1>0, <2>1 DEF NoMorePools, Collecting, JobInv, CountFits, TypeOK, registry, thread, pool
  <2> QED
    BY <2>2, <2>3, <2>4 DEF JobInv
<1> QED
  BY <1>1, <1>2, <1>3, <1>4, JobStep

\* The thread ends without a word to the registry.
LEMMA ThreadExitsKeeps ==
  ASSUME IInv, NEW j \in Jobs, ThreadExits(j)
  PROVE  IInv'
<1>0. TypeOK /\ JobInv(j) /\ phase[j] # "off"
  BY DEF IInv, ThreadExits, PoolEmpty, InPool, JobInv, StatusFits, ResultsFit, CountFits, TypeOK, AllQueued
<1>1. \A i \in Jobs \ {j} : Untouched(i)
  BY <1>0 DEF ThreadExits, PoolEmpty, InPool, Untouched, TypeOK, registry, thread, pool
<1>2. TypeOK'
  BY <1>0 DEF ThreadExits, PoolEmpty, InPool, TypeOK, operator, registry, thread, pool
<1>3. OneRunningJob' /\ MainFits'
  BY <1>0, <1>1, InnerStep DEF ThreadExits, PoolEmpty, InPool, operator, registry
<1>4. JobInv(j)'
  <2>1. Through(j)' = Through(j)
    BY <1>0 DEF ThreadExits, PoolEmpty, InPool, Through, TypeOK, pool
  <2>2. StatusFits(j)'
    BY <1>0 DEF ThreadExits, PoolEmpty, InPool, JobInv, StatusFits, TypeOK, registry, thread
  <2>3. ResultsFit(j)'
    BY <1>0 DEF ThreadExits, PoolEmpty, InPool, JobInv, StatusFits, ResultsFit, AllOk, TypeOK, registry, thread, pool
  <2>4. CountFits(j)'
    BY <1>0, <2>1 DEF ThreadExits, PoolEmpty, InPool, JobInv, CountFits, TypeOK, registry, thread, pool
  <2> QED
    BY <2>2, <2>3, <2>4 DEF JobInv
<1> QED
  BY <1>1, <1>2, <1>3, <1>4, JobStep

\* The registry learns of the failure.
LEMMA FinishFailedKeeps ==
  ASSUME IInv, NEW j \in Jobs, FinishFailed(j)
  PROVE  IInv'
<1>0. TypeOK /\ JobInv(j) /\ phase[j] # "off"
  BY DEF IInv, FinishFailed, FinishJob, PoolEmpty, InPool, JobInv, StatusFits, ResultsFit, CountFits, TypeOK, AllQueued
<1>1. \A i \in Jobs \ {j} : Untouched(i)
  BY <1>0 DEF FinishFailed, FinishJob, PoolEmpty, InPool, Untouched, TypeOK, registry, thread, pool
<1>2. TypeOK'
  BY <1>0 DEF FinishFailed, FinishJob, PoolEmpty, InPool, TypeOK, operator, registry, thread, pool
<1>3. OneRunningJob' /\ MainFits'
  <2>1. OneRunningJob'
    BY <1>0 DEF IInv, FinishFailed, FinishJob, PoolEmpty, InPool, OneRunningJob, TypeOK
  <2>2. MainFits'
    BY <1>0 DEF IInv, FinishFailed, FinishJob, PoolEmpty, InPool, MainFits, TypeOK, operator
  <2> QED
    BY <2>1, <2>2
<1>4. JobInv(j)'
  <2>1. Through(j)' = Through(j)
    BY <1>0 DEF FinishFailed, FinishJob, PoolEmpty, InPool, Through, TypeOK, pool
  <2>2. StatusFits(j)'
    BY <1>0 DEF FinishFailed, FinishJob, PoolEmpty, InPool, JobInv, StatusFits, TypeOK, registry, thread
  <2>3. ResultsFit(j)'
    BY <1>0 DEF FinishFailed, FinishJob, PoolEmpty, InPool, JobInv, StatusFits, ResultsFit, AllOk, TypeOK, registry, thread, pool
  <2>4. CountFits(j)'
    BY <1>0, <2>1 DEF FinishFailed, FinishJob, PoolEmpty, InPool, JobInv, CountFits, TypeOK, registry, thread, pool
  <2> QED
    BY <2>2, <2>3, <2>4 DEF JobInv
<1> QED
  BY <1>1, <1>2, <1>3, <1>4, JobStep

\* The registry learns of the success.
LEMMA FinishDoneKeeps ==
  ASSUME IInv, NEW j \in Jobs, FinishDone(j)
  PROVE  IInv'
<1>0. TypeOK /\ JobInv(j) /\ phase[j] # "off"
  BY DEF IInv, FinishDone, FinishJob, JobInv, StatusFits, ResultsFit, CountFits, TypeOK, AllQueued
<1>1. \A i \in Jobs \ {j} : Untouched(i)
  BY <1>0 DEF FinishDone, FinishJob, Untouched, TypeOK, registry, thread, pool
<1>2. TypeOK'
  BY <1>0 DEF FinishDone, FinishJob, TypeOK, operator, registry, thread, pool
<1>3. OneRunningJob' /\ MainFits'
  <2>1. OneRunningJob'
    BY <1>0 DEF IInv, FinishDone, FinishJob, OneRunningJob, TypeOK
  <2>2. MainFits'
    BY <1>0 DEF IInv, FinishDone, FinishJob, MainFits, TypeOK, operator
  <2> QED
    BY <2>1, <2>2
<1>4. JobInv(j)'
  <2>1. Through(j)' = Through(j)
    BY <1>0 DEF FinishDone, FinishJob, Through, TypeOK, pool
  <2>2. StatusFits(j)'
    BY <1>0 DEF FinishDone, FinishJob, JobInv, StatusFits, TypeOK, registry, thread
  <2>3. ResultsFit(j)'
    BY <1>0 DEF FinishDone, FinishJob, JobInv, StatusFits, ResultsFit, AllOk, TypeOK, registry, thread, pool
  <2>4. CountFits(j)'
    BY <1>0, <2>1 DEF FinishDone, FinishJob, JobInv, CountFits, TypeOK, registry, thread, pool
  <2> QED
    BY <2>2, <2>3, <2>4 DEF JobInv
<1> QED
  BY <1>1, <1>2, <1>3, <1>4, JobStep

\* The patch pool starts with an empty slate.
LEMMA StartPatchingKeeps ==
  ASSUME IInv, NEW j \in Jobs, StartPatching(j)
  PROVE  IInv'
<1>0. TypeOK /\ JobInv(j) /\ phase[j] # "off"
  BY DEF IInv, StartPatching, Collecting, JobInv, StatusFits, ResultsFit, CountFits, TypeOK, AllQueued
<1>1. \A i \in Jobs \ {j} : Untouched(i)
  BY <1>0 DEF StartPatching, Collecting, Untouched, TypeOK, registry, thread, pool
<1>2. TypeOK'
  <2>1. AllQueued \in [HostNos -> {"queued", "busy", "counted", "ok", "error",
                                  "tamper", "cancelled"}]
    BY DEF AllQueued
  <2>2. 1 \in 1 .. N + 1
    BY SizesAssumption
  <2> HIDE DEF AllQueued
  <2> QED
    BY <1>0, <2>1, <2>2 DEF StartPatching, Collecting, TypeOK, operator, registry
<1>3. OneRunningJob' /\ MainFits'
  BY <1>0, <1>1, InnerStep DEF StartPatching, Collecting, operator, registry
<1>4. JobInv(j)'
  <2>1. \A h \in HostNos : work'[j][h] = "queued"
    BY <1>0 DEF StartPatching, Collecting, AllQueued, TypeOK
  <2>5. Cardinality(Through(j)') = 0
    BY <2>1, FS_EmptySet DEF Through
  <2>2. StatusFits(j)'
    BY <1>0 DEF StartPatching, Collecting, JobInv, StatusFits, TypeOK, registry, thread
  <2>3. ResultsFit(j)'
    BY <1>0, <2>1 DEF StartPatching, Collecting, JobInv, StatusFits, ResultsFit, AllOk, TypeOK, registry, HostNos
  <2>4. CountFits(j)'
    BY <1>0, <2>1, <2>5 DEF StartPatching, Collecting, JobInv, CountFits, TypeOK, registry
  <2> QED
    BY <2>2, <2>3, <2>4 DEF JobInv
<1> QED
  BY <1>1, <1>2, <1>3, <1>4, JobStep

\* All results of the patch pool were fine: every host is through.
LEMMA PatchingEndsKeeps ==
  ASSUME IInv, NEW j \in Jobs, PatchingEnds(j)
  PROVE  IInv'
<1>0. TypeOK /\ JobInv(j) /\ phase[j] # "off"
  BY DEF IInv, PatchingEnds, Collecting, JobInv, StatusFits, ResultsFit, CountFits, TypeOK, AllQueued
<1>1. \A i \in Jobs \ {j} : Untouched(i)
  BY <1>0 DEF PatchingEnds, Collecting, Untouched, TypeOK, registry, thread, pool
<1>2. TypeOK'
  BY <1>0 DEF PatchingEnds, Collecting, TypeOK, operator, registry, thread, pool
<1>3. OneRunningJob' /\ MainFits'
  BY <1>0, <1>1, InnerStep DEF PatchingEnds, Collecting, operator, registry
<1>4. JobInv(j)'
  <2>1. AllOk(j)
    BY <1>0, SizesAssumption DEF PatchingEnds, Collecting, JobInv, ResultsFit, AllOk, HostNos
  <2>5. counted[j] = N
    BY <1>0, <2>1, ThroughExtremes DEF PatchingEnds, Collecting, JobInv, CountFits
  <2>2. StatusFits(j)'
    BY <1>0 DEF PatchingEnds, Collecting, JobInv, StatusFits, TypeOK, registry, thread
  <2>3. ResultsFit(j)'
    BY <1>0, <2>1, <2>5 DEF PatchingEnds, Collecting, JobInv, StatusFits, ResultsFit, AllOk, TypeOK, registry, pool
  <2>4. CountFits(j)'
    BY <1>0 DEF PatchingEnds, Collecting, JobInv, CountFits, TypeOK, registry, pool
  <2> QED
    BY <2>2, <2>3, <2>4 DEF JobInv
<1> QED
  BY <1>1, <1>2, <1>3, <1>4, JobStep

-----------------------------------------------------------------------------
(* The main thread *)

\* A job is registered: no other one of its owner is running.
LEMMA RegisterKeeps ==
  ASSUME IInv, NEW j \in Jobs, NEW t \in Tasks, Register(j, t)
  PROVE  IInv'
<1>0. TypeOK /\ JobInv(j) /\ phase[j] = "off"
  <2>1. TypeOK /\ StatusFits(j) /\ JobInv(j)
    BY DEF IInv, JobInv
  <2>2. status[j] = "none"
    BY DEF Register
  <2>3. phase[j] \in {"off", "precheck", "patch", "report", "ended"}
    BY <2>1 DEF TypeOK
  <2> QED
    BY <2>1, <2>2, <2>3 DEF StatusFits
<1>1. \A i \in Jobs \ {j} : Untouched(i)
  BY <1>0 DEF Register, Untouched, TypeOK, thread, pool
<1>2. TypeOK'
  <2>1. [user |-> session, task |-> t] \in Owners
    BY <1>0 DEF Register, TypeOK, Owners
  <2> QED
    BY <1>0, <2>1 DEF Register, TypeOK, thread, pool
<1>3. OneRunningJob'
  <2>1. \A i \in Jobs : status[i] = "running" => owner[i] # owner'[j]
    BY <1>0 DEF Register, HasRunningJob, TypeOK
  <2> QED
    BY <1>0, <2>1 DEF IInv, Register, OneRunningJob, TypeOK
<1>4. MainFits'
  BY <1>0 DEF Register, MainFits, TypeOK, thread
<1>5. JobInv(j)'
  <2>1. Through(j)' = Through(j)
    BY <1>0 DEF Register, Through, pool
  <2> QED
    BY <1>0, <2>1 DEF Register, JobInv, StatusFits, ResultsFit, CountFits, AllOk, TypeOK, thread, pool
<1> QED
  BY <1>1, <1>2, <1>3, <1>4, <1>5, JobStep

\* The job's thread starts.
LEMMA LaunchKeeps ==
  ASSUME IInv, NEW j \in Jobs, Launch(j)
  PROVE  IInv'
<1>0. TypeOK /\ JobInv(j) /\ phase[j] = "off" /\ status[j] = "running"
  BY NamesAssumption DEF IInv, Launch, MainFits
<1>1. \A i \in Jobs \ {j} : Untouched(i)
  BY <1>0 DEF Launch, Untouched, TypeOK, registry, pool
<1>2. TypeOK'
  BY <1>0 DEF Launch, TypeOK, registry, pool
<1>3. OneRunningJob' /\ MainFits'
  BY DEF IInv, Launch, OneRunningJob, MainFits, registry
<1>4. JobInv(j)'
  <2>1. Through(j)' = Through(j)
    BY <1>0 DEF Launch, Through, pool
  <2>2. StatusFits(j)'
    BY <1>0 DEF Launch, JobInv, StatusFits, TypeOK, registry
  <2>3. ResultsFit(j)'
    BY <1>0 DEF Launch, JobInv, StatusFits, ResultsFit, AllOk, TypeOK, registry, pool, HostNos
  <2>4. CountFits(j)'
    BY <1>0, <2>1 DEF Launch, JobInv, CountFits, TypeOK, registry, pool
  <2> QED
    BY <2>2, <2>3, <2>4 DEF JobInv
<1> QED
  BY <1>1, <1>2, <1>3, <1>4, JobStep

\* What the operator does without starting a job leaves the jobs alone.
LEMMA OperatorKeeps ==
  ASSUME IInv,
         \/ \E u \in Users : SignIn(u)
         \/ SignOut \/ Exit
         \/ \E j \in Jobs : InterruptLaunch(j)
         \/ UNCHANGED vars
  PROVE  IInv'
<1>1. /\ UNCHANGED <<tampered, registry, thread, pool>>
      /\ main' = main \/ main' = Menu
      /\ session' \in Users \union {NoUser}
      /\ exiting' \in BOOLEAN /\ (exiting' => session' = NoUser)
  <2>0. /\ main \in Jobs \union {Menu} /\ session \in Users \union {NoUser}
        /\ exiting \in BOOLEAN /\ (exiting => session = NoUser)
    BY DEF IInv, TypeOK
  <2>1. CASE \E u \in Users : SignIn(u)
    BY <2>0, <2>1 DEF SignIn
  <2>2. CASE SignOut \/ Exit
    BY <2>0, <2>2 DEF SignOut, Exit
  <2>3. CASE \E j \in Jobs : InterruptLaunch(j)
    BY <2>0, <2>3 DEF InterruptLaunch
  <2>4. CASE UNCHANGED vars
    BY <2>0, <2>4 DEF vars, registry, thread, pool
  <2> QED
    BY <2>1, <2>2, <2>3, <2>4
<1>2. \A i \in Jobs : Untouched(i)
  BY <1>1 DEF Untouched, registry, thread, pool
<1>3. TypeOK'
  BY <1>1 DEF IInv, TypeOK, registry, thread, pool
<1>4. OneRunningJob' /\ MainFits'
  BY <1>1 DEF IInv, OneRunningJob, MainFits, registry, thread
<1>5. \A i \in Jobs : JobInv(i)'
  BY <1>2, Frame DEF IInv, Untouched
<1> QED
  BY <1>3, <1>4, <1>5 DEF IInv

-----------------------------------------------------------------------------
(* The invariant *)

\* A step of a worker or of a job's own thread keeps the invariant.
LEMMA WorkerKeeps ==
  ASSUME IInv, NEW j \in Jobs, NEW h \in HostNos, Worker(j, h)
  PROVE  IInv'
  BY StartHostKeeps, PrecheckHostKeeps, PatchHostKeeps, PublishProgressKeeps,
     HostRaisesKeeps, HostTamperedKeeps DEF Worker

LEMMA JobThreadKeeps ==
  ASSUME IInv, NEW j \in Jobs, JobThread(j)
  PROVE  IInv'
  BY TakeResultKeeps, ResultRaisesKeeps, StartPatchingKeeps, NoMorePoolsKeeps,
     PatchingEndsKeeps, FinishDoneKeeps, FinishFailedKeeps, ThreadExitsKeeps
  DEF JobThread

LEMMA StepInvariant == IInv /\ [Next]_vars => IInv'
<1> SUFFICES ASSUME IInv, [Next]_vars PROVE IInv'
  OBVIOUS
<1>1. CASE \/ \E u \in Users : SignIn(u)
           \/ SignOut \/ Exit
           \/ \E j \in Jobs : InterruptLaunch(j)
           \/ UNCHANGED vars
  BY <1>1, OperatorKeeps
<1>2. ASSUME NEW j \in Jobs, NEW t \in Tasks, Register(j, t) PROVE IInv'
  BY <1>2, RegisterKeeps
<1>3. ASSUME NEW j \in Jobs, Launch(j) PROVE IInv'
  BY <1>3, LaunchKeeps
<1>4. ASSUME NEW j \in Jobs, NEW h \in HostNos, Worker(j, h) PROVE IInv'
  BY <1>4, WorkerKeeps
<1>5. ASSUME NEW j \in Jobs, JobThread(j) PROVE IInv'
  BY <1>5, JobThreadKeeps
<1> QED
  BY <1>1, <1>2, <1>3, <1>4, <1>5 DEF Next

\* The inductive invariant holds in every reachable state of patch().
THEOREM Invariance == Spec => []IInv
  BY InitInvariant, StepInvariant, PTL DEF Spec

\* Every variable of the jobs, their threads and their pools keeps its type.
THEOREM TypeCorrect == Spec => []TypeOK
<1>1. IInv => TypeOK
  BY DEF IInv
<1> QED
  BY <1>1, Invariance, PTL

\* The look into the registry before a job is registered keeps a user from
\* having two running jobs of one task, though no lock is held in between: only
\* the main thread registers jobs.
THEOREM OneJobPerTask == Spec => []OneRunningJob
<1>1. IInv => OneRunningJob
  BY DEF IInv
<1> QED
  BY <1>1, Invariance, PTL

\* A job that the registry calls done has worked through all its hosts, however
\* its workers were interleaved and whatever was raised in them.
THEOREM DoneMeansDone == Spec => []DoneCoversAllHosts
<1>1. IInv => DoneCoversAllHosts
  BY DEF IInv, JobInv, ResultsFit, AllOk, DoneCoversAllHosts
<1> QED
  BY <1>1, Invariance, PTL

\* The progress that the monitor shows is at most the number of hosts the
\* workers are through with, although they publish it in any order.
THEOREM ProgressTrue == Spec => []ProgressIsReal
<1>1. IInv => ProgressIsReal
  BY DEF IInv, JobInv, CountFits, Through, ProgressIsReal
<1> QED
  BY <1>1, Invariance, PTL

\* A job that has ended stays as it is.
LEMMA EndedStays ==
  ASSUME IInv, [Next]_vars, NEW j \in Jobs, Ended(j)
  PROVE  status'[j] = status[j] /\ published'[j] = published[j] /\ work'[j] = work[j]
<1> DEFINE Still == /\ status'[j] = status[j] /\ published'[j] = published[j]
                    /\ work'[j] = work[j]
<1> HIDE DEF Still
<1>0. TypeOK /\ StatusFits(j) /\ ResultsFit(j)
  BY DEF IInv, JobInv
<1>1. phase[j] = "ended" /\ \A h \in HostNos : work[j][h] \notin {"busy", "counted"}
  BY <1>0 DEF Ended, StatusFits, ResultsFit, TypeOK
<1>2. ASSUME NEW i \in Jobs, NEW h \in HostNos, Worker(i, h)
      PROVE  Still
  <2>1. phase[i] \in {"precheck", "patch"} \/ work[i][h] \in {"busy", "counted"}
    BY <1>2 DEF Worker, StartHost, PrecheckHost, PatchHost, PublishProgress,
       HostRaises, HostTampered
  <2>2. i # j
    BY <1>1, <2>1
  <2>3. CASE StartHost(i, h)
    BY <1>0, <2>2, <2>3 DEF StartHost, SetWork, registry, TypeOK, Still
  <2>4. CASE PrecheckHost(i, h) \/ PatchHost(i, h)
    BY <1>0, <2>2, <2>4 DEF PrecheckHost, PatchHost, SetWork, registry, TypeOK, Still
  <2>5. CASE PublishProgress(i, h)
    BY <1>0, <2>2, <2>5 DEF PublishProgress, SetWork, TypeOK, Still
  <2>6. CASE HostRaises(i, h) \/ HostTampered(i, h)
    BY <1>0, <2>2, <2>6 DEF HostRaises, HostTampered, SetWork, registry, TypeOK, Still
  <2> QED
    BY <1>2, <2>3, <2>4, <2>5, <2>6 DEF Worker
<1>3. ASSUME NEW i \in Jobs, JobThread(i)
      PROVE  Still
  <2>1. \/ phase[i] \in {"precheck", "patch", "report"}
        \/ failure[i] # "none" /\ phase[i] # "ended"
    BY <1>3 DEF JobThread, Collecting, TakeResult, ResultRaises, StartPatching,
       NoMorePools, PatchingEnds, FinishDone, FinishFailed, ThreadExits
  <2>2. i # j
    BY <1>1, <2>1
  <2>3. CASE TakeResult(i) \/ NoMorePools(i) \/ PatchingEnds(i) \/ ThreadExits(i)
    BY <2>3 DEF TakeResult, NoMorePools, PatchingEnds, ThreadExits, registry, pool, Still
  <2>4. CASE ResultRaises(i) \/ StartPatching(i)
    BY <1>0, <2>2, <2>4 DEF ResultRaises, StartPatching, registry, TypeOK, Still
  <2>5. CASE FinishDone(i) \/ FinishFailed(i)
    BY <1>0, <2>2, <2>5 DEF FinishDone, FinishFailed, FinishJob, pool, TypeOK, Still
  <2> QED
    BY <1>3, <2>3, <2>4, <2>5 DEF JobThread
<1>4. ASSUME NEW i \in Jobs, NEW t \in Tasks, Register(i, t)
      PROVE  Still
  BY <1>0, <1>4 DEF Register, Ended, pool, TypeOK, Still
<1>5. ASSUME NEW i \in Jobs, Launch(i) \/ InterruptLaunch(i)
      PROVE  Still
  BY <1>5 DEF Launch, InterruptLaunch, registry, pool, Still
<1>6. CASE (\E u \in Users : SignIn(u)) \/ SignOut \/ Exit
  BY <1>6 DEF SignIn, SignOut, Exit, registry, pool, Still
<1>7. CASE UNCHANGED vars
  BY <1>7 DEF vars, Still
<1> QED
  BY <1>2, <1>3, <1>4, <1>5, <1>6, <1>7 DEF Next, Still

\* What the registry says of an ended job is final and its pools are at rest:
\* leaving "with ThreadPoolExecutor" has waited for every worker.
THEOREM EndFinal == Spec => EndIsFinal
<1>1. IInv /\ [Next]_vars =>
        [\A j \in Jobs : Ended(j) =>
           /\ status'[j] = status[j] /\ published'[j] = published[j]
           /\ work'[j] = work[j]]_vars
  BY EndedStays
<1> QED
  BY <1>1, Invariance, PTL DEF Spec, EndIsFinal
=============================================================================
