---------------------------- MODULE LogDirProofs ----------------------------
(***************************************************************************)
(* Proofs about what lies in the directory logs/: the state of the login   *)
(* lockout and the log files.                                              *)
(*                                                                         *)
(* Lockout, for any accounts and limits and with every fault: an announced *)
(* lock outlives the process, a success leaves nothing behind, and wrong   *)
(* answers are few or far apart, unless a process ends before its last     *)
(* save is through.                                                        *)
(*                                                                         *)
(* JobLog, for any jobs, lines and sizes and with every fault: the view    *)
(* loses no line behind its first look at the size, the newest entries of  *)
(* the audit log are there, and no log is deleted within the budget.       *)
(***************************************************************************)
EXTENDS Lockout, JobLog, SequenceTheorems, FiniteSetTheorems, TLAPS

-----------------------------------------------------------------------------
(* Login lockout *)

\* The type invariant, variable by variable.
Types ==
  /\ now \in Times
  /\ pc \in Points
  /\ account \in Accounts
  /\ failed \in [Accounts -> 0 .. MaxFailures]
  /\ until \in [Accounts -> 0 .. MaxTime + LockTime]
  /\ disk \in States \union {Empty}
  /\ wrong \in [Accounts -> Seq(Times)] /\ \A a \in Accounts : Len(wrong[a]) <= MaxFailures
  /\ announced \in [Accounts -> 0 .. MaxTime + LockTime]
  /\ saved \in BOOLEAN /\ lost \in BOOLEAN

\* The file would give back what the process knows, once that is saved.
DiskFits ==
  /\ saved => Loaded = Image
  /\ pc \in {"failed", "passed", "failing", "passing"} => ~saved

\* A lock that lasts is in memory, and nobody asks for that account.
LocksKnown ==
  ~lost => /\ \A a \in Accounts : announced[a] > now => until[a] >= announced[a]
           /\ Asked => now >= announced[account]

\* The counter knows every wrong answer, and a success leaves nothing.
Counted ==
  /\ ~lost => \A a \in Accounts : /\ failed[a] = Len(wrong[a])
                                  /\ wrong[a] = <<>> => until[a] = 0
  /\ pc \in {"passed", "passing", "unpack"} => wrong[account] = <<>>

\* The wrong answers come one after the other, and from the one that locks on there
\* is a whole lock between any two.
Spaced ==
  /\ \A a \in Accounts : \A i, k \in DOMAIN wrong[a] : i <= k => wrong[a][i] <= wrong[a][k]
  /\ \A a \in Accounts : \A i \in DOMAIN wrong[a] : wrong[a][i] <= now
  /\ ~lost => \A a \in Accounts : \A i \in DOMAIN wrong[a] :
       i >= MaxAttempts =>
         /\ announced[a] >= wrong[a][i] + LockTime
         /\ i + 1 \in DOMAIN wrong[a] => wrong[a][i + 1] >= wrong[a][i] + LockTime

IInv == Types /\ DiskFits /\ LocksKnown /\ Counted /\ Spaced

LEMMA CleanOK == Clean \in States
BY NumbersAssumption DEF Clean, States

LEMMA StatesParts ==
  ASSUME Types
  PROVE  /\ Image \in States /\ Image # Empty
         /\ Loaded \in States
         /\ Loaded.failed \in [Accounts -> 0 .. MaxFailures]
         /\ Loaded.until \in [Accounts -> 0 .. MaxTime + LockTime]
<1>1. Image \in States
  BY DEF Types, Image, States
<1>2. Image # Empty
  BY <1>1, EmptyAssumption DEF States
<1>3. Loaded \in States
  BY CleanOK DEF Types, Loaded
<1> QED
  BY <1>1, <1>2, <1>3 DEF States

LEMMA InitOK == Init => IInv
<1> SUFFICES ASSUME Init PROVE IInv
  OBVIOUS
<1> USE NumbersAssumption DEF Init
<1>1. Image = Clean /\ Loaded = Clean
  BY DEF Clean, Image, Loaded
<1>2. Types
  <2>1. failed \in [Accounts -> 0 .. MaxFailures] /\ until \in [Accounts -> 0 .. MaxTime + LockTime]
    BY DEF Clean
  <2>2. wrong \in [Accounts -> Seq(Times)] /\ \A a \in Accounts : Len(wrong[a]) <= MaxFailures
    OBVIOUS
  <2>3. announced \in [Accounts -> 0 .. MaxTime + LockTime]
    OBVIOUS
  <2>4. now \in Times /\ account \in Accounts /\ pc \in Points
    BY DEF Times, Accounts, Points
  <2> QED
    BY <2>1, <2>2, <2>3, <2>4 DEF Types
<1>3. DiskFits /\ LocksKnown /\ Counted /\ Spaced
  BY <1>1 DEF DiskFits, LocksKnown, Counted, Spaced, Clean, Asked, Times
<1> QED
  BY <1>2, <1>3 DEF IInv

-----------------------------------------------------------------------------
(* Steps *)

LEMMA StartStep == ASSUME IInv, Start PROVE IInv'
<1> USE NumbersAssumption DEF IInv
<1>1. Types /\ Loaded \in States /\ Loaded = [failed |-> failed', until |-> until']
      /\ failed' \in [Accounts -> 0 .. MaxFailures]
      /\ until' \in [Accounts -> 0 .. MaxTime + LockTime]
  BY StatesParts DEF Start, States
<1>2. Types'
  BY <1>1 DEF Types, Start, Points, Accounts
<1>3. DiskFits'
  BY <1>1 DEF DiskFits, Start, Loaded, Image
<1>4. ~lost' => ~lost /\ failed' = failed /\ until' = until
  <2>1. ~lost' => ~lost /\ saved
    BY Zenon DEF Start
  <2>2. Loaded = Image => failed' = failed /\ until' = until
    BY DEF Start, Image
  <2> QED
    BY <2>1, <2>2 DEF DiskFits
<1>5. LocksKnown'
  <2>1. SUFFICES ASSUME ~lost' PROVE LocksKnown'
    BY DEF LocksKnown
  <2>2. now' = now /\ announced' = announced /\ until' = until /\ account' = Vault
        /\ (Asked' => ~(until'[Vault] > now)) /\ Vault \in Accounts
    BY <1>4, <2>1 DEF Start, Asked, Accounts
  <2>3. \A a \in Accounts : announced[a] > now => until[a] >= announced[a]
    BY <1>4, <2>1 DEF LocksKnown
  <2>4. now \in Nat /\ announced[Vault] \in Nat /\ until[Vault] \in Nat
    BY <1>1, <2>2 DEF Types, Times
  <2> QED
    BY <2>2, <2>3, <2>4 DEF LocksKnown
<1>6. Counted' /\ Spaced'
  <2>1. UNCHANGED <<now, wrong, announced>> /\ pc' \in {"off", "start"}
    BY DEF Start
  <2> QED
    BY <1>4, <2>1 DEF Counted, Spaced
<1> QED
  BY <1>2, <1>3, <1>5, <1>6

\* One wrong answer more, as far as the history tells.
LEMMA OneMoreWrong ==
  ASSUME Types, Fail
  PROVE  /\ wrong' \in [Accounts -> Seq(Times)]
         /\ \A a \in Accounts \ {account} : wrong'[a] = wrong[a]
         /\ Len(wrong'[account]) = Len(wrong[account]) + 1
         /\ \A i \in 1 .. Len(wrong[account]) : wrong'[account][i] = wrong[account][i]
         /\ wrong'[account][Len(wrong[account]) + 1] = now
<1>1. account \in Accounts /\ now \in Times /\ wrong[account] \in Seq(Times)
      /\ wrong' = [wrong EXCEPT ![account] = Append(wrong[account], now)]
  BY DEF Types, Fail
<1>2. /\ Append(wrong[account], now) \in Seq(Times)
      /\ Len(Append(wrong[account], now)) = Len(wrong[account]) + 1
      /\ \A i \in 1 .. Len(wrong[account]) : Append(wrong[account], now)[i] = wrong[account][i]
      /\ Append(wrong[account], now)[Len(wrong[account]) + 1] = now
  BY <1>1, AppendProperties
<1> QED
  BY <1>1, <1>2 DEF Types

LEMMA FailSpaced == ASSUME IInv, Fail PROVE Spaced'
<1> USE NumbersAssumption DEF IInv
<1> DEFINE n == Len(wrong[account])
<1>1. account \in Accounts /\ n \in Nat /\ now \in Nat /\ now' = now /\ lost' = lost
      /\ \A a \in Accounts : wrong[a] \in Seq(Times) /\ announced[a] \in Nat
                           /\ DOMAIN wrong[a] = 1 .. Len(wrong[a]) /\ Len(wrong[a]) \in Nat
                           /\ \A i \in DOMAIN wrong[a] : wrong[a][i] \in Nat
  <2>1. account \in Accounts /\ now \in Nat /\ now' = now /\ lost' = lost
        /\ wrong \in [Accounts -> Seq(Times)] /\ announced \in [Accounts -> 0 .. MaxTime + LockTime]
    BY DEF Types, Fail, Times
  <2> HIDE DEF IInv
  <2> SUFFICES ASSUME NEW a \in Accounts
               PROVE  /\ wrong[a] \in Seq(Times) /\ announced[a] \in Nat
                      /\ DOMAIN wrong[a] = 1 .. Len(wrong[a]) /\ Len(wrong[a]) \in Nat
                      /\ \A i \in DOMAIN wrong[a] : wrong[a][i] \in Nat
    BY <2>1
  <2>2. wrong[a] \in Seq(Times) /\ announced[a] \in Nat
    BY <2>1
  <2>3. DOMAIN wrong[a] = 1 .. Len(wrong[a]) /\ Len(wrong[a]) \in Nat
    BY <2>2, LenProperties
  <2>4. \A i \in DOMAIN wrong[a] : wrong[a][i] \in Nat
    BY <2>2, <2>3, ElementOfSeq DEF Times
  <2> QED
    BY <2>2, <2>3, <2>4
<1>2. /\ DOMAIN wrong'[account] = 1 .. n + 1
      /\ \A a \in Accounts \ {account} : wrong'[a] = wrong[a] /\ announced'[a] = announced[a]
      /\ \A i \in 1 .. n : wrong'[account][i] = wrong[account][i]
      /\ wrong'[account][n + 1] = now
  BY <1>1, OneMoreWrong, LenProperties DEF Types, Fail
<1>3. \A a \in Accounts : \A i, k \in DOMAIN wrong'[a] : i <= k => wrong'[a][i] <= wrong'[a][k]
  <2>1. \A i, k \in 1 .. n : i <= k => wrong'[account][i] <= wrong'[account][k]
    BY <1>1, <1>2 DEF Spaced
  <2>2. \A i \in 1 .. n : wrong'[account][i] <= wrong'[account][n + 1]
    BY <1>1, <1>2 DEF Spaced
  <2>3. \A i, k \in 1 .. n + 1 : i <= k => wrong'[account][i] <= wrong'[account][k]
    <3> DEFINE w == wrong'[account]
    <3>1. n \in Nat /\ w[n + 1] \in Nat
      BY <1>1, <1>2
    <3>2. \A i, k \in 1 .. n : i <= k => w[i] <= w[k]
      BY <2>1
    <3>3. \A i \in 1 .. n : w[i] <= w[n + 1]
      BY <2>2
    <3> HIDE DEF w, n, IInv
    <3>4. \A i \in 1 .. n + 1 : i = n + 1 \/ i \in 1 .. n
      BY <3>1
    <3> SUFFICES ASSUME NEW i \in 1 .. n + 1, NEW k \in 1 .. n + 1, i <= k
                 PROVE  w[i] <= w[k]
      BY DEF w
    <3>5. i = n + 1 => k = n + 1
      BY <3>1
    <3> QED
      BY <3>1, <3>2, <3>3, <3>4, <3>5
  <2> QED
    BY <1>2, <2>3 DEF Spaced
<1>4. \A a \in Accounts : \A i \in DOMAIN wrong'[a] : wrong'[a][i] <= now'
  <2>1. \A i \in 1 .. n : wrong[account][i] <= now
    BY <1>1 DEF Spaced
  <2>2. \A i \in 1 .. n + 1 : wrong'[account][i] <= now
    BY <1>1, <1>2, <2>1
  <2> QED
    BY <1>1, <1>2, <2>2 DEF Spaced
<1>5. ASSUME ~lost
      PROVE  \A a \in Accounts : \A i \in DOMAIN wrong'[a] :
               i >= MaxAttempts =>
                 /\ announced'[a] >= wrong'[a][i] + LockTime
                 /\ i + 1 \in DOMAIN wrong'[a] => wrong'[a][i + 1] >= wrong'[a][i] + LockTime
  <2>1. failed[account] = n
    BY <1>1, <1>5 DEF Counted
  <2>2. n + 1 >= MaxAttempts => announced'[account] = now + LockTime
    BY <1>1, <2>1 DEF Fail, LimitReached, Types
  <2>3. n > 0 => now >= announced[account]
    BY <1>1, <1>5 DEF Fail, LocksKnown, Counted
  <2>4. \A i \in 1 .. n : i >= MaxAttempts => now >= wrong[account][i] + LockTime
    BY <1>1, <1>5, <2>3 DEF Spaced
  <2>5. \A i \in 1 .. n : i >= MaxAttempts /\ i + 1 \in 1 .. n
          => wrong[account][i + 1] >= wrong[account][i] + LockTime
    BY <1>1, <1>5 DEF Spaced
  <2>6. \A i \in 1 .. n + 1 : i >= MaxAttempts =>
          /\ announced'[account] >= wrong'[account][i] + LockTime
          /\ i + 1 \in 1 .. n + 1 => wrong'[account][i + 1] >= wrong'[account][i] + LockTime
    <3> TAKE i \in 1 .. n + 1
    <3> HAVE i >= MaxAttempts
    <3> HIDE DEF n, IInv
    <3>1. n \in Nat /\ now \in Nat
      BY <1>1
    <3>2. n + 1 >= MaxAttempts /\ announced'[account] = now + LockTime
      BY <2>2, <3>1
    <3>3. wrong'[account][i] \in Nat /\ wrong'[account][i] <= now
      <4>1. i = n + 1 \/ i \in 1 .. n
        BY <3>1
      <4>2. wrong'[account][n + 1] = now
        BY <1>2
      <4>3. i \in 1 .. n => wrong'[account][i] = wrong[account][i] /\ wrong[account][i] \in Nat
        BY <1>1, <1>2 DEF n
      <4>4. wrong'[account][i] <= now
        BY <1>1, <1>2, <1>4
      <4> QED
        BY <3>1, <4>1, <4>2, <4>3, <4>4
    <3>4. announced'[account] >= wrong'[account][i] + LockTime
      BY <3>1, <3>2, <3>3
    <3>5. CASE i = n + 1
      BY <3>1, <3>4, <3>5
    <3>6. CASE i = n
      <4>1. n \in 1 .. n /\ n + 1 = i + 1
        BY <3>1, <3>6
      <4>2. now >= wrong[account][n] + LockTime /\ wrong'[account][n] = wrong[account][n]
        BY <1>2, <2>4, <3>6, <4>1
      <4>3. wrong'[account][i + 1] >= wrong'[account][i] + LockTime
        BY <1>2, <3>6, <4>2
      <4> QED
        BY <3>4, <4>3
    <3>7. CASE i < n
      <4>1. i \in 1 .. n /\ i + 1 \in 1 .. n
        BY <3>1, <3>7
      <4>2. wrong'[account][i] = wrong[account][i] /\ wrong'[account][i + 1] = wrong[account][i + 1]
        BY <1>2, <4>1
      <4> QED
        BY <2>5, <3>4, <4>1, <4>2
    <3> QED
      BY <3>1, <3>5, <3>6, <3>7
  <2> QED
    BY <1>2, <1>5, <2>6 DEF Spaced
<1> QED
  BY <1>1, <1>3, <1>4, <1>5 DEF Spaced

LEMMA FailStep == ASSUME IInv, Fail PROVE IInv'
<1> USE NumbersAssumption, StatesParts DEF IInv, Types
<1>1. failed' \in [Accounts -> 0 .. MaxFailures]
  <2>1. failed[account] + 1 \in 0 .. MaxFailures
    BY DEF Fail
  <2>2. failed' = [failed EXCEPT ![account] = failed[account] + 1]
    BY DEF Fail
  <2> QED
    BY <2>1, <2>2
<1>2. until' \in [Accounts -> 0 .. MaxTime + LockTime]
      /\ announced' \in [Accounts -> 0 .. MaxTime + LockTime]
  <2>1. now + LockTime \in 0 .. MaxTime + LockTime
    BY DEF Times
  <2>2. until' \in {until, [until EXCEPT ![account] = now + LockTime]}
        /\ announced' \in {announced, [announced EXCEPT ![account] = now + LockTime]}
    BY DEF Fail, Locked
  <2> QED
    BY <2>1, <2>2
<1>3. wrong' \in [Accounts -> Seq(Times)] /\ \A a \in Accounts : Len(wrong'[a]) <= MaxFailures
  <2>1. account \in Accounts /\ Len(wrong[account]) < MaxFailures /\ Len(wrong[account]) \in Nat
    BY LenProperties DEF Fail
  <2>2. Len(wrong[account]) + 1 <= MaxFailures
    BY <2>1
  <2>3. \A a \in Accounts : a = account \/ wrong'[a] = wrong[a]
    BY OneMoreWrong
  <2>4. Len(wrong'[account]) <= MaxFailures
    BY <2>2, OneMoreWrong
  <2> QED
    BY <2>3, <2>4, OneMoreWrong
<1>4. Types'
  BY <1>1, <1>2, <1>3 DEF Fail, Points, States
<1>5. DiskFits'
  BY DEF DiskFits, Fail
<1>6. LocksKnown'
  BY <1>2 DEF LocksKnown, Fail, Locked, Asked, Times
<1>7. Counted'
  <2>1. Len(wrong'[account]) = Len(wrong[account]) + 1 /\ Len(wrong[account]) \in Nat
        /\ failed'[account] = failed[account] + 1
    BY OneMoreWrong, LenProperties DEF Fail
  <2>2. \A a \in Accounts \ {account} :
          wrong'[a] = wrong[a] /\ failed'[a] = failed[a] /\ until'[a] = until[a]
    BY OneMoreWrong DEF Fail, Locked
  <2>3. wrong'[account] # <<>>
    BY <2>1
  <2>4. lost' = lost /\ pc' = "failed" /\ account' = account
    BY DEF Fail
  <2>5. ~lost => \A a \in Accounts : failed'[a] = Len(wrong'[a]) /\ (wrong'[a] = <<>> => until'[a] = 0)
    BY <2>1, <2>2, <2>3 DEF Counted
  <2> QED
    BY <2>4, <2>5 DEF Counted
<1> QED
  BY <1>4, <1>5, <1>6, <1>7, FailSpaced

LEMMA PassStep == ASSUME IInv, Pass PROVE IInv'
<1> USE NumbersAssumption, StatesParts DEF IInv, Types
<1>1. failed' = [failed EXCEPT ![account] = 0] /\ until' = [until EXCEPT ![account] = 0]
  BY DEF Pass, Forgiven
<1>2. wrong' = [wrong EXCEPT ![account] = <<>>] /\ <<>> \in Seq(Times) /\ Len(<<>>) = 0
  BY DEF Pass
<1>3. failed' \in [Accounts -> 0 .. MaxFailures]
      /\ until' \in [Accounts -> 0 .. MaxTime + LockTime]
  BY <1>1
<1>4. Types'
  <2>1. wrong' \in [Accounts -> Seq(Times)] /\ \A a \in Accounts : Len(wrong'[a]) <= MaxFailures
    BY <1>2
  <2>2. UNCHANGED <<now, account, disk, announced, lost>> /\ pc' = "passed" /\ saved' = FALSE
    BY DEF Pass
  <2> QED
    BY <1>3, <2>1, <2>2 DEF Points, States
<1>5. DiskFits'
  BY DEF DiskFits, Pass
<1>6. LocksKnown'
  BY <1>1 DEF LocksKnown, Pass, Asked, Times
<1>7. /\ UNCHANGED <<now, account, announced, lost>> /\ pc' = "passed"
      /\ \A a \in Accounts \ {account} :
           wrong'[a] = wrong[a] /\ failed'[a] = failed[a] /\ until'[a] = until[a]
      /\ wrong'[account] = <<>> /\ failed'[account] = 0 /\ until'[account] = 0
  BY <1>1, <1>2 DEF Pass
<1>8. Counted'
  <2>1. ~lost => \A a \in Accounts \ {account} :
                   failed[a] = Len(wrong[a]) /\ (wrong[a] = <<>> => until[a] = 0)
    BY DEF Counted
  <2>2. failed'[account] = Len(wrong'[account]) /\ until'[account] = 0
    BY <1>2, <1>7
  <2>3. ~lost => \A a \in Accounts : failed'[a] = Len(wrong'[a]) /\ (wrong'[a] = <<>> => until'[a] = 0)
    BY <1>7, <2>1, <2>2
  <2> QED
    BY <1>7, <2>3 DEF Counted
<1>9. Spaced'
  <2>1. DOMAIN wrong'[account] = {}
    BY <1>2, <1>7, LenProperties
  <2> QED
    BY <1>7, <2>1 DEF Spaced
<1> QED
  BY <1>4, <1>5, <1>6, <1>8, <1>9

LEMMA SaveStep == ASSUME IInv, EmptyFile \/ FillFile \/ SaveFails PROVE IInv'
<1> USE DEF IInv
<1>1. UNCHANGED <<now, account, failed, until, wrong, announced, lost>>
  BY DEF EmptyFile, FillFile, SaveFails, memory, history
<1>2. pc' \in {"failing", "passing", "off", "select", "unpack", "session"}
  BY DEF EmptyFile, FillFile, SaveFails, AfterSave
<1>3. Types'
  BY <1>1, <1>2, StatesParts
     DEF Types, Points, EmptyFile, FillFile, SaveFails, Image, history
<1>4. DiskFits'
  BY <1>1, <1>2, StatesParts
     DEF DiskFits, EmptyFile, FillFile, SaveFails, Loaded, Image, AfterSave, history
<1>5. LocksKnown'
  BY <1>1, <1>2 DEF LocksKnown, Asked
<1>6. pc' \in {"passed", "passing", "unpack"} => pc \in {"passed", "passing", "unpack"}
  BY DEF EmptyFile, FillFile, SaveFails, AfterSave
<1>7. Counted' /\ Spaced'
  BY <1>1, <1>6 DEF Counted, Spaced
<1> QED
  BY <1>3, <1>4, <1>5, <1>7

LEMMA OtherStep ==
  ASSUME IInv,
         Unpack \/ (\E u \in Users : Select(u)) \/ SignOut \/ Stop \/ Tick \/ UNCHANGED vars
  PROVE  IInv'
<1> USE NumbersAssumption DEF IInv, memory, history, vars
<1>1. UNCHANGED <<failed, until, disk, wrong, announced, saved, lost>>
  BY DEF Unpack, Select, SignOut, Stop, Tick
<1>2. pc' \in Points /\ account' \in Accounts /\ now' \in Times /\ now' >= now
  BY DEF Types, Points, Accounts, Times, Unpack, Select, SignOut, Stop, Tick
<1>3. Types'
  BY <1>1, <1>2 DEF Types
<1>4. pc' \in {"failed", "passed", "failing", "passing"} => pc' = pc
  BY DEF Unpack, Select, SignOut, Stop, Tick
<1>5. DiskFits'
  BY <1>1, <1>4 DEF DiskFits, Loaded, Image
<1>6. ~lost => \A a \in Accounts : announced[a] > now' => until[a] >= announced[a]
  <2>1. now \in Nat /\ now' \in Nat /\ now' >= now
    BY <1>2 DEF Types, Times
  <2>2. ASSUME NEW a \in Accounts
        PROVE  announced[a] \in Nat
    BY <2>2 DEF Types
  <2>3. ~lost => \A a \in Accounts : announced[a] > now => until[a] >= announced[a]
    BY DEF LocksKnown
  <2> HIDE DEF IInv
  <2> QED
    BY <2>1, <2>2, <2>3
<1>7. ~lost /\ Asked' => now' >= announced[account']
  <2>1. CASE \E u \in Users : Select(u)
    <3>1. PICK u \in Users : Select(u)
      BY <2>1
    <3>2. account' = u /\ now' = now /\ ~(until[u] > now) /\ u \in Accounts
      BY <3>1 DEF Select, LockedOut, Accounts
    <3>3. now \in Nat /\ announced[u] \in Nat /\ until[u] \in Nat
      BY <3>2 DEF Types, Times
    <3> QED
      BY <1>1, <3>2, <3>3 DEF LocksKnown
  <2>2. CASE Unpack \/ SignOut \/ Stop
    BY <2>2 DEF Unpack, SignOut, Stop, Asked
  <2>3. CASE Tick \/ UNCHANGED vars
    BY <2>3, <1>2 DEF Tick, Asked, LocksKnown, Types, Times
  <2> QED
    BY <2>1, <2>2, <2>3
<1>8. LocksKnown'
  BY <1>1, <1>6, <1>7 DEF LocksKnown
<1>9. pc' \in {"passed", "passing", "unpack"} => pc' = pc /\ account' = account
  BY DEF Unpack, Select, SignOut, Stop, Tick
<1>10. Counted'
  BY <1>1, <1>9 DEF Counted
<1>11. Spaced'
  <2>1. \A a \in Accounts : \A i \in DOMAIN wrong[a] : wrong[a][i] <= now'
    <3>1. \A a \in Accounts : \A i \in DOMAIN wrong[a] : wrong[a][i] \in Nat
      BY ElementOfSeq DEF Types, Times
    <3>2. now \in Nat /\ now' \in Nat /\ now' >= now
      BY <1>2 DEF Types, Times
    <3>3. \A a \in Accounts : \A i \in DOMAIN wrong[a] : wrong[a][i] <= now
      BY DEF Spaced
    <3> SUFFICES ASSUME NEW a \in Accounts, NEW i \in DOMAIN wrong[a]
                 PROVE  wrong[a][i] <= now'
      OBVIOUS
    <3>4. wrong[a][i] \in Nat /\ wrong[a][i] <= now
      BY <3>1, <3>3
    <3> HIDE DEF IInv
    <3> QED
      BY <3>2, <3>4
  <2> QED
    BY <1>1, <2>1 DEF Spaced
<1> QED
  BY <1>3, <1>5, <1>8, <1>10, <1>11

LEMMA NextOK == IInv /\ [Next]_vars => IInv'
BY StartStep, FailStep, PassStep, SaveStep, OtherStep DEF Next

-----------------------------------------------------------------------------
(* Theorems *)

THEOREM TypeCorrect == Spec => []TypeOK
<1>1. IInv => TypeOK
  BY DEF IInv, Types, TypeOK, States
<1> QED
  BY <1>1, InitOK, NextOK, PTL DEF Spec

\* Between a wrong answer and the one MAX_ATTEMPTS later there is a whole lock.
LEMMA BudgetHolds == IInv => AttemptBudget
<1> SUFFICES ASSUME IInv, ~lost, NEW a \in Accounts, NEW i \in DOMAIN wrong[a],
                    i + MaxAttempts \in DOMAIN wrong[a]
             PROVE  wrong[a][i + MaxAttempts] >= wrong[a][i] + LockTime
  BY DEF AttemptBudget
<1> USE NumbersAssumption DEF IInv
<1> DEFINE k == i + MaxAttempts - 1
<1>1. DOMAIN wrong[a] = 1 .. Len(wrong[a]) /\ Len(wrong[a]) \in Nat
      /\ \A x \in DOMAIN wrong[a] : wrong[a][x] \in Nat
  <2>1. wrong[a] \in Seq(Times)
    BY DEF Types
  <2>2. DOMAIN wrong[a] = 1 .. Len(wrong[a]) /\ Len(wrong[a]) \in Nat
    BY <2>1, LenProperties
  <2> QED
    BY <2>1, <2>2, ElementOfSeq DEF Times
<1>2. k \in DOMAIN wrong[a] /\ k >= MaxAttempts /\ i <= k /\ k + 1 = i + MaxAttempts
  BY <1>1
<1>3. wrong[a][k + 1] >= wrong[a][k] + LockTime
  BY <1>2 DEF Spaced
<1>4. \A x \in DOMAIN wrong[a] : i <= x => wrong[a][i] <= wrong[a][x]
  BY DEF Spaced
<1>5. wrong[a][i] <= wrong[a][k] /\ wrong[a][i] \in Nat /\ wrong[a][k] \in Nat
  BY <1>1, <1>2, <1>4
<1>6. wrong[a][k + 1] \in Nat /\ k + 1 = i + MaxAttempts
  BY <1>1, <1>2
<1> HIDE DEF k, IInv
<1>7. wrong[a][k + 1] >= wrong[a][i] + LockTime
  BY <1>3, <1>5, <1>6
<1> QED
  BY <1>6, <1>7

\* Whatever the restarts and whatever cannot be written, an account takes at most
\* MAX_ATTEMPTS wrong answers in any LOCKOUT_SECONDS without a success between them
\* (_record_failure(), Main.py:168), unless a process ended with an unsaved change.
THEOREM AttemptsBounded == Spec => []AttemptBudget
BY BudgetHolds, InitOK, NextOK, PTL DEF Spec

\* With nothing wrong answered since the last success an account has neither a lock
\* nor a count, whatever was saved in between (Main.py:178).
THEOREM Forgiving == Spec => []SuccessForgives
<1>1. IInv => SuccessForgives
  <2>1. Len(<<>>) = 0
    OBVIOUS
  <2> QED
    BY <2>1 DEF IInv, Counted, SuccessForgives
<1> QED
  BY <1>1, InitOK, NextOK, PTL DEF Spec

LEMMA AskStep ==
  ASSUME IInv, [Next]_vars, NEW a \in Accounts, Asks(a), ~lost'
  PROVE  now >= announced[a]
<1> USE DEF IInv, Asks, Asked, memory, history, vars
<1>1. CASE Start
  <2>1. until' = until /\ a = Vault /\ until'[Vault] <= now /\ ~lost
    <3>1. ~lost /\ saved
      BY <1>1, Zenon DEF Start
    <3>2. until' = until
      BY <1>1, <3>1 DEF Start, DiskFits, Image
    <3>3. a = Vault /\ ~(until'[Vault] > now)
      BY <1>1 DEF Start
    <3>4. now \in Nat /\ until[Vault] \in Nat
      BY <3>3, NumbersAssumption DEF Types, Times
    <3> QED
      BY <3>1, <3>2, <3>3, <3>4
  <2>2. now \in Nat /\ announced[Vault] \in Nat /\ until[Vault] \in Nat
    BY <2>1, NumbersAssumption DEF Types, Times
  <2> QED
    BY <2>1, <2>2 DEF LocksKnown
<1>2. CASE \E u \in Users : Select(u)
  <2>1. PICK u \in Users : Select(u)
    BY <1>2
  <2>2. a = u /\ ~(until[u] > now) /\ lost' = lost
    BY <2>1 DEF Select, LockedOut
  <2>3. now \in Nat /\ announced[a] \in Nat /\ until[a] \in Nat
    BY NumbersAssumption DEF Types, Times
  <2> QED
    BY <2>2, <2>3 DEF LocksKnown
<1>3. CASE Unpack \/ Fail \/ Pass \/ EmptyFile \/ FillFile \/ SaveFails \/ SignOut \/ Stop
  BY <1>3 DEF Unpack, Fail, Pass, EmptyFile, FillFile, SaveFails, SignOut, Stop, AfterSave
<1>4. CASE Tick \/ UNCHANGED vars
  BY <1>4 DEF Tick
<1> QED
  BY <1>1, <1>2, <1>3, <1>4 DEF Next

\* While an announced lock lasts, nobody is asked for the password of that account,
\* in this process or a later one, unless a process ended with an unsaved change.
THEOREM LockOutlives == Spec => LockOutlivesProcess
<1>1. IInv /\ [Next]_vars => (\A a \in Accounts : Asks(a) /\ ~lost' => now >= announced[a])
  BY AskStep
<1> QED
  BY <1>1, InitOK, NextOK, PTL DEF Spec, LockOutlivesProcess

\* What the file would give back locks nobody without a cause, and it is behind the
\* memory of the process only by locks that are over; who is asked is not locked.
CauseKnown ==
  /\ \A a \in Accounts : until[a] > now => wrong[a] # <<>>
  /\ \A a \in Accounts : Loaded.until[a] > now => wrong[a] # <<>>
  /\ pc # "off" => \A a \in Accounts : Loaded.until[a] <= now \/ Loaded.until[a] <= until[a]
  /\ Asked \/ pc \in {"unpack", "passed", "passing"} => until[account] <= now

LEMMA CauseStep ==
  ASSUME IInv, CauseKnown, [Next]_vars
  PROVE  CauseKnown'
<1> DEFINE held == Loaded.until
<1>1. /\ now \in Nat /\ now' \in Nat /\ account \in Accounts
      /\ until \in [Accounts -> Nat] /\ held \in [Accounts -> Nat]
      /\ wrong \in [Accounts -> Seq(Times)]
      /\ LockTime \in Nat
  <2>1. Types /\ Types'
    BY NextOK DEF IInv
  <2>2. \A n \in 0 .. MaxTime + LockTime : n \in Nat
    OBVIOUS
  <2>3. until \in [Accounts -> 0 .. MaxTime + LockTime]
        /\ held \in [Accounts -> 0 .. MaxTime + LockTime]
    BY <2>1, StatesParts DEF Types
  <2>4. until \in [Accounts -> Nat] /\ held \in [Accounts -> Nat]
    BY <2>2, <2>3
  <2>5. /\ now \in Times /\ now' \in Times /\ account \in Accounts
        /\ wrong \in [Accounts -> Seq(Times)]
    BY <2>1 DEF Types
  <2>6. LockTime \in Nat /\ \A n \in Times : n \in Nat
    BY NumbersAssumption DEF Times
  <2> QED
    BY <2>4, <2>5, <2>6, Zenon
<1>2. Clean.until = [a \in Accounts |-> 0] /\ Image.until = until
  BY DEF Clean, Image
<1>3. CASE Start
  <2>1. /\ until' = held /\ held' = held /\ now' = now /\ wrong' = wrong
        /\ account' = Vault /\ Vault \in Accounts
        /\ pc' = IF held[Vault] > now THEN "off" ELSE "start"
    BY <1>3 DEF Start, Loaded, Accounts
  <2> HIDE DEF held
  <2>2. /\ \A a \in Accounts : until'[a] > now' => wrong'[a] # <<>>
        /\ \A a \in Accounts : held'[a] > now' => wrong'[a] # <<>>
    BY <2>1 DEF CauseKnown, held
  <2>3. \A a \in Accounts : held'[a] <= until'[a]
    BY <1>1, <2>1
  <2>4. pc' # "off" => until'[account'] <= now'
    BY <1>1, <2>1
  <2>5. pc' \in {"off", "start"}
    BY <2>1
  <2> QED
    BY <2>2, <2>3, <2>4, <2>5 DEF CauseKnown, Asked, held
<1>4. CASE Fail
  <2>1. /\ held' = held /\ now' = now /\ account' = account /\ pc' = "failed"
        /\ wrong' = [wrong EXCEPT ![account] = Append(@, now)]
        /\ until' = until \/ until' = [until EXCEPT ![account] = now + LockTime]
        /\ until[account] <= now
    BY <1>4 DEF Fail, Locked, Loaded, CauseKnown
  <2>2. Append(wrong[account], now) # <<>>
    BY <1>1
  <2> HIDE DEF held
  <2>3. \A a \in Accounts : a # account =>
          until'[a] = until[a] /\ wrong'[a] = wrong[a]
    BY <1>1, <2>1
  <2>4. wrong'[account] # <<>>
    BY <1>1, <2>1, <2>2
  <2>5. held[account] <= now
    BY <1>1, <1>4, <2>1 DEF CauseKnown, held, Fail, Asked
  <2>6. \A a \in Accounts : until'[a] > now => wrong'[a] # <<>>
    BY <2>3, <2>4 DEF CauseKnown
  <2>7. \A a \in Accounts : held[a] > now => wrong'[a] # <<>>
    BY <2>3, <2>4 DEF CauseKnown, held
  <2>8. \A a \in Accounts : held[a] <= now \/ held[a] <= until'[a]
    <3>1. pc # "off"
      BY <1>4 DEF Fail, Asked
    <3> QED
      BY <2>3, <2>5, <3>1 DEF CauseKnown, held
  <2> QED
    BY <2>1, <2>6, <2>7, <2>8 DEF CauseKnown, Asked, held
<1>5. CASE Pass
  <2>1. /\ held' = held /\ now' = now /\ account' = account /\ pc' = "passed"
        /\ wrong' = [wrong EXCEPT ![account] = <<>>]
        /\ until' = [until EXCEPT ![account] = 0]
        /\ until[account] <= now /\ pc # "off"
    BY <1>5 DEF Pass, Loaded, CauseKnown, Asked
  <2> HIDE DEF held
  <2>2. \A a \in Accounts : a # account =>
          until'[a] = until[a] /\ wrong'[a] = wrong[a]
    BY <1>1, <2>1
  <2>3. until'[account] = 0
    BY <1>1, <2>1
  <2>4. held[account] <= now
    BY <1>1, <2>1 DEF CauseKnown, held
  <2> QED
    BY <1>1, <2>1, <2>2, <2>3, <2>4 DEF CauseKnown, Asked, held
<1>6. CASE EmptyFile \/ FillFile
  <2>1. /\ held' = Clean.until \/ held' = until
        /\ UNCHANGED <<now, account, until, wrong>>
        /\ pc \in {"failed", "passed", "failing", "passing"}
        /\ pc' \in {"passing", "unpack"} => pc \in {"passed", "passing"}
        /\ ~Asked' /\ pc' # "passed"
    BY <1>2, <1>6 DEF EmptyFile, FillFile, AfterSave, Loaded, Image, Asked, memory, history
  <2> HIDE DEF held
  <2>2. \A a \in Accounts : held'[a] <= until[a] /\ (held'[a] > now => until[a] > now)
    BY <1>1, <1>2, <2>1
  <2> QED
    BY <2>1, <2>2 DEF CauseKnown, held
<1>7. CASE SaveFails \/ Unpack \/ SignOut \/ Stop
  <2>1. /\ UNCHANGED <<now, account, memory, disk, wrong>>
        /\ pc # "off" /\ ~Asked'
        /\ pc' \in {"unpack", "passed", "passing"} => pc \in {"passed", "passing"}
    BY <1>7 DEF SaveFails, Unpack, SignOut, Stop, AfterSave, Asked, memory, history
  <2> QED
    BY <2>1 DEF CauseKnown, Loaded, memory
<1>8. CASE \E u \in Users : Select(u)
  <2>1. PICK u \in Users : Select(u)
    BY <1>8
  <2>2. /\ UNCHANGED <<now, memory, disk, wrong>>
        /\ pc = "select" /\ pc' = "prompt" /\ account' = u /\ ~(until[u] > now)
        /\ u \in Accounts
    BY <2>1 DEF Select, LockedOut, Accounts, history
  <2>3. until[u] <= now
    BY <1>1, <2>2
  <2> QED
    BY <2>2, <2>3 DEF CauseKnown, Loaded, memory
<1>9. CASE Tick
  <2>1. now' > now /\ held' = held /\ UNCHANGED <<pc, account, until, wrong>>
    BY <1>1, <1>9 DEF Tick, Loaded, memory, history
  <2> HIDE DEF held
  <2> QED
    BY <1>1, <2>1 DEF CauseKnown, Asked, held
<1>10. CASE UNCHANGED vars
  BY <1>10 DEF vars, CauseKnown, Loaded, Asked, memory, history
<1> QED
  BY <1>3, <1>4, <1>5, <1>6, <1>7, <1>8, <1>9, <1>10 DEF Next

\* Nobody is locked out without a wrong answer since the last success, whatever
\* happens to the file and wherever a process ends (_load_lockout_state(), Main.py:129).
THEOREM NobodyLockedForNothing == Spec => []LockHasCause
<1>1. Init => CauseKnown
  BY NumbersAssumption
     DEF Init, CauseKnown, Loaded, Clean, Asked, Accounts, Times
<1>2. CauseKnown => LockHasCause
  BY DEF CauseKnown, LockHasCause, LockedOut
<1> QED
  BY <1>1, <1>2, InitOK, NextOK, CauseStep, PTL DEF Spec

-----------------------------------------------------------------------------
(* The job logs *)

Beginning == {"list", "sum", "unlink", "create"}
Looking   == {"poll", "grab", "check", "last"}

\* A log holds the lines its job has written, or the last of them.
LogsFit ==
  /\ at \in {"menu"} \union Starting \union Watching
  /\ job \in Jobs \union {NoJob}
  /\ status \in [Jobs -> {"none", "running", "done"}]
  /\ wrote \in [Jobs -> 0 .. Lines]
  /\ file \in [Jobs -> {Absent} \union Seq(1 .. Lines)]
  /\ \A j \in Jobs : file[j] # Absent => Len(file[j]) \in 1 .. wrote[j]

\* A job that is done has written everything, and one that begins nothing.
JobsFit ==
  /\ \A j \in Jobs : status[j] = "done" => wrote[j] = Lines
  /\ at \in Beginning => job \in Jobs /\ status[job] = "none" /\ wrote[job] = 0
  /\ \A j \in Jobs : status[j] = "none" =>
       wrote[j] = 0 \/ (j = job /\ at \in {"rotate", "touch", "append"})
  /\ at \in Watching => job \in Jobs /\ status[job] # "none"
  /\ at \in {"last", "over"} => status[job] # "running"

\* Whatever the view has gone past is on the screen or missed.
ViewFits ==
  /\ at \in Looking =>
       /\ pos \in 0 .. Len(Content(job))
       /\ \A i \in 1 .. pos : Content(job)[i] \in shown \union missed
  /\ at = "grab" => size \in pos .. Len(Content(job))
  /\ at = "over" =>
       \A i \in 1 .. Len(Content(job)) : Content(job)[i] \in shown \union missed

TailInv == LogsFit /\ JobsFit /\ ViewFits

-----------------------------------------------------------------------------
(* The budget of the directory *)

\* The logs that the pruning has still to look at exist, each once, and the total is
\* not more than what is there.
PruningFits ==
  /\ age \in Seq(Jobs) /\ IsInjective(age)
  /\ ToSet(age) = {j \in Jobs : file[j] # Absent}
  /\ listing \in Seq(Jobs) /\ IsInjective(listing)
  /\ ToSet(listing) \subseteq ToSet(age)
  /\ at = "unlink" => total \in Int /\ total <= Size(ToSet(age))

-----------------------------------------------------------------------------
(* The audit log *)

NonZero == Nat \ {0}

AuditFits ==
  /\ audit \in {Absent} \union Seq(NonZero)
  /\ rotated \in {Absent} \union Seq(NonZero)
  /\ entry \in Nat
  /\ at = "touch" => audit = Absent
  /\ RecentEntriesKept

LEMMA AbsentIsNoLog == Absent \notin Seq(1 .. Lines) /\ Absent \notin Seq(NonZero)
<1>1. Len(Absent) = 1 /\ Absent[1] = 0
  BY DEF Absent
<1>2. ASSUME NEW S, 0 \notin S
      PROVE  Absent \notin Seq(S)
  <2> SUFFICES ASSUME Absent \in Seq(S) PROVE FALSE
    OBVIOUS
  <2>1. 1 \in 1 .. Len(Absent)
    BY <1>1
  <2>2. Absent[1] \in S
    BY <2>1, ElementOfSeq
  <2> QED
    BY <1>1, <1>2, <2>2
<1>3. 0 \notin 1 .. Lines /\ 0 \notin NonZero
  BY SizesAssumption DEF NonZero
<1> QED
  BY <1>2, <1>3

LEMMA ContentFits ==
  ASSUME LogsFit, NEW j \in Jobs
  PROVE  /\ Content(j) \in Seq(1 .. Lines) /\ Len(Content(j)) \in 0 .. wrote[j]
         /\ wrote[j] \in 0 .. Lines
<1>1. wrote[j] \in 0 .. Lines /\ file[j] \in {Absent} \union Seq(1 .. Lines)
  BY DEF LogsFit
<1>2. CASE file[j] = Absent
  <2>1. Content(j) = <<>>
    BY <1>2 DEF Content
  <2> QED
    BY <1>1, <2>1
<1>3. CASE file[j] # Absent
  <2>1. Content(j) = file[j] /\ Len(file[j]) \in 1 .. wrote[j]
    BY <1>3 DEF Content, LogsFit
  <2> QED
    BY <1>1, <1>3, <2>1
<1> QED
  BY <1>2, <1>3

\* One line more at the end of one log.
LEMMA WriteFits ==
  ASSUME LogsFit, NEW j \in Jobs, Write(j), wrote[j] < Lines,
         at' \in {"menu"} \union Starting \union Watching, job' = job, status' = status
  PROVE  /\ LogsFit' /\ wrote' = [wrote EXCEPT ![j] = wrote[j] + 1]
         /\ \A k \in Jobs : k # j => file'[k] = file[k]
         /\ file'[j] = Append(Content(j), wrote[j] + 1) /\ file'[j] # Absent
         /\ Content(j)' = Append(Content(j), wrote[j] + 1)
         /\ \A k \in Jobs : k # j => Content(k)' = Content(k)
         /\ Len(Content(j)') = Len(Content(j)) + 1
         /\ \A i \in 1 .. Len(Content(j)) : Content(j)'[i] = Content(j)[i]
<1>1. /\ Content(j) \in Seq(1 .. Lines) /\ Len(Content(j)) \in 0 .. wrote[j]
      /\ wrote[j] \in 0 .. Lines
  BY ContentFits
<1>2. Lines \in Nat \ {0} /\ wrote[j] + 1 \in 1 .. Lines
  BY <1>1, SizesAssumption
<1> DEFINE log == Append(Content(j), wrote[j] + 1)
<1>3. /\ log \in Seq(1 .. Lines) /\ Len(log) = Len(Content(j)) + 1
      /\ \A i \in 1 .. Len(Content(j)) : log[i] = Content(j)[i]
  BY <1>1, <1>2, AppendProperties
<1>4. log # Absent
  BY <1>3, AbsentIsNoLog
<1>5. file' = [file EXCEPT ![j] = log] /\ wrote' = [wrote EXCEPT ![j] = wrote[j] + 1]
  BY DEF Write
<1> HIDE DEF log
<1>6. file'[j] = log /\ \A k \in Jobs : k # j => file'[k] = file[k]
  BY <1>5 DEF LogsFit
<1>7. wrote' \in [Jobs -> 0 .. Lines] /\ wrote'[j] = wrote[j] + 1
      /\ \A k \in Jobs : k # j => wrote'[k] = wrote[k]
  BY <1>1, <1>2, <1>5 DEF LogsFit
<1>8. file' \in [Jobs -> {Absent} \union Seq(1 .. Lines)]
  BY <1>3, <1>5 DEF LogsFit
<1>9. \A k \in Jobs : file'[k] # Absent => Len(file'[k]) \in 1 .. wrote'[k]
  <2> SUFFICES ASSUME NEW k \in Jobs, file'[k] # Absent
               PROVE  Len(file'[k]) \in 1 .. wrote'[k]
    OBVIOUS
  <2>1. CASE k = j
    BY <1>1, <1>3, <1>6, <1>7, <2>1
  <2>2. CASE k # j
    BY <1>6, <1>7, <2>2 DEF LogsFit
  <2> QED
    BY <2>1, <2>2
<1>10. LogsFit'
  BY <1>7, <1>8, <1>9 DEF LogsFit
<1>11. Content(j)' = log /\ \A k \in Jobs : k # j => Content(k)' = Content(k)
  BY <1>4, <1>6 DEF Content
<1> QED
  BY <1>3, <1>4, <1>5, <1>6, <1>10, <1>11 DEF log

LEMMA AddedLinesFit ==
  ASSUME LogsFit, job \in Jobs, pos \in 0 .. Len(Content(job))
  PROVE  \A i \in pos + 1 .. Len(Content(job)) : Content(job)[i] \in AddedLines
<1> DEFINE c == Content(job)
           added == SubSeq(c, pos + 1, Len(c))
<1>1. c \in Seq(1 .. Lines) /\ Len(c) \in Nat /\ pos \in Nat
  BY ContentFits DEF LogsFit
<1> SUFFICES ASSUME NEW i \in pos + 1 .. Len(c)
             PROVE  c[i] \in ToSet(added)
  BY DEF AddedLines
<1> HIDE DEF c
<1>2. ASSUME NEW k \in pos + 1 .. Len(c)
      PROVE  c[k] \in 1 .. Lines
  <2>1. k \in 1 .. Len(c)
    BY <1>1
  <2> QED
    BY <1>1, <2>1, ElementOfSeq
<1>3. /\ added \in Seq(1 .. Lines) /\ Len(added) = Len(c) - pos
      /\ \A k \in 1 .. Len(c) - pos : added[k] = c[pos + k]
  BY <1>1, <1>2, SubSeqProperties
<1> HIDE DEF added
<1>4. i - pos \in 1 .. Len(c) - pos /\ pos + (i - pos) = i
  BY <1>1
<1>5. added[i - pos] = c[i] /\ i - pos \in DOMAIN added
  BY <1>1, <1>3, <1>4, LenProperties
<1> QED
  BY <1>5 DEF ToSet

\* The steps of the main thread between two visits of the menu, the view excepted.
LEMMA TailInvStart ==
  ASSUME TailInv, LogStart \/ LogEvent \/ \E j \in Jobs : StartJob(j)
  PROVE  TailInv'
<1> USE DEF TailInv, Starting, Watching, Beginning, Looking
<1>1. ASSUME NEW j \in Jobs, StartJob(j)
      PROVE  TailInv'
  <2>1. wrote[j] = 0 /\ at' = "list" /\ job' = j /\ UNCHANGED <<file, wrote, status>>
    BY <1>1 DEF StartJob, JobsFit, logs
  <2>2. LogsFit'
    BY <2>1 DEF LogsFit
  <2>3. JobsFit'
    BY <1>1, <2>1 DEF JobsFit, StartJob
  <2> QED
    BY <2>1, <2>2, <2>3 DEF ViewFits
<1>2. ASSUME ListLogs \/ SumSizes \/ UnlinkFails \/ Pruned
      PROVE  TailInv'
  <2>1. /\ at \in Beginning /\ at' \in Beginning /\ job' = job
        /\ UNCHANGED <<file, wrote, status>>
    BY <1>2 DEF ListLogs, SumSizes, UnlinkFails, Pruned, Goto, logs
  <2>2. LogsFit' /\ JobsFit'
    BY <2>1 DEF LogsFit, JobsFit
  <2> QED
    BY <2>1, <2>2 DEF ViewFits
<1>3. ASSUME Unlink
      PROVE  TailInv'
  <2>1. /\ at = "unlink" /\ at' = at /\ job' = job /\ UNCHANGED <<wrote, status>>
        /\ file' = [file EXCEPT ![Head(listing)] = Absent]
    BY <1>3 DEF Unlink
  <2>2. /\ file' \in [Jobs -> {Absent} \union Seq(1 .. Lines)]
        /\ \A j \in Jobs : file'[j] # Absent => file'[j] = file[j]
    BY <2>1 DEF LogsFit
  <2>3. LogsFit'
    BY <2>1, <2>2 DEF LogsFit
  <2>4. JobsFit'
    BY <2>1 DEF JobsFit
  <2> QED
    BY <2>1, <2>3, <2>4 DEF ViewFits
<1>4. ASSUME CreateLog
      PROVE  TailInv'
  <2>1. /\ at = "create" /\ at' = "rotate" /\ job' = job /\ status' = status
        /\ Write(job) /\ job \in Jobs /\ status[job] = "none" /\ wrote[job] = 0
    BY <1>4 DEF CreateLog, Goto, JobsFit
  <2>2. LogsFit' /\ wrote' = [wrote EXCEPT ![job] = wrote[job] + 1]
    BY <2>1, WriteFits, SizesAssumption
  <2>3. JobsFit'
    BY <2>1, <2>2 DEF JobsFit, LogsFit
  <2> QED
    BY <2>1, <2>2, <2>3 DEF ViewFits
<1>5. ASSUME LogEvent \/ Rotate \/ NoRotation \/ TouchAudit
      PROVE  TailInv'
  <2>1. /\ at \in {"menu", "rotate", "touch"} /\ at' \in {"rotate", "touch", "append"}
        /\ job' = job /\ UNCHANGED <<file, wrote, status>>
    BY <1>5 DEF LogEvent, Rotate, NoRotation, TouchAudit, Goto, logs
  <2>2. LogsFit' /\ JobsFit'
    BY <2>1 DEF LogsFit, JobsFit
  <2> QED
    BY <2>1, <2>2 DEF ViewFits
<1>6. ASSUME AppendAudit
      PROVE  TailInv'
  <2>1. /\ at = "append" /\ at' = "menu" /\ job' = NoJob /\ UNCHANGED <<file, wrote>>
        /\ status' = [j \in Jobs |-> IF j = job THEN "running" ELSE status[j]]
    BY <1>6 DEF AppendAudit, BackToMenu, logs
  <2>2. LogsFit'
    BY <2>1 DEF LogsFit
  <2>3. JobsFit'
    BY <2>1 DEF JobsFit, LogsFit
  <2> QED
    BY <2>1, <2>2, <2>3 DEF ViewFits
<1> QED
  BY <1>1, <1>2, <1>3, <1>4, <1>5, <1>6 DEF LogStart

\* A line that is added while a log is watched is one behind the last position.
LEMMA TailInvLine ==
  ASSUME TailInv, NEW j \in Jobs, LogLine(j)
  PROVE  TailInv'
<1> USE DEF TailInv, Watching, Beginning, Looking
<1>1. /\ Write(j) /\ wrote[j] < Lines /\ status[j] # "none" /\ UNCHANGED <<at, job, status>>
      /\ UNCHANGED <<shown, missed, pos, size>>
  BY DEF LogLine, view
<1>2. /\ LogsFit' /\ wrote' = [wrote EXCEPT ![j] = wrote[j] + 1]
      /\ \A k \in Jobs : k # j => Content(k)' = Content(k)
      /\ Len(Content(j)') = Len(Content(j)) + 1
      /\ \A i \in 1 .. Len(Content(j)) : Content(j)'[i] = Content(j)[i]
  BY <1>1, WriteFits DEF LogsFit
<1>3. status[j] # "done" /\ wrote[j] \in 0 .. Lines /\ Lines \in Nat
  BY <1>1, SizesAssumption DEF JobsFit, LogsFit
<1>4. JobsFit'
  <2>1. \A k \in Jobs : k # j => wrote'[k] = wrote[k]
    BY <1>2 DEF LogsFit
  <2> QED
    BY <1>1, <1>3, <2>1 DEF JobsFit
<1>5. ViewFits'
  <2>1. CASE at \notin Watching
    BY <1>1, <2>1 DEF ViewFits
  <2>2. CASE at \in Watching /\ job # j
    <3>1. Content(job)' = Content(job)
      BY <1>1, <1>2, <2>2 DEF JobsFit
    <3> QED
      BY <1>1, <3>1 DEF ViewFits
  <2>3. CASE at \in Watching /\ job = j
    <3>1. at \notin {"last", "over"}
      BY <1>1, <1>3, <2>3 DEF JobsFit, LogsFit
    <3>2. Len(Content(j)) \in Nat
      BY ContentFits, <1>3
    <3>3. Content(job)' = Content(j)'
      BY <1>1, <2>3
    <3> QED
      BY <1>1, <1>2, <2>3, <3>1, <3>2, <3>3 DEF ViewFits
  <2> QED
    BY <2>1, <2>2, <2>3
<1> QED
  BY <1>2, <1>4, <1>5

LEMMA TailInvFinish ==
  ASSUME TailInv, NEW j \in Jobs, FinishJob(j)
  PROVE  TailInv'
<1> USE DEF TailInv, Watching, Beginning
<1>1. /\ status[j] = "running" /\ wrote[j] = Lines /\ status' = [status EXCEPT ![j] = "done"]
      /\ UNCHANGED <<at, job, file, wrote, shown, missed, pos, size>>
  BY DEF FinishJob, AllLogged, logs, view
<1>2. LogsFit'
  BY <1>1 DEF LogsFit
<1>3. JobsFit'
  BY <1>1 DEF JobsFit, LogsFit
<1>4. ViewFits'
  BY <1>1 DEF ViewFits, Content
<1> QED
  BY <1>2, <1>3, <1>4

\* The view itself.
LEMMA TailInvWatch ==
  ASSUME TailInv, Watch \/ LeaveTail \/ \E j \in Jobs : OpenTail(j)
  PROVE  TailInv'
<1> USE DEF TailInv, Watching, Beginning, Looking
<1>1. /\ UNCHANGED <<file, wrote, status>> /\ \A j : Content(j)' = Content(j)
  BY DEF Watch, PrintExisting, TakeSize, Poll, Grab, CheckStatus, LastLook, LeaveTail,
     OpenTail, logs, Content
<1>2. ASSUME NEW j \in Jobs, OpenTail(j)
      PROVE  TailInv'
  <2>1. at' = "read" /\ job' = j /\ status[j] # "none" /\ at = "menu"
    BY <1>2 DEF OpenTail
  <2>2. LogsFit'
    BY <1>1, <2>1 DEF LogsFit
  <2>3. JobsFit'
    BY <1>1, <2>1 DEF JobsFit
  <2> QED
    BY <2>1, <2>2, <2>3 DEF ViewFits
<1>3. ASSUME LeaveTail
      PROVE  TailInv'
  <2>1. at' = "menu" /\ job' = NoJob /\ at \in {"poll", "over"}
    BY <1>3 DEF LeaveTail, BackToMenu
  <2>2. LogsFit'
    BY <1>1, <2>1 DEF LogsFit
  <2>3. JobsFit'
    BY <1>1, <2>1 DEF JobsFit
  <2> QED
    BY <2>1, <2>2, <2>3 DEF ViewFits
<1>4. ASSUME Watch
      PROVE  TailInv'
  <2>1. at \in Watching /\ at' \in Watching /\ job' = job /\ job \in Jobs
    BY <1>4 DEF Watch, PrintExisting, TakeSize, Poll, Grab, CheckStatus, LastLook, Goto,
       JobsFit
  <2>2. LogsFit'
    BY <1>1, <2>1 DEF LogsFit
  <2>3. at' \in {"last", "over"} => status[job] # "running"
    BY <1>4 DEF Watch, PrintExisting, TakeSize, Poll, Grab, CheckStatus, LastLook, Goto,
       SeesEnd, JobsFit
  <2>4. JobsFit'
    BY <1>1, <2>1, <2>3 DEF JobsFit
  <2> DEFINE c == Content(job)
  <2>5. Content(job)' = c /\ c \in Seq(1 .. Lines) /\ Len(c) \in Nat /\ DOMAIN c = 1 .. Len(c)
    BY <1>1, <2>1, ContentFits, LenProperties DEF LogsFit
  <2>6. ViewFits'
    <3>1. CASE PrintExisting
      BY <3>1 DEF PrintExisting, Goto, ViewFits
    <3>2. CASE TakeSize
      <4>1. /\ at' = "poll" /\ pos' = Len(c) /\ shown' = shown
            /\ missed' = ToSet(c) \ shown
        BY <3>2 DEF TakeSize, Goto
      <4>2. \A i \in 1 .. Len(c) : c[i] \in shown' \union missed'
        BY <2>5, <4>1 DEF ToSet
      <4> HIDE DEF c
      <4> QED
        BY <2>5, <4>1, <4>2 DEF ViewFits
    <3>3. CASE Poll
      <4>1. /\ at = "poll" /\ UNCHANGED <<shown, missed, pos>>
            /\ \/ at' = "grab" /\ size' = Len(c) /\ Len(c) > pos
               \/ at' = "check"
        BY <3>3 DEF Poll, Goto, Grown
      <4> HIDE DEF c
      <4> QED
        BY <2>5, <4>1 DEF ViewFits, c
    <3>4. CASE Grab
      <4>1. /\ at = "grab" /\ at' = "check" /\ pos' = size /\ missed' = missed
            /\ shown' = shown \union AddedLines
        BY <3>4 DEF Grab, Goto
      <4>2. /\ pos \in 0 .. Len(c) /\ size \in pos .. Len(c)
            /\ \A i \in 1 .. pos : c[i] \in shown \union missed
        BY <4>1 DEF ViewFits
      <4>3. \A i \in pos + 1 .. Len(c) : c[i] \in AddedLines
        BY <2>1, <4>2, AddedLinesFit
      <4> HIDE DEF c
      <4>4. \A i \in 1 .. size : i \in 1 .. pos \/ i \in pos + 1 .. Len(c)
        BY <2>5, <4>2
      <4>5. \A i \in 1 .. size : c[i] \in shown' \union missed'
        BY <4>1, <4>2, <4>3, <4>4
      <4> QED
        BY <2>5, <4>1, <4>2, <4>5 DEF ViewFits
    <3>5. CASE CheckStatus
      <4>1. at = "check" /\ at' \in {"last", "poll"} /\ UNCHANGED <<shown, missed, pos, size>>
        BY <3>5 DEF CheckStatus, Goto, view
      <4> QED
        BY <2>5, <4>1 DEF ViewFits
    <3>6. CASE LastLook
      <4>1. at = "last" /\ at' = "over" /\ shown' = shown \union AddedLines /\ missed' = missed
        BY <3>6 DEF LastLook, Goto
      <4>2. pos \in 0 .. Len(c) /\ \A i \in 1 .. pos : c[i] \in shown \union missed
        BY <4>1 DEF ViewFits
      <4>3. \A i \in pos + 1 .. Len(c) : c[i] \in AddedLines
        BY <2>1, <4>2, AddedLinesFit
      <4> HIDE DEF c
      <4>4. \A i \in 1 .. Len(c) : i \in 1 .. pos \/ i \in pos + 1 .. Len(c)
        BY <2>5, <4>2
      <4>5. \A i \in 1 .. Len(c) : c[i] \in shown' \union missed'
        BY <4>1, <4>2, <4>3, <4>4
      <4> QED
        BY <2>5, <4>1, <4>5 DEF ViewFits
    <3> QED
      BY <1>4, <3>1, <3>2, <3>3, <3>4, <3>5, <3>6 DEF Watch
  <2> QED
    BY <2>2, <2>4, <2>6
<1> QED
  BY <1>2, <1>3, <1>4

LEMMA TailInvInit == LogInit => TailInv
<1> SUFFICES ASSUME LogInit PROVE TailInv
  OBVIOUS
<1>1. LogsFit
  BY SizesAssumption DEF LogInit, LogsFit
<1> QED
  BY <1>1 DEF LogInit, TailInv, JobsFit, ViewFits, Beginning, Watching, Looking

LEMMA TailInvStep == TailInv /\ [LogNext]_logVars => TailInv'
<1> SUFFICES ASSUME TailInv, [LogNext]_logVars PROVE TailInv'
  OBVIOUS
<1>1. CASE UNCHANGED logVars
  BY <1>1 DEF logVars, TailInv, LogsFit, JobsFit, ViewFits, Content
<1> QED
  BY <1>1, TailInvStart, TailInvLine, TailInvFinish, TailInvWatch DEF LogNext

\* For any number of jobs, lines and interleavings: once the view has reported the end
\* of a job, every line of its log is on the screen, but for those that came between
\* its first read and its first look at the size (_tail_log(), utils/monitor.py:46).
THEOREM NoLineLost == LogSpec => []TailShowsEnd
<1>1. TailInv => TailShowsEnd
  <2> SUFFICES ASSUME TailInv, at = "over"
               PROVE  ToSet(Content(job)) \subseteq shown \union missed
    BY DEF TailShowsEnd
  <2>1. job \in Jobs
    BY DEF TailInv, JobsFit, Watching
  <2>2. DOMAIN Content(job) = 1 .. Len(Content(job))
    BY <2>1, ContentFits, LenProperties DEF TailInv
  <2> QED
    BY <2>2 DEF TailInv, ViewFits, ToSet
<1> QED
  BY <1>1, TailInvInit, TailInvStep, PTL DEF LogSpec

OrEmpty(log) == IF log = Absent THEN <<>> ELSE log

\* The last entries up to e, in order.
EndsWith(log, e) == \A i \in 1 .. Len(log) : log[i] = e - Len(log) + i

\* RecentEntriesKept, of a rotated log r, a log a and the last entry e.
Recent(r, a, e) ==
  LET kept == r \o a
      n    == Len(kept)
  IN /\ \A i \in 1 .. n : kept[i] = e - n + i
     /\ n >= AuditMax \/ n = e

LEMMA AuditLogs ==
  ASSUME AuditFits
  PROVE  /\ OrEmpty(audit) \in Seq(NonZero) /\ OrEmpty(rotated) \in Seq(NonZero)
         /\ Len(OrEmpty(audit)) \in Nat /\ Len(OrEmpty(rotated)) \in Nat
         /\ EndsWith(OrEmpty(rotated) \o OrEmpty(audit), entry)
         /\ LET n == Len(OrEmpty(rotated)) + Len(OrEmpty(audit))
            IN n >= AuditMax \/ n = entry
<1>1. /\ OrEmpty(audit) \in Seq(NonZero) /\ OrEmpty(rotated) \in Seq(NonZero)
  BY EmptySeq DEF AuditFits, OrEmpty
<1>2. Len(OrEmpty(rotated) \o OrEmpty(audit)) = Len(OrEmpty(rotated)) + Len(OrEmpty(audit))
  BY <1>1, ConcatProperties
<1>3. Len(OrEmpty(audit)) \in Nat /\ Len(OrEmpty(rotated)) \in Nat
  BY <1>1, LenProperties
<1> QED
  BY <1>1, <1>2, <1>3 DEF AuditFits, RecentEntriesKept, OrEmpty, EndsWith

LEMMA AuditKept ==
  ASSUME NEW r \in Seq(NonZero), NEW a \in Seq(NonZero), NEW e, EndsWith(r \o a, e),
         Len(r) + Len(a) >= AuditMax \/ Len(r) + Len(a) = e
  PROVE  Recent(r, a, e)
<1>1. Len(r \o a) = Len(r) + Len(a)
  BY ConcatProperties
<1> QED
  BY <1>1 DEF EndsWith, Recent

LEMMA SuffixEnds ==
  ASSUME NEW r \in Seq(NonZero), NEW a \in Seq(NonZero), NEW e \in Nat, EndsWith(r \o a, e)
  PROVE  EndsWith(a, e)
<1>1. /\ Len(r \o a) = Len(r) + Len(a) /\ Len(r) \in Nat /\ Len(a) \in Nat
      /\ \A i \in 1 .. Len(r) + Len(a) :
           (r \o a)[i] = IF i <= Len(r) THEN r[i] ELSE a[i - Len(r)]
  BY ConcatProperties, LenProperties
<1> SUFFICES ASSUME NEW i \in 1 .. Len(a)
             PROVE  a[i] = e - Len(a) + i
  BY DEF EndsWith
<1>2. Len(r) + i \in 1 .. Len(r) + Len(a) /\ ~(Len(r) + i <= Len(r)) /\ Len(r) + i - Len(r) = i
  BY <1>1
<1>3. (r \o a)[Len(r) + i] = a[i]
  BY <1>1, <1>2
<1>4. (r \o a)[Len(r) + i] = e - (Len(r) + Len(a)) + (Len(r) + i)
  BY <1>1, <1>2 DEF EndsWith
<1> QED
  BY <1>1, <1>3, <1>4

LEMMA NextEntryEnds ==
  ASSUME NEW r \in Seq(NonZero), NEW a \in Seq(NonZero), NEW e \in Nat, EndsWith(r \o a, e)
  PROVE  EndsWith(r \o Append(a, e + 1), e + 1)
<1>1. /\ Len(r \o a) = Len(r) + Len(a) /\ Len(r) \in Nat /\ Len(a) \in Nat
      /\ \A i \in 1 .. Len(r) + Len(a) :
           (r \o a)[i] = IF i <= Len(r) THEN r[i] ELSE a[i - Len(r)]
  BY ConcatProperties, LenProperties
<1> DEFINE b == Append(a, e + 1)
<1>2. /\ b \in Seq(NonZero) /\ Len(b) = Len(a) + 1 /\ b[Len(a) + 1] = e + 1
      /\ \A i \in 1 .. Len(a) : b[i] = a[i]
  BY AppendProperties DEF NonZero
<1> HIDE DEF b
<1>3. /\ Len(r \o b) = Len(r) + Len(b)
      /\ \A i \in 1 .. Len(r) + Len(b) :
           (r \o b)[i] = IF i <= Len(r) THEN r[i] ELSE b[i - Len(r)]
  BY <1>2, ConcatProperties
<1> SUFFICES ASSUME NEW i \in 1 .. Len(r) + Len(b)
             PROVE  (r \o b)[i] = (e + 1) - (Len(r) + Len(b)) + i
  BY <1>3 DEF EndsWith, b
<1>4. CASE i = Len(r) + Len(b)
  <2>1. ~(i <= Len(r)) /\ i - Len(r) = Len(a) + 1
    BY <1>1, <1>2, <1>4
  <2>2. (r \o b)[i] = e + 1
    BY <1>2, <1>3, <2>1
  <2> QED
    BY <1>1, <1>2, <1>4, <2>2
<1>5. CASE i # Len(r) + Len(b)
  <2>1. i \in 1 .. Len(r) + Len(a)
    <3>1. Len(r) \in Nat /\ Len(a) \in Nat /\ Len(b) = Len(a) + 1
      BY <1>1, <1>2
    <3> QED
      BY <1>5, <3>1
  <2>2. (r \o a)[i] = e - (Len(r) + Len(a)) + i
    BY <1>1, <2>1 DEF EndsWith
  <2>3. ~(i <= Len(r)) => i - Len(r) \in 1 .. Len(a)
    BY <1>1, <2>1
  <2>4. (r \o b)[i] = (r \o a)[i]
    BY <1>1, <1>2, <1>3, <2>1, <2>3
  <2> QED
    BY <1>1, <1>2, <2>1, <2>2, <2>4
<1> QED
  BY <1>4, <1>5

LEMMA AuditStep == AuditFits /\ [LogNext]_logVars => AuditFits'
<1> SUFFICES ASSUME AuditFits, [LogNext]_logVars PROVE AuditFits'
  OBVIOUS
<1> DEFINE r == OrEmpty(rotated)
           a == OrEmpty(audit)
<1>1. /\ a \in Seq(NonZero) /\ r \in Seq(NonZero) /\ Len(a) \in Nat /\ Len(r) \in Nat
      /\ EndsWith(r \o a, entry) /\ entry \in Nat
      /\ Len(r) + Len(a) >= AuditMax \/ Len(r) + Len(a) = entry
  BY AuditLogs DEF AuditFits
<1>2. CASE UNCHANGED trail /\ (at' = "touch" => at = "touch")
  BY <1>2 DEF AuditFits, RecentEntriesKept, trail
<1>3. CASE Rotate
  <2>1. /\ Full /\ rotated' = audit /\ audit' = Absent /\ entry' = entry
    BY <1>3 DEF Rotate
  <2>2. OrEmpty(rotated)' = a /\ OrEmpty(audit)' = <<>> /\ Len(a) >= AuditMax
    BY <2>1 DEF OrEmpty, Full
  <2>3. EndsWith(a, entry) /\ a \o <<>> = a /\ Len(<<>>) = 0 /\ <<>> \in Seq(NonZero)
    BY <1>1, SuffixEnds, ConcatEmptySeq
  <2> HIDE DEF a
  <2>4. /\ OrEmpty(audit)' \in Seq(NonZero) /\ OrEmpty(rotated)' \in Seq(NonZero)
        /\ EndsWith(OrEmpty(rotated) \o OrEmpty(audit), entry)'
        /\ Len(OrEmpty(rotated)') + Len(OrEmpty(audit)') >= AuditMax
    BY <1>1, <2>1, <2>2, <2>3, SizesAssumption DEF EndsWith
  <2>5. RecentEntriesKept'
    <3>1. Recent(OrEmpty(rotated)', OrEmpty(audit)', entry')
      BY <2>4, AuditKept
    <3> QED
      BY <3>1 DEF Recent, RecentEntriesKept, OrEmpty
  <2> QED
    BY <2>1, <2>5 DEF AuditFits
<1>4. CASE TouchAudit
  <2>1. /\ audit = Absent /\ audit' \in {Absent, <<>>} /\ rotated' = rotated /\ entry' = entry
        /\ at' = "append"
    BY <1>4 DEF TouchAudit, Goto, AuditFits
  <2>2. OrEmpty(audit)' = a /\ OrEmpty(rotated)' = r
    BY <2>1 DEF OrEmpty
  <2>3. RecentEntriesKept'
    <3>1. Recent(r, a, entry)
      BY <1>1, AuditKept
    <3>2. Recent(OrEmpty(rotated)', OrEmpty(audit)', entry')
      BY <2>1, <2>2, <3>1
    <3> QED
      BY <3>2 DEF Recent, RecentEntriesKept, OrEmpty
  <2>4. audit' \in {Absent} \union Seq(NonZero) /\ at' # "touch"
    BY <2>1, EmptySeq
  <2> QED
    BY <2>1, <2>3, <2>4 DEF AuditFits
<1>5. CASE AppendAudit
  <2>1. /\ entry' = entry + 1 /\ audit' = Append(a, entry + 1) /\ rotated' = rotated
        /\ at' = "menu"
    BY <1>5 DEF AppendAudit, BackToMenu, OrEmpty
  <2>2. /\ audit' \in Seq(NonZero) /\ Len(audit') = Len(a) + 1
    BY <1>1, <2>1, AppendProperties DEF NonZero
  <2>3. OrEmpty(audit)' = audit' /\ OrEmpty(rotated)' = r
    BY <2>1, <2>2, AbsentIsNoLog DEF OrEmpty
  <2>4. EndsWith(r \o audit', entry')
    BY <1>1, <2>1, NextEntryEnds
  <2> HIDE DEF a, r
  <2>5. Len(r) + Len(audit') >= AuditMax \/ Len(r) + Len(audit') = entry'
    <3> DEFINE x == Len(r)
               y == Len(a)
               z == Len(audit')
    <3>1. x \in Nat /\ y \in Nat /\ z = y + 1 /\ (x + y >= AuditMax \/ x + y = entry)
      BY <1>1, <2>2
    <3> HIDE DEF x, y, z
    <3>2. x + z >= AuditMax \/ x + z = entry + 1
      BY <3>1, SizesAssumption
    <3> QED
      BY <2>1, <3>2 DEF x, z
  <2>6. RecentEntriesKept'
    <3>1. Recent(r, audit', entry')
      BY <1>1, <2>2, <2>4, <2>5, AuditKept
    <3>2. Recent(OrEmpty(rotated)', OrEmpty(audit)', entry')
      BY <2>3, <3>1
    <3> QED
      BY <3>2 DEF Recent, RecentEntriesKept, OrEmpty
  <2> QED
    BY <1>1, <2>1, <2>2, <2>6 DEF AuditFits
<1>6. \/ UNCHANGED trail /\ (at' = "touch" => at = "touch")
      \/ Rotate \/ TouchAudit \/ AppendAudit
  <2>1. CASE UNCHANGED logVars
    BY <2>1 DEF logVars, trail
  <2>2. CASE LogEvent \/ LogStart
    BY <2>2 DEF LogEvent, LogStart, ListLogs, SumSizes, Unlink, UnlinkFails, Pruned,
       CreateLog, NoRotation, Goto
  <2>3. CASE Watch \/ LeaveTail
    BY <2>3 DEF Watch, PrintExisting, TakeSize, Poll, Grab, CheckStatus, LastLook, LeaveTail,
       Goto, BackToMenu
  <2>4. CASE \E j \in Jobs : StartJob(j) \/ LogLine(j) \/ FinishJob(j) \/ OpenTail(j)
    BY <2>4 DEF StartJob, LogLine, FinishJob, OpenTail
  <2> QED
    BY <2>1, <2>2, <2>3, <2>4 DEF LogNext
<1> QED
  BY <1>2, <1>3, <1>4, <1>5, <1>6

\* For any number of entries and any size of the file, and when a rotation or the new
\* file fails: the newest entries are there, in order (_rotate_if_needed(),
\* utils/job_handler.py:105).
THEOREM NewestEntriesKept == LogSpec => []RecentEntriesKept
<1>1. LogInit => AuditFits
  <2> SUFFICES ASSUME LogInit PROVE AuditFits
    OBVIOUS
  <2>1. /\ OrEmpty(audit) = <<>> /\ OrEmpty(rotated) = <<>> /\ entry = 0
        /\ <<>> \in Seq(NonZero) /\ <<>> \o <<>> = <<>> /\ Len(<<>>) = 0
    BY DEF LogInit, OrEmpty
  <2>2. Recent(OrEmpty(rotated), OrEmpty(audit), entry)
    BY <2>1 DEF Recent
  <2>3. RecentEntriesKept
    BY <2>2 DEF Recent, RecentEntriesKept, OrEmpty
  <2> QED
    BY <2>1, <2>3 DEF AuditFits, LogInit
<1>2. AuditFits => RecentEntriesKept
  BY DEF AuditFits
<1> QED
  BY <1>1, <1>2, AuditStep, PTL DEF LogSpec

\* The lines of the logs ls when the files are f: what Size counts.
LinesIn(ls, f) == {line \in ls \X (1 .. Lines) : line[2] \in DOMAIN f[line[1]]}

LEMMA SeqSetFinite ==
  ASSUME NEW S, NEW s \in Seq(S)
  PROVE  IsFiniteSet(ToSet(s))
<1>1. DOMAIN s = 1 .. Len(s) /\ Len(s) \in Nat
  BY LenProperties
<1>2. IsFiniteSet(1 .. Len(s))
  BY <1>1, FS_Interval
<1>3. s \in Surjection(1 .. Len(s), ToSet(s))
  <2>1. s \in [1 .. Len(s) -> ToSet(s)]
    BY <1>1, LenProperties DEF ToSet
  <2> QED
    BY <1>1, <2>1 DEF Surjection, ToSet
<1> QED
  BY <1>2, <1>3, FS_Surjection

LEMMA LinesFinite ==
  ASSUME NEW ls, NEW f, IsFiniteSet(ls)
  PROVE  IsFiniteSet(LinesIn(ls, f)) /\ Cardinality(LinesIn(ls, f)) \in Nat
<1>1. IsFiniteSet(1 .. Lines)
  BY FS_Interval, SizesAssumption
<1>2. IsFiniteSet(ls \X (1 .. Lines))
  BY <1>1, FS_Product
<1>3. LinesIn(ls, f) \in SUBSET (ls \X (1 .. Lines))
  BY DEF LinesIn
<1>4. IsFiniteSet(LinesIn(ls, f))
  BY <1>2, <1>3, FS_Subset
<1> QED
  BY <1>4, FS_CardinalityType

\* More logs, or longer ones, have no fewer lines.
LEMMA LinesGrow ==
  ASSUME NEW ls, NEW ms, NEW f, NEW g, IsFiniteSet(ms), ls \subseteq ms,
         \A k \in ls : DOMAIN f[k] \subseteq DOMAIN g[k]
  PROVE  Cardinality(LinesIn(ls, f)) <= Cardinality(LinesIn(ms, g))
<1>1. LinesIn(ls, f) \in SUBSET LinesIn(ms, g)
  BY DEF LinesIn
<1> QED
  BY <1>1, LinesFinite, FS_Subset

\* A log that is gone takes its lines with it.
LEMMA LinesOfOneLess ==
  ASSUME NEW ls, NEW f, NEW g, NEW j \in ls, IsFiniteSet(ls),
         f[j] \in Seq(1 .. Lines), Len(f[j]) <= Lines,
         \A k \in ls \ {j} : g[k] = f[k]
  PROVE  Cardinality(LinesIn(ls \ {j}, g)) = Cardinality(LinesIn(ls, f)) - Len(f[j])
<1> DEFINE n == Len(f[j])
           mine == {j} \X (1 .. n)
<1>1. n \in Nat /\ n <= Lines /\ Lines \in Nat /\ DOMAIN f[j] = 1 .. n
  BY LenProperties, SizesAssumption
<1>2. IsFiniteSet(mine) /\ Cardinality(mine) = n
  <2> HIDE DEF n
  <2>1. IsFiniteSet({j}) /\ Cardinality({j}) = 1
    BY FS_Singleton
  <2>2. IsFiniteSet(1 .. n) /\ Cardinality(1 .. n) = n
    BY <1>1, FS_Interval
  <2> DEFINE one == {j}
             places == 1 .. n
  <2> HIDE DEF one, places
  <2>3. /\ IsFiniteSet(one \X places)
        /\ Cardinality(one \X places) = Cardinality(one) * Cardinality(places)
    BY <2>1, <2>2, FS_Product DEF one, places
  <2> QED
    BY <1>1, <2>1, <2>2, <2>3 DEF one, places
<1>3. mine \subseteq LinesIn(ls, f)
  <2> SUFFICES ASSUME NEW line \in mine PROVE line \in LinesIn(ls, f)
    OBVIOUS
  <2>1. line[1] = j /\ line[2] \in 1 .. n /\ line = <<line[1], line[2]>>
    OBVIOUS
  <2>2. line[2] \in 1 .. Lines /\ line[2] \in DOMAIN f[j]
    BY <1>1, <2>1
  <2> HIDE DEF n, mine
  <2> QED
    BY <2>1, <2>2 DEF LinesIn
<1>4. LinesIn(ls \ {j}, g) = LinesIn(ls, f) \ mine
  <2>1. \A line \in LinesIn(ls \ {j}, g) : line \in LinesIn(ls, f) \ mine
    BY DEF LinesIn
  <2>2. \A line \in LinesIn(ls, f) \ mine : line \in LinesIn(ls \ {j}, g)
    <3> SUFFICES ASSUME NEW line \in LinesIn(ls, f), line \notin mine
                 PROVE  line \in LinesIn(ls \ {j}, g)
      OBVIOUS
    <3>1. /\ line[1] \in ls /\ line[2] \in 1 .. Lines /\ line[2] \in DOMAIN f[line[1]]
          /\ line = <<line[1], line[2]>>
      BY DEF LinesIn
    <3>2. line[1] # j
      BY <1>1, <3>1
    <3> HIDE DEF mine
    <3> QED
      BY <3>1, <3>2 DEF LinesIn
  <2> QED
    BY <2>1, <2>2
<1> HIDE DEF n, mine
<1>5. IsFiniteSet(LinesIn(ls, f)) /\ Cardinality(LinesIn(ls, f)) \in Nat
  BY LinesFinite
<1>6. LinesIn(ls, f) \cap mine = mine
  BY <1>3
<1>7. Cardinality(LinesIn(ls, f) \ mine) = Cardinality(LinesIn(ls, f)) - Cardinality(mine)
  BY <1>5, <1>6, FS_Difference
<1> QED
  BY <1>2, <1>4, <1>7 DEF n

LEMMA TailOnce ==
  ASSUME NEW S, NEW s \in Seq(S), IsInjective(s), s # <<>>
  PROVE  /\ Tail(s) \in Seq(S) /\ IsInjective(Tail(s)) /\ Head(s) \in ToSet(s)
         /\ ToSet(Tail(s)) \subseteq ToSet(s) \ {Head(s)}
<1>1. /\ Tail(s) \in Seq(S) /\ Len(Tail(s)) = Len(s) - 1
      /\ \A i \in 1 .. Len(Tail(s)) : Tail(s)[i] = s[i + 1]
  BY HeadTailProperties
<1>2. /\ DOMAIN s = 1 .. Len(s) /\ Len(s) \in Nat \ {0} /\ DOMAIN Tail(s) = 1 .. Len(s) - 1
      /\ Head(s) = s[1]
  BY <1>1, LenProperties, EmptySeq
<1>3. \A i \in 1 .. Len(s) - 1 : Tail(s)[i] = s[i + 1] /\ i + 1 \in 1 .. Len(s) /\ i + 1 # 1
  BY <1>1, <1>2
<1>4. \A i, k \in DOMAIN s : s[i] = s[k] => i = k
  BY DEF IsInjective
<1>5. IsInjective(Tail(s))
  BY <1>2, <1>3, <1>4 DEF IsInjective
<1>6. 1 \in DOMAIN s
  BY <1>2
<1> QED
  BY <1>1, <1>2, <1>3, <1>4, <1>5, <1>6 DEF ToSet

LEMMA RemoveFirstOnce ==
  ASSUME NEW S, NEW s \in Seq(S), IsInjective(s), NEW x
  PROVE  /\ RemoveFirst(s, x) \in Seq(S) /\ IsInjective(RemoveFirst(s, x))
         /\ ToSet(RemoveFirst(s, x)) = ToSet(s) \ {x}
<1>1. DOMAIN s = 1 .. Len(s) /\ Len(s) \in Nat
  BY LenProperties
<1>2. \A i, k \in 1 .. Len(s) : s[i] = s[k] => i = k
  BY <1>1 DEF IsInjective
<1>3. CASE ~ \E i \in 1 .. Len(s) : s[i] = x
  <2>1. RemoveFirst(s, x) = s
    BY <1>3 DEF RemoveFirst
  <2> QED
    BY <1>1, <1>3, <2>1 DEF ToSet
<1>4. CASE \E i \in 1 .. Len(s) : s[i] = x
  <2>1. PICK n \in 1 .. Len(s) : s[n] = x
    BY <1>4
  <2>2. {i \in 1 .. Len(s) : s[i] = x} = {n}
    BY <1>2, <2>1
  <2>3. SelectInSeq(s, LAMBDA v : v = x) = n
    BY <2>2 DEF SelectInSeq, Min
  <2>4. RemoveFirst(s, x) = SubSeq(s, 1, n - 1) \o SubSeq(s, n + 1, Len(s))
    BY <1>4, <2>3 DEF RemoveFirst, RemoveAt
  <2> DEFINE front == SubSeq(s, 1, n - 1)
             back == SubSeq(s, n + 1, Len(s))
             rest == front \o back
  <2>5. \A i \in 1 .. Len(s) : s[i] \in S
    BY ElementOfSeq
  <2>6. /\ front \in Seq(S) /\ Len(front) = n - 1
        /\ \A i \in 1 .. n - 1 : front[i] = s[i]
    <3>1. \A i \in 1 .. n - 1 : s[i] \in S
      BY <1>1, <2>5
    <3> QED
      BY <1>1, <3>1, SubSeqProperties
  <2>7. /\ back \in Seq(S) /\ Len(back) = Len(s) - n
        /\ \A i \in 1 .. Len(s) - n : back[i] = s[n + i]
    <3>1. \A i \in n + 1 .. Len(s) : s[i] \in S
      BY <1>1, <2>5
    <3> DEFINE m == n + 1
    <3>2. m \in Int /\ Len(s) \in Int /\ \A i \in m .. Len(s) : s[i] \in S
      BY <1>1, <3>1
    <3> HIDE DEF m
    <3>3. /\ SubSeq(s, m, Len(s)) \in Seq(S)
          /\ Len(SubSeq(s, m, Len(s))) = IF m <= Len(s) THEN Len(s) - m + 1 ELSE 0
          /\ \A i \in 1 .. Len(s) - m + 1 : SubSeq(s, m, Len(s))[i] = s[m + i - 1]
      BY <3>2, SubSeqProperties
    <3>4. n \in Nat /\ n <= Len(s) /\ m = n + 1
      BY <1>1, <2>1 DEF m
    <3>5. Len(SubSeq(s, m, Len(s))) = Len(s) - n
      <4> DEFINE l == Len(SubSeq(s, m, Len(s)))
                 k == Len(s)
      <4>1. l = (IF m <= k THEN k - m + 1 ELSE 0) /\ k \in Nat /\ n \in Nat /\ n <= k
        BY <1>1, <3>3, <3>4
      <4> HIDE DEF l, k
      <4>2. l = k - n
        BY <3>4, <4>1
      <4> QED
        BY <4>2 DEF l, k
    <3>6. \A i \in 1 .. Len(s) - n : i \in 1 .. Len(s) - m + 1 /\ m + i - 1 = n + i
      BY <1>1, <3>4
    <3> QED
      BY <3>3, <3>5, <3>6 DEF m
  <2> HIDE DEF front, back
  <2>8. /\ rest \in Seq(S) /\ Len(rest) = Len(s) - 1 /\ DOMAIN rest = 1 .. Len(s) - 1
        /\ \A i \in 1 .. Len(s) - 1 :
             rest[i] = IF i <= n - 1 THEN front[i] ELSE back[i - (n - 1)]
    <3>1. /\ rest \in Seq(S) /\ Len(rest) = Len(front) + Len(back)
          /\ \A i \in 1 .. Len(front) + Len(back) :
               rest[i] = IF i <= Len(front) THEN front[i] ELSE back[i - Len(front)]
      BY <2>6, <2>7, ConcatProperties
    <3>2. Len(front) + Len(back) = Len(s) - 1
      BY <1>1, <2>6, <2>7
    <3> HIDE DEF rest
    <3>3. DOMAIN rest = 1 .. Len(s) - 1
      BY <3>1, <3>2, LenProperties
    <3> QED
      BY <2>6, <3>1, <3>2, <3>3
  <2>9. \A i \in 1 .. Len(s) - 1 : rest[i] = IF i < n THEN s[i] ELSE s[i + 1]
    <3> SUFFICES ASSUME NEW i \in 1 .. Len(s) - 1
                 PROVE  rest[i] = IF i < n THEN s[i] ELSE s[i + 1]
      OBVIOUS
    <3>1. CASE i < n
      <4>1. i <= n - 1 /\ i \in 1 .. n - 1
        BY <1>1, <3>1
      <4> HIDE DEF rest
      <4> QED
        BY <2>6, <2>8, <3>1, <4>1
    <3>2. CASE ~(i < n)
      <4>1. i - (n - 1) \in 1 .. Len(s) - n /\ n + (i - (n - 1)) = i + 1 /\ ~(i <= n - 1)
        BY <1>1, <3>2
      <4> QED
        BY <2>7, <2>8, <3>2, <4>1
    <3> QED
      BY <3>1, <3>2
  <2> HIDE DEF rest
  <2>10. IsInjective(rest)
    <3> SUFFICES ASSUME NEW i \in 1 .. Len(s) - 1, NEW k \in 1 .. Len(s) - 1, rest[i] = rest[k]
                 PROVE  i = k
      BY <2>8 DEF IsInjective
    <3> DEFINE at1 == IF i < n THEN i ELSE i + 1
               at2 == IF k < n THEN k ELSE k + 1
    <3>1. at1 \in 1 .. Len(s) /\ at2 \in 1 .. Len(s) /\ (at1 = at2 => i = k)
      BY <1>1
    <3>2. rest[i] = s[at1] /\ rest[k] = s[at2]
      BY <2>9
    <3> QED
      BY <1>2, <3>1, <3>2
  <2>11. \A y \in ToSet(rest) : y \in ToSet(s) /\ y # x
    <3> SUFFICES ASSUME NEW i \in 1 .. Len(s) - 1
                 PROVE  rest[i] \in ToSet(s) /\ rest[i] # x
      BY <2>8 DEF ToSet
    <3> DEFINE at1 == IF i < n THEN i ELSE i + 1
    <3>1. at1 \in 1 .. Len(s) /\ at1 # n
      BY <1>1
    <3>2. rest[i] = s[at1]
      BY <2>9
    <3> HIDE DEF at1
    <3> QED
      BY <1>1, <1>2, <2>1, <3>1, <3>2 DEF ToSet
  <2>12. \A y \in ToSet(s) : y # x => y \in ToSet(rest)
    <3> SUFFICES ASSUME NEW i \in 1 .. Len(s), s[i] # x
                 PROVE  s[i] \in ToSet(rest)
      BY <1>1 DEF ToSet
    <3> DEFINE at1 == IF i < n THEN i ELSE i - 1
    <3>1. i # n
      BY <2>1
    <3>2. at1 \in 1 .. Len(s) - 1 /\ i = IF at1 < n THEN at1 ELSE at1 + 1
      BY <1>1, <3>1
    <3>3. rest[at1] = s[i]
      BY <2>9, <3>2
    <3> HIDE DEF at1
    <3> QED
      BY <2>8, <3>2, <3>3 DEF ToSet
  <2>13. ToSet(rest) = ToSet(s) \ {x}
    BY <2>11, <2>12
  <2>14. RemoveFirst(s, x) = rest
    BY <2>4 DEF rest, front, back
  <2> QED
    BY <2>8, <2>10, <2>13, <2>14
<1> QED
  BY <1>3, <1>4

LEMMA AppendOnce ==
  ASSUME NEW S, NEW s \in Seq(S), IsInjective(s), NEW x \in S, x \notin ToSet(s)
  PROVE  /\ Append(s, x) \in Seq(S) /\ IsInjective(Append(s, x))
         /\ ToSet(Append(s, x)) = ToSet(s) \union {x}
<1> DEFINE t == Append(s, x)
<1>1. DOMAIN s = 1 .. Len(s) /\ Len(s) \in Nat
  BY LenProperties
<1>2. /\ t \in Seq(S) /\ DOMAIN t = 1 .. Len(s) + 1 /\ t[Len(s) + 1] = x
      /\ \A i \in 1 .. Len(s) : t[i] = s[i]
  BY AppendProperties, LenProperties
<1> HIDE DEF t
<1>3. \A i \in 1 .. Len(s) + 1 : i = Len(s) + 1 \/ i \in 1 .. Len(s)
  BY <1>1
<1>4. Len(s) + 1 \in 1 .. Len(s) + 1 /\ \A i \in 1 .. Len(s) : i \in 1 .. Len(s) + 1
  BY <1>1
<1>5. \A i \in 1 .. Len(s) : s[i] # x
  BY <1>1 DEF ToSet
<1>6. IsInjective(t)
  BY <1>1, <1>2, <1>3, <1>5 DEF IsInjective
<1>7. ToSet(t) = ToSet(s) \union {x}
  BY <1>1, <1>2, <1>3, <1>4 DEF ToSet
<1> QED
  BY <1>2, <1>6, <1>7 DEF t

BudgetInv == TailInv /\ PruningFits

\* A line more does not make the directory smaller, or a log in it unknown.
LEMMA WriteKeepsBudget ==
  ASSUME BudgetInv, NEW j \in Jobs, Write(j), wrote[j] < Lines, LogsFit',
         listing' = listing, total' = total, at' = "unlink" => at = "unlink",
         \A k \in Jobs : k # j => file'[k] = file[k],
         file'[j] = Append(Content(j), wrote[j] + 1), file'[j] # Absent
  PROVE  PruningFits'
<1> USE DEF BudgetInv
<1>1. /\ age \in Seq(Jobs) /\ IsInjective(age)
      /\ ToSet(age) = {k \in Jobs : file[k] # Absent}
  BY DEF PruningFits
<1>2. age' = Append(RemoveFirst(age, j), j)
  BY DEF Write
<1>3. /\ RemoveFirst(age, j) \in Seq(Jobs) /\ IsInjective(RemoveFirst(age, j))
      /\ ToSet(RemoveFirst(age, j)) = ToSet(age) \ {j}
  BY <1>1, RemoveFirstOnce
<1>4. /\ age' \in Seq(Jobs) /\ IsInjective(age')
      /\ ToSet(age') = (ToSet(age) \ {j}) \union {j}
  <2> DEFINE s == RemoveFirst(age, j)
  <2> HIDE DEF s
  <2>1. s \in Seq(Jobs) /\ IsInjective(s) /\ j \notin ToSet(s) /\ age' = Append(s, j)
    BY <1>2, <1>3 DEF s
  <2>2. /\ Append(s, j) \in Seq(Jobs) /\ IsInjective(Append(s, j))
        /\ ToSet(Append(s, j)) = ToSet(s) \union {j}
    BY <2>1, AppendOnce
  <2> QED
    BY <1>3, <2>1, <2>2 DEF s
<1>5. ToSet(age') = {k \in Jobs : file'[k] # Absent} /\ ToSet(age) \subseteq ToSet(age')
  BY <1>1, <1>4
<1>6. \A k \in ToSet(age) : DOMAIN file[k] \subseteq DOMAIN file'[k]
  <2> SUFFICES ASSUME NEW k \in ToSet(age)
               PROVE  DOMAIN file[k] \subseteq DOMAIN file'[k]
    OBVIOUS
  <2>1. k \in Jobs /\ file[k] # Absent
    BY <1>1
  <2>2. CASE k = j
    <3>1. file[j] \in Seq(1 .. Lines) /\ Content(j) = file[j] /\ wrote[j] + 1 \in 1 .. Lines
      BY <2>1, <2>2, SizesAssumption DEF TailInv, LogsFit, Content
    <3>2. /\ DOMAIN file[j] = 1 .. Len(file[j]) /\ Len(file[j]) \in Nat
          /\ DOMAIN Append(file[j], wrote[j] + 1) = 1 .. Len(file[j]) + 1
      BY <3>1, AppendProperties, LenProperties
    <3> QED
      BY <2>2, <3>1, <3>2
  <2>3. CASE k # j
    BY <2>1, <2>3
  <2> QED
    BY <2>2, <2>3
<1>7. /\ Size(ToSet(age)) = Cardinality(LinesIn(ToSet(age), file))
      /\ Size(ToSet(age))' = Cardinality(LinesIn(ToSet(age'), file'))
  BY DEF Size, LinesIn
<1>8. /\ IsFiniteSet(ToSet(age')) /\ IsFiniteSet(ToSet(age))
  BY <1>1, <1>4, SeqSetFinite
<1>9. /\ Size(ToSet(age)) <= Size(ToSet(age))'
      /\ Size(ToSet(age)) \in Nat /\ Size(ToSet(age))' \in Nat
  <2>1. Cardinality(LinesIn(ToSet(age), file)) <= Cardinality(LinesIn(ToSet(age'), file'))
    BY <1>5, <1>6, <1>8, LinesGrow
  <2>2. /\ Cardinality(LinesIn(ToSet(age), file)) \in Nat
        /\ Cardinality(LinesIn(ToSet(age'), file')) \in Nat
    BY <1>8, LinesFinite
  <2> QED
    BY <1>7, <2>1, <2>2
<1>10. at' = "unlink" => total' \in Int /\ total' <= Size(ToSet(age))'
  BY <1>9 DEF PruningFits
<1>11. /\ listing' \in Seq(Jobs) /\ IsInjective(listing')
       /\ ToSet(listing') \subseteq ToSet(age')
  BY <1>5 DEF PruningFits
<1> QED
  BY <1>4, <1>5, <1>10, <1>11 DEF PruningFits

\* What the total says, and what a deletion leaves.
LEMMA UnlinkFits ==
  ASSUME BudgetInv, Unlink
  PROVE  /\ PruningFits'
         /\ Size(ToSet(age)) > Budget
<1> USE DEF BudgetInv
<1> DEFINE f == Head(listing)
<1>1. /\ at = "unlink" /\ listing # <<>> /\ total > Budget
      /\ file' = [file EXCEPT ![f] = Absent] /\ age' = RemoveFirst(age, f)
      /\ total' = total - Len(file[f]) /\ listing' = Tail(listing)
  BY DEF Unlink, TakeOff
<1>2. /\ age \in Seq(Jobs) /\ IsInjective(age)
      /\ ToSet(age) = {j \in Jobs : file[j] # Absent}
      /\ listing \in Seq(Jobs) /\ IsInjective(listing)
      /\ ToSet(listing) \subseteq ToSet(age)
      /\ total \in Int /\ total <= Size(ToSet(age))
  BY <1>1 DEF PruningFits
<1>3. /\ Tail(listing) \in Seq(Jobs) /\ IsInjective(Tail(listing)) /\ f \in ToSet(listing)
      /\ ToSet(Tail(listing)) \subseteq ToSet(listing) \ {f}
  BY <1>1, <1>2, TailOnce
<1> HIDE DEF f
<1>4. /\ RemoveFirst(age, f) \in Seq(Jobs) /\ IsInjective(RemoveFirst(age, f))
      /\ ToSet(RemoveFirst(age, f)) = ToSet(age) \ {f}
  BY <1>2, RemoveFirstOnce
<1>5. f \in ToSet(age) /\ f \in Jobs /\ file[f] # Absent
  BY <1>2, <1>3
<1>6. /\ file'[f] = Absent /\ \A k \in Jobs \ {f} : file'[k] = file[k]
  BY <1>1, <1>5 DEF TailInv, LogsFit
<1>7. ToSet(age') = {j \in Jobs : file'[j] # Absent}
  BY <1>1, <1>2, <1>4, <1>6
<1>8. /\ file[f] \in Seq(1 .. Lines) /\ Len(file[f]) \in Nat /\ Len(file[f]) <= Lines
  <2>1. /\ file[f] \in Seq(1 .. Lines) /\ Len(file[f]) \in 1 .. wrote[f]
        /\ wrote[f] \in 0 .. Lines
    BY <1>5 DEF TailInv, LogsFit
  <2> QED
    BY <2>1, SizesAssumption
<1>9. IsFiniteSet(ToSet(age))
  BY <1>2, SeqSetFinite
<1>10. /\ Size(ToSet(age)) = Cardinality(LinesIn(ToSet(age), file))
       /\ Size(ToSet(age))' = Cardinality(LinesIn(ToSet(age'), file'))
  BY DEF Size, LinesIn
<1>11. /\ Cardinality(LinesIn(ToSet(age) \ {f}, file'))
          = Cardinality(LinesIn(ToSet(age), file)) - Len(file[f])
       /\ Cardinality(LinesIn(ToSet(age), file)) \in Nat
  <2>1. \A k \in ToSet(age) \ {f} : file'[k] = file[k]
    BY <1>2, <1>6
  <2> DEFINE ls == ToSet(age)
  <2>2. f \in ls /\ IsFiniteSet(ls) /\ \A k \in ls \ {f} : file'[k] = file[k]
    BY <1>5, <1>9, <2>1
  <2> HIDE DEF ls
  <2>3. Cardinality(LinesIn(ls \ {f}, file')) = Cardinality(LinesIn(ls, file)) - Len(file[f])
    BY <1>8, <2>2, LinesOfOneLess
  <2>4. Cardinality(LinesIn(ls, file)) \in Nat
    BY <2>2, LinesFinite
  <2> QED
    BY <2>3, <2>4 DEF ls
<1>12. ToSet(age') = ToSet(age) \ {f}
  BY <1>1, <1>4
<1>13. total' \in Int /\ total' <= Size(ToSet(age))'
  BY <1>1, <1>2, <1>8, <1>10, <1>11, <1>12
<1>14. ToSet(listing') \subseteq ToSet(age')
  BY <1>1, <1>2, <1>3, <1>12
<1>15. PruningFits'
  BY <1>1, <1>3, <1>4, <1>7, <1>13, <1>14 DEF PruningFits
<1>16. Size(ToSet(age)) > Budget
  BY <1>1, <1>2, <1>10, <1>11, SizesAssumption
<1> QED
  BY <1>15, <1>16

\* The other steps of a pruning.
LEMMA PruneFits ==
  ASSUME BudgetInv, ListLogs \/ SumSizes \/ UnlinkFails \/ Pruned
  PROVE  PruningFits'
<1> USE DEF BudgetInv
<1>1. UNCHANGED <<file, age>> /\ Size(ToSet(age))' = Size(ToSet(age))
  BY DEF ListLogs, SumSizes, UnlinkFails, Pruned, logs, Size
<1>2. CASE ListLogs
  BY <1>1, <1>2 DEF ListLogs, Goto, PruningFits
<1>3. CASE SumSizes
  <2>1. listing' = listing /\ total' = Size(ToSet(listing))
    BY <1>3 DEF SumSizes
  <2>2. IsFiniteSet(ToSet(age)) /\ IsFiniteSet(ToSet(listing)) /\ ToSet(listing) \subseteq ToSet(age)
    BY SeqSetFinite DEF PruningFits
  <2>3. /\ Size(ToSet(age)) = Cardinality(LinesIn(ToSet(age), file))
        /\ Size(ToSet(listing)) = Cardinality(LinesIn(ToSet(listing), file))
    BY DEF Size, LinesIn
  <2>4. Cardinality(LinesIn(ToSet(listing), file)) <= Cardinality(LinesIn(ToSet(age), file))
    BY <2>2, LinesGrow
  <2>5. Size(ToSet(listing)) \in Nat /\ Size(ToSet(listing)) <= Size(ToSet(age))
    BY <2>2, <2>3, <2>4, LinesFinite
  <2> QED
    BY <1>1, <2>1, <2>5 DEF PruningFits
<1>4. CASE UnlinkFails
  <2>1. /\ at = "unlink" /\ listing # <<>> /\ listing' = Tail(listing) /\ total' = total
    BY <1>4 DEF UnlinkFails
  <2>2. /\ Tail(listing) \in Seq(Jobs) /\ IsInjective(Tail(listing))
        /\ ToSet(Tail(listing)) \subseteq ToSet(listing)
    BY <2>1, TailOnce DEF PruningFits
  <2> QED
    BY <1>1, <2>1, <2>2 DEF PruningFits
<1>5. CASE Pruned
  <2>1. listing' = <<>> /\ at' = "create"
    BY <1>5 DEF Pruned, Goto
  <2>2. listing' \in Seq(Jobs) /\ IsInjective(listing') /\ ToSet(listing') = {}
    BY <2>1 DEF IsInjective, ToSet
  <2> QED
    BY <1>1, <2>1, <2>2 DEF PruningFits
<1> QED
  BY <1>2, <1>3, <1>4, <1>5

\* Steps that neither write a log nor prune.
ElseWhere ==
  \/ Rotate \/ NoRotation \/ TouchAudit \/ AppendAudit \/ LogEvent \/ Watch \/ LeaveTail
  \/ \E j \in Jobs : StartJob(j) \/ FinishJob(j) \/ OpenTail(j)

LEMMA BudgetStep ==
  ASSUME BudgetInv, [LogNext]_logVars
  PROVE  BudgetInv'
<1> USE DEF BudgetInv
<1>1. TailInv'
  BY TailInvStep
<1>2. CASE UNCHANGED <<prune, file, age>> /\ (at' = "unlink" => at = "unlink")
  <2>1. Size(ToSet(age))' = Size(ToSet(age))
    BY <1>2 DEF Size
  <2> QED
    BY <1>1, <1>2, <2>1 DEF PruningFits, prune
<1>3. CASE ListLogs \/ SumSizes \/ UnlinkFails \/ Pruned
  BY <1>1, <1>3, PruneFits
<1>4. CASE Unlink
  BY <1>1, <1>4, UnlinkFits
<1>5. CASE CreateLog
  <2>1. /\ at = "create" /\ at' = "rotate" /\ job' = job /\ status' = status
        /\ Write(job) /\ job \in Jobs /\ wrote[job] = 0 /\ UNCHANGED <<listing, total>>
    BY <1>5 DEF CreateLog, Goto, TailInv, JobsFit, Beginning, prune
  <2>2. /\ wrote[job] < Lines /\ at' \in {"menu"} \union Starting \union Watching
    BY <2>1, SizesAssumption DEF Starting
  <2>3. LogsFit
    BY DEF TailInv
  <2>4. /\ LogsFit' /\ \A k \in Jobs : k # job => file'[k] = file[k]
        /\ file'[job] = Append(Content(job), wrote[job] + 1) /\ file'[job] # Absent
    BY <2>1, <2>2, <2>3, WriteFits
  <2>5. PruningFits'
    BY <2>1, <2>2, <2>4, WriteKeepsBudget
  <2> QED
    BY <1>1, <2>5
<1>6. ASSUME NEW j \in Jobs, LogLine(j)
      PROVE  BudgetInv'
  <2>1. /\ UNCHANGED <<at, job, status, listing, total>> /\ Write(j) /\ wrote[j] < Lines
    BY <1>6 DEF LogLine, prune
  <2>2. LogsFit /\ at' \in {"menu"} \union Starting \union Watching
    BY <2>1 DEF TailInv, LogsFit
  <2>3. /\ LogsFit' /\ \A k \in Jobs : k # j => file'[k] = file[k]
        /\ file'[j] = Append(Content(j), wrote[j] + 1) /\ file'[j] # Absent
    BY <2>1, <2>2, WriteFits
  <2>4. PruningFits'
    BY <2>1, <2>3, WriteKeepsBudget
  <2> QED
    BY <1>1, <2>4
<1>7. ElseWhere \/ UNCHANGED logVars =>
        UNCHANGED <<prune, file, age>> /\ (at' = "unlink" => at = "unlink")
  <2>1. CASE UNCHANGED logVars
    BY <2>1 DEF logVars, prune
  <2>2. CASE Rotate \/ NoRotation \/ TouchAudit \/ AppendAudit \/ LogEvent
    BY <2>2 DEF Rotate, NoRotation, TouchAudit, AppendAudit, LogEvent, Goto, BackToMenu, logs
  <2>3. CASE Watch \/ LeaveTail
    BY <2>3 DEF Watch, PrintExisting, TakeSize, Poll, Grab, CheckStatus, LastLook, LeaveTail,
       Goto, BackToMenu, logs
  <2>4. CASE \E j \in Jobs : StartJob(j) \/ FinishJob(j) \/ OpenTail(j)
    BY <2>4 DEF StartJob, FinishJob, OpenTail, logs
  <2> QED
    BY <2>1, <2>2, <2>3, <2>4 DEF ElseWhere
<1> QED
  BY <1>2, <1>3, <1>4, <1>5, <1>6, <1>7 DEF LogNext, LogStart, ElseWhere

LEMMA BudgetInit == LogInit => BudgetInv
<1> SUFFICES ASSUME LogInit PROVE BudgetInv
  OBVIOUS
<1>1. /\ age = <<>> /\ listing = <<>> /\ at = "menu" /\ file = [j \in Jobs |-> Absent]
  BY DEF LogInit
<1>2. /\ <<>> \in Seq(Jobs) /\ IsInjective(<<>>) /\ ToSet(<<>>) = {}
  BY DEF IsInjective, ToSet
<1> QED
  BY <1>1, <1>2, TailInvInit DEF BudgetInv, PruningFits

\* The directory is over its budget whenever a log is deleted, although jobs write
\* while it is pruned and files that could not be deleted stay counted
\* (_prune_old_action_logs(), utils/job_handler.py:122).
THEOREM NothingDeletedWithinBudget == LogSpec => DeletedOverBudget
<1>1. BudgetInv /\ [LogNext]_logVars =>
        [\A j \in Jobs : file[j] # Absent /\ file'[j] = Absent =>
           Size(ToSet(age)) > Budget]_logVars
  <2> SUFFICES ASSUME BudgetInv, [LogNext]_logVars, NEW j \in Jobs,
                      file[j] # Absent, file'[j] = Absent
               PROVE  Size(ToSet(age)) > Budget
    OBVIOUS
  <2>1. Unlink
    <3>1. ASSUME NEW k \in Jobs, Write(k), wrote[k] < Lines, job' = job, status' = status,
                 at' \in {"menu"} \union Starting \union Watching
          PROVE  FALSE
      <4>1. LogsFit
        BY DEF BudgetInv, TailInv
      <4> QED
        BY <3>1, <4>1, WriteFits
    <3>2. ~CreateLog
      <4> SUFFICES ASSUME CreateLog PROVE FALSE
        OBVIOUS
      <4>1. /\ at' = "rotate" /\ job' = job /\ status' = status
            /\ Write(job) /\ job \in Jobs /\ wrote[job] = 0
        BY DEF CreateLog, Goto, BudgetInv, TailInv, JobsFit, Beginning
      <4> QED
        BY <3>1, <4>1, SizesAssumption DEF Starting
    <3>3. ~ \E k \in Jobs : LogLine(k)
      <4> SUFFICES ASSUME NEW k \in Jobs, LogLine(k) PROVE FALSE
        OBVIOUS
      <4> QED
        BY <3>1 DEF LogLine, BudgetInv, TailInv, LogsFit
    <3>4. file' # file
      OBVIOUS
    <3>5. CASE UNCHANGED logVars
      BY <3>4, <3>5 DEF logVars
    <3>6. CASE LogEvent \/ LeaveTail \/ \E k \in Jobs : StartJob(k) \/ FinishJob(k) \/ OpenTail(k)
      BY <3>4, <3>6 DEF LogEvent, LeaveTail, StartJob, FinishJob, OpenTail, logs
    <3>7. CASE Watch
      BY <3>4, <3>7 DEF Watch, PrintExisting, TakeSize, Poll, Grab, CheckStatus, LastLook, logs
    <3>8. CASE LogStart
      BY <3>2, <3>4, <3>8 DEF LogStart, ListLogs, SumSizes, UnlinkFails, Pruned, Rotate,
         NoRotation, TouchAudit, AppendAudit, logs
    <3> QED
      BY <3>3, <3>5, <3>6, <3>7, <3>8 DEF LogNext
  <2> QED
    BY <2>1, UnlinkFits
<1>2. BudgetInv /\ [LogNext]_logVars => BudgetInv'
  BY BudgetStep
<1> QED
  BY <1>1, <1>2, BudgetInit, PTL DEF LogSpec, DeletedOverBudget

-----------------------------------------------------------------------------
(* Types *)

\* What is left of the type invariant.  The bound on the entries holds because the main
\* thread begins nothing that would end in one entry too many.
RestFits ==
  /\ at = "menu" => job = NoJob
  /\ total \in Int
  /\ entry \in 0 .. Entries /\ (at \in Starting => entry < Entries)
  /\ shown \subseteq 1 .. Lines /\ missed \subseteq 1 .. Lines
  /\ pos \in 0 .. Lines /\ size \in 0 .. Lines

LogTypeInv == BudgetInv /\ RestFits

LEMMA ContentTypes ==
  ASSUME LogTypeInv, job \in Jobs
  PROVE  /\ ToSet(Content(job)) \subseteq 1 .. Lines /\ AddedLines \subseteq 1 .. Lines
         /\ Len(Content(job)) \in 0 .. Lines
<1> DEFINE c == Content(job)
           added == SubSeq(c, pos + 1, Len(c))
<1>1. c \in Seq(1 .. Lines) /\ Len(c) \in 0 .. Lines
  BY ContentFits, SizesAssumption DEF LogTypeInv, BudgetInv, TailInv
<1>2. pos \in Nat
  BY SizesAssumption DEF LogTypeInv, RestFits
<1>3. \A s \in Seq(1 .. Lines) : ToSet(s) \subseteq 1 .. Lines
  <2> SUFFICES ASSUME NEW s \in Seq(1 .. Lines), NEW i \in DOMAIN s
               PROVE  s[i] \in 1 .. Lines
    BY DEF ToSet
  <2> QED
    BY LenProperties, ElementOfSeq
<1>4. added \in Seq(1 .. Lines)
  <2> HIDE DEF c
  <2>1. ASSUME NEW k \in pos + 1 .. Len(c)
        PROVE  c[k] \in 1 .. Lines
    <3>1. k \in 1 .. Len(c)
      BY <1>1, <1>2
    <3> QED
      BY <1>1, <3>1, ElementOfSeq
  <2> QED
    BY <1>1, <1>2, <2>1, SubSeqProperties
<1> QED
  BY <1>1, <1>3, <1>4 DEF AddedLines

LEMMA RestStart ==
  ASSUME LogTypeInv, LogStart \/ LogEvent \/ \E j \in Jobs : StartJob(j)
  PROVE  RestFits'
<1> USE DEF LogTypeInv, RestFits, Starting
<1>1. UNCHANGED view
  BY DEF LogStart, LogEvent, StartJob, ListLogs, SumSizes, Unlink, UnlinkFails, Pruned,
     CreateLog, Rotate, NoRotation, TouchAudit, AppendAudit
<1>2. UNCHANGED <<shown, missed, pos, size>>
  BY <1>1 DEF view
<1>3. CASE LogEvent \/ \E j \in Jobs : StartJob(j)
  BY <1>2, <1>3 DEF LogEvent, StartJob, Goto, prune, trail
<1>4. CASE ListLogs \/ UnlinkFails \/ Pruned \/ CreateLog \/ Rotate \/ NoRotation \/ TouchAudit
  BY <1>2, <1>4 DEF ListLogs, UnlinkFails, Pruned, CreateLog, Rotate, NoRotation, TouchAudit,
     Goto, prune, trail
<1>5. CASE SumSizes
  <2>1. at = "sum" /\ at' = "unlink" /\ total' = Size(ToSet(listing)) /\ entry' = entry
    BY <1>5 DEF SumSizes, Goto, trail
  <2>2. Size(ToSet(listing)) \in Nat
    BY SeqSetFinite, LinesFinite DEF BudgetInv, PruningFits, Size, LinesIn
  <2> QED
    BY <1>2, <2>1, <2>2
<1>6. CASE Unlink
  <2>1. at = "unlink" /\ at' = at /\ entry' = entry /\ total \in Int
    BY <1>6 DEF Unlink, trail
  <2>2. PruningFits'
    BY <1>6, UnlinkFits
  <2>3. total' \in Int
    BY <2>1, <2>2 DEF PruningFits
  <2> QED
    BY <1>2, <2>1, <2>3
<1>7. CASE AppendAudit
  <2>1. /\ at = "append" /\ at' = "menu" /\ job' = NoJob /\ entry' = entry + 1
        /\ total' = total
    BY <1>7 DEF AppendAudit, BackToMenu, prune
  <2>2. entry' \in 0 .. Entries
    BY <2>1, SizesAssumption
  <2> QED
    BY <1>2, <2>1, <2>2
<1> QED
  BY <1>3, <1>4, <1>5, <1>6, <1>7 DEF LogStart

LEMMA RestWatch ==
  ASSUME LogTypeInv, Watch \/ LeaveTail
  PROVE  RestFits'
<1> USE DEF LogTypeInv, RestFits
<1>1. UNCHANGED <<total, entry>> /\ at' \notin Starting
  BY DEF Watch, PrintExisting, TakeSize, Poll, Grab, CheckStatus, LastLook, LeaveTail, Goto,
     BackToMenu, prune, trail, Starting
<1>2. CASE LeaveTail
  BY <1>1, <1>2, SizesAssumption DEF LeaveTail, BackToMenu
<1>3. CASE Watch
  <2>1. job \in Jobs /\ at' # "menu"
    BY <1>3 DEF Watch, PrintExisting, TakeSize, Poll, Grab, CheckStatus, LastLook, Goto,
       Watching, BudgetInv, TailInv, JobsFit
  <2>2. /\ ToSet(Content(job)) \subseteq 1 .. Lines /\ AddedLines \subseteq 1 .. Lines
        /\ Len(Content(job)) \in 0 .. Lines
    BY <2>1, ContentTypes
  <2>3. CASE PrintExisting
    BY <1>1, <2>1, <2>2, <2>3 DEF PrintExisting
  <2>4. CASE TakeSize
    BY <1>1, <2>1, <2>2, <2>4 DEF TakeSize
  <2>5. CASE Poll
    BY <1>1, <2>1, <2>2, <2>5 DEF Poll
  <2>6. CASE Grab
    BY <1>1, <2>1, <2>2, <2>6 DEF Grab
  <2>7. CASE CheckStatus
    BY <1>1, <2>1, <2>7 DEF CheckStatus, view
  <2>8. CASE LastLook
    BY <1>1, <2>1, <2>2, <2>8 DEF LastLook
  <2> QED
    BY <1>3, <2>3, <2>4, <2>5, <2>6, <2>7, <2>8 DEF Watch
<1> QED
  BY <1>2, <1>3

\* Every variable keeps its type, the view never points behind the file, and the order
\* of the logs is that of the files that exist.
THEOREM LogTypeCorrect == LogSpec => []LogTypeOK
<1>1. LogInit => LogTypeInv
  BY BudgetInit, SizesAssumption DEF LogInit, LogTypeInv, RestFits, Starting
<1>2. LogTypeInv /\ [LogNext]_logVars => LogTypeInv'
  <2> SUFFICES ASSUME LogTypeInv, [LogNext]_logVars PROVE LogTypeInv'
    OBVIOUS
  <2>1. BudgetInv'
    BY BudgetStep DEF LogTypeInv
  <2>2. RestFits'
    <3>1. CASE UNCHANGED logVars
      BY <3>1 DEF LogTypeInv, RestFits, logVars
    <3>2. CASE \E j \in Jobs : LogLine(j) \/ FinishJob(j)
      BY <3>2 DEF LogTypeInv, RestFits, LogLine, FinishJob, prune, trail, view
    <3>3. CASE \E j \in Jobs : OpenTail(j)
      BY <3>3 DEF LogTypeInv, RestFits, OpenTail, prune, trail, view, Starting
    <3> QED
      BY <3>1, <3>2, <3>3, RestStart, RestWatch DEF LogNext
  <2> QED
    BY <2>1, <2>2 DEF LogTypeInv
<1>3. LogTypeInv => LogTypeOK
  <2> SUFFICES ASSUME LogTypeInv PROVE LogTypeOK
    OBVIOUS
  <2>1. \A S : \A s \in Seq(S) : \A i \in DOMAIN s : s[i] \in S
    BY LenProperties, ElementOfSeq
  <2>2. \A i \in DOMAIN listing : listing[i] \in Jobs
    BY <2>1 DEF LogTypeInv, BudgetInv, PruningFits
  <2>3. \A j \in Jobs : file[j] = Absent \/ \A i \in DOMAIN file[j] : file[j][i] \in 1 .. Lines
    BY <2>1 DEF LogTypeInv, BudgetInv, TailInv, LogsFit
  <2> QED
    BY <2>2, <2>3 DEF LogTypeOK, LogTypeInv, RestFits, BudgetInv, TailInv, LogsFit, PruningFits
<1> QED
  BY <1>1, <1>2, <1>3, PTL DEF LogSpec
=============================================================================
