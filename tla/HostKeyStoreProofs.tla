------------------------- MODULE HostKeyStoreProofs -------------------------
(***************************************************************************)
(* Proofs about HostKeyStore, for any calls, hosts and keys.               *)
(***************************************************************************)
EXTENDS HostKeyStore, TLAPS

-----------------------------------------------------------------------------
(* What holds of the running calls under every fault *)

\* The lock belongs to the one call that is inside its second critical section.
LockOwner == \A c \in Calls : pc[c] \in LockPoints <=> lock = c

\* Past _load() the table is loaded; a dead process has no calls.
Progress ==
  /\ ~up => ~loaded
  /\ \A c \in Calls :
       /\ pc[c] \in {"check"} \union LockPoints => loaded
       /\ ~up => pc[c] = "start"
       /\ verdict[c] # "none" => pc[c] = "done"

\* A verdict agrees with the table for as long as the process lives.
VerdictsAgree ==
  \A c \in Calls :
    /\ verdict[c] = "accept" => loaded /\ Known(c) = request[c].key
    /\ verdict[c] = "reject" => loaded /\ Known(c) \notin {NoKey, request[c].key}

\* What a call that holds the lock is doing to the table.
Learning ==
  \A c \in Calls :
    /\ pc[c] = "learn" => Known(c) = NoKey
    /\ pc[c] \in {"saveStore", "saveSig"} =>
         Known(c) = request[c].key /\ image[c].content = store

IInv == TypeOK /\ LockOwner /\ Progress /\ VerdictsAgree /\ Learning

LEMMA DefaultsTyped ==
  /\ NoRequest \in [host : Hosts, key : Keys]
  /\ Empty \in Tables
  /\ NoImage \in [content : Tables, sig : Tables \union {BadSig}]
<1>1. \E r \in [host : Hosts, key : Keys] : TRUE
  <2>1. PICK h \in Hosts, k \in Keys : TRUE
    BY NonEmptyAssumption
  <2>2. [host |-> h, key |-> k] \in [host : Hosts, key : Keys]
    OBVIOUS
  <2> QED
    BY <2>2
<1>2. NoRequest \in [host : Hosts, key : Keys]
  BY <1>1 DEF NoRequest
<1>3. Empty \in Tables
  BY DEF Empty, Tables
<1> QED
  BY <1>2, <1>3 DEF NoImage

LEMMA InitInvariant == Init => IInv
<1> SUFFICES ASSUME Init PROVE IInv
  OBVIOUS
<1>1. TypeOK
  BY DefaultsTyped DEF Init, TypeOK, NoCallsYet, Points
<1>2. LockOwner
  BY NamesAssumption DEF Init, NoCallsYet, LockOwner, LockPoints
<1>3. Progress /\ VerdictsAgree /\ Learning
  BY DEF Init, NoCallsYet, Progress, VerdictsAgree, Learning, LockPoints
<1> QED
  BY <1>1, <1>2, <1>3 DEF IInv

LEMMA LearnedTyped ==
  ASSUME TypeOK, NEW c \in Calls
  PROVE  Learned(c) \in Tables
BY DEF TypeOK, Learned, Tables

\* Every step preserves the invariant.
LEMMA StepInvariant ==
  ASSUME IInv, [Next]_vars
  PROVE  IInv'
<1> USE DEF IInv
<1>1. ASSUME NEW c \in Calls, Begin(c) PROVE IInv'
  BY <1>1, DefaultsTyped, NamesAssumption
  DEF Begin, Goto, memory, disk, TypeOK, LockOwner, Progress, VerdictsAgree, Learning, Known,
      LockPoints, Points
<1>2. ASSUME NEW c \in Calls, LoadSkips(c) PROVE IInv'
  BY <1>2, DefaultsTyped, NamesAssumption
  DEF LoadSkips, Goto, LockFree, NeedsLoad, memory, disk, TypeOK, LockOwner, Progress,
      VerdictsAgree, Learning, Known, LockPoints, Points
<1>3. ASSUME NEW c \in Calls, LoadFresh(c) PROVE IInv'
  BY <1>3, DefaultsTyped, NamesAssumption
  DEF LoadFresh, Goto, LockFree, NeedsLoad, disk, TypeOK, LockOwner, Progress, VerdictsAgree,
      Learning, Known, LockPoints, Points
<1>4. ASSUME NEW c \in Calls, LoadVerified(c) PROVE IInv'
  BY <1>4, DefaultsTyped, NamesAssumption
  DEF LoadVerified, Goto, LockFree, NeedsLoad, disk, TypeOK, LockOwner, Progress,
      VerdictsAgree, Learning, Known, LockPoints, Points
<1>5. ASSUME NEW c \in Calls, LoadFails(c) PROVE IInv'
  BY <1>5, DefaultsTyped, NamesAssumption
  DEF LoadFails, Goto, Return, LockFree, NeedsLoad, VerifyOutcomes, StoreAfterFailedLoad,
      disk, TypeOK, LockOwner, Progress, VerdictsAgree, Learning, Known, LockPoints, Points
<1>6. ASSUME NEW c \in Calls, CheckNew(c) PROVE IInv'
  BY <1>6, DefaultsTyped, NamesAssumption
  DEF CheckNew, Goto, LockFree, memory, disk, TypeOK, LockOwner, Progress, VerdictsAgree,
      Learning, Known, LockPoints, Points
<1>7. ASSUME NEW c \in Calls, CheckKnown(c) PROVE IInv'
  BY <1>7, DefaultsTyped, NamesAssumption
  DEF CheckKnown, Goto, Return, LockFree, memory, disk, TypeOK, LockOwner, Progress,
      VerdictsAgree, Learning, Known, LockPoints, Points
<1>8. ASSUME NEW c \in Calls, LearnSigns(c) PROVE IInv'
  <2> Learned(c) \in Tables
    BY LearnedTyped
  <2>1. TypeOK'
    BY <1>8, DefaultsTyped DEF LearnSigns, Goto, disk, TypeOK, Points, Progress, LockPoints
  <2>2. LockOwner' /\ Progress'
    BY <1>8, NamesAssumption DEF LearnSigns, Goto, disk, TypeOK, LockOwner, Progress, LockPoints
  <2>3. VerdictsAgree' /\ Learning'
    BY <1>8, NamesAssumption
    DEF LearnSigns, Goto, disk, TypeOK, LockOwner, Progress, LockPoints, VerdictsAgree,
        Learning, Known, Learned, Tables
  <2> QED
    BY <2>1, <2>2, <2>3
<1>9. ASSUME NEW c \in Calls, LearnRaises(c) PROVE IInv'
  <2> Learned(c) \in Tables
    BY LearnedTyped
  <2>1. TypeOK'
    BY <1>9, DefaultsTyped
    DEF LearnRaises, Goto, Return, Unlock, disk, TypeOK, Points, Progress, LockPoints
  <2>2. LockOwner' /\ Progress'
    BY <1>9, NamesAssumption
    DEF LearnRaises, Goto, Return, Unlock, disk, TypeOK, LockOwner, Progress, LockPoints
  <2>3. VerdictsAgree' /\ Learning'
    BY <1>9, NamesAssumption
    DEF LearnRaises, Goto, Return, Unlock, disk, TypeOK, LockOwner, Progress, LockPoints,
        VerdictsAgree, Learning, Known, Learned, Tables
  <2> QED
    BY <2>1, <2>2, <2>3
<1>10. ASSUME NEW c \in Calls, RenameStore(c) PROVE IInv'
  BY <1>10, DefaultsTyped, NamesAssumption
  DEF RenameStore, Goto, WriteStore, memory, TypeOK, LockOwner, Progress, VerdictsAgree,
      Learning, Known, LockPoints, Points
<1>11. ASSUME NEW c \in Calls, RenameSig(c) PROVE IInv'
  BY <1>11, DefaultsTyped, NamesAssumption
  DEF RenameSig, Goto, Return, Unlock, memory, TypeOK, LockOwner, Progress, VerdictsAgree,
      Learning, Known, LockPoints, Points
<1>12. ASSUME NEW c \in Calls, SaveFails(c) PROVE IInv'
  BY <1>12, DefaultsTyped, NamesAssumption
  DEF SaveFails, Goto, Return, Unlock, memory, disk, TypeOK, LockOwner, Progress,
      VerdictsAgree, Learning, Known, LockPoints, Points
<1>13. ASSUME TearKey PROVE IInv'
  BY <1>13, DefaultsTyped, NamesAssumption
  DEF TearKey, callVars, disk, TypeOK, LockOwner, Progress, VerdictsAgree, Learning, Known,
      LockPoints, Points
<1>14. ASSUME WipeKey PROVE IInv'
  BY <1>14, DefaultsTyped, NamesAssumption
  DEF WipeKey, callVars, disk, TypeOK, LockOwner, Progress, VerdictsAgree, Learning, Known,
      LockPoints, Points
<1>15. ASSUME Crash PROVE IInv'
  BY <1>15, DefaultsTyped, NamesAssumption
  DEF Crash, NoCallsYet, disk, TypeOK, LockOwner, Progress, VerdictsAgree, Learning, Known,
      LockPoints, Points
<1>16. ASSUME Restart PROVE IInv'
  BY <1>16, DefaultsTyped, NamesAssumption
  DEF Restart, callVars, disk, TypeOK, LockOwner, Progress, VerdictsAgree, Learning, Known,
      LockPoints, Points
<1>17. ASSUME DeleteFiles PROVE IInv'
  BY <1>17, DefaultsTyped, NamesAssumption
  DEF DeleteFiles, memory, callVars, TypeOK, LockOwner, Progress, VerdictsAgree, Learning,
      Known, LockPoints, Points
<1>18. CASE UNCHANGED vars
  BY <1>18 DEF vars, memory, disk, callVars, TypeOK, LockOwner, Progress, VerdictsAgree, Learning,
               Known
<1> QED
  BY <1>1, <1>2, <1>3, <1>4, <1>5, <1>6, <1>7, <1>8, <1>9, <1>10, <1>11, <1>12, <1>13, <1>14,
     <1>15, <1>16, <1>17, <1>18
  DEF Next, Verify, Load, Check, Save

-----------------------------------------------------------------------------
(* Theorems *)

THEOREM Invariance == Spec => []IInv
<1>1. IInv /\ [Next]_vars => IInv'
  BY StepInvariant
<1> QED
  BY <1>1, InitInvariant, PTL DEF Spec

\* Whatever goes wrong, table, lock, calls and files stay well-formed; a table
\* that was not verified is never in place.
THEOREM TypeCorrect == Spec => []TypeOK
<1>1. IInv => TypeOK
  BY DEF IInv
<1> QED
  BY <1>1, Invariance, PTL

-----------------------------------------------------------------------------
(* The file never loses a host *)

ReadableStore == "storeUnreadable" \notin Faults

\* Once loaded, the table knows at least what the file knows.
DiskKnown ==
  loaded /\ diskStore # Absent =>
    \A h \in Hosts : diskStore[h] \in {store[h], NoKey}

LEMMA DiskKnownStep ==
  ASSUME ReadableStore, IInv, DiskKnown, [Next]_vars
  PROVE  DiskKnown'
<1> USE DEF IInv, ReadableStore
<1>1. ASSUME NEW c \in Calls, Begin(c) PROVE DiskKnown'
  BY <1>1, NamesAssumption
  DEF Begin, Goto, memory, disk, TypeOK, LockOwner, Progress, LockPoints, VerdictsAgree,
      Learning, Known, DiskKnown
<1>2. ASSUME NEW c \in Calls, LoadSkips(c) PROVE DiskKnown'
  BY <1>2, NamesAssumption
  DEF LoadSkips, Goto, LockFree, NeedsLoad, memory, disk, TypeOK, LockOwner, Progress,
      LockPoints, VerdictsAgree, Learning, Known, DiskKnown
<1>3. ASSUME NEW c \in Calls, LoadFresh(c) PROVE DiskKnown'
  BY <1>3, NamesAssumption
  DEF LoadFresh, Goto, LockFree, NeedsLoad, disk, TypeOK, LockOwner, Progress, LockPoints,
      VerdictsAgree, Learning, Known, DiskKnown
<1>4. ASSUME NEW c \in Calls, LoadVerified(c) PROVE DiskKnown'
  BY <1>4, NamesAssumption
  DEF LoadVerified, Goto, LockFree, NeedsLoad, disk, TypeOK, LockOwner, Progress, LockPoints,
      VerdictsAgree, Learning, Known, DiskKnown
<1>5. ASSUME NEW c \in Calls, LoadFails(c) PROVE DiskKnown'
  BY <1>5, NamesAssumption
  DEF LoadFails, Goto, Return, LockFree, NeedsLoad, VerifyOutcomes, StoreAfterFailedLoad,
      disk, TypeOK, LockOwner, Progress, LockPoints, VerdictsAgree, Learning, Known,
      DiskKnown
<1>6. ASSUME NEW c \in Calls, CheckNew(c) PROVE DiskKnown'
  BY <1>6, NamesAssumption
  DEF CheckNew, Goto, LockFree, memory, disk, TypeOK, LockOwner, Progress, LockPoints,
      VerdictsAgree, Learning, Known, DiskKnown
<1>7. ASSUME NEW c \in Calls, CheckKnown(c) PROVE DiskKnown'
  BY <1>7, NamesAssumption
  DEF CheckKnown, Goto, Return, LockFree, memory, disk, TypeOK, LockOwner, Progress,
      LockPoints, VerdictsAgree, Learning, Known, DiskKnown
<1>8. ASSUME NEW c \in Calls, LearnSigns(c) PROVE DiskKnown'
  BY <1>8, NamesAssumption
  DEF LearnSigns, Goto, Learned, Tables, disk, TypeOK, LockOwner, Progress, LockPoints,
      VerdictsAgree, Learning, Known, DiskKnown
<1>9. ASSUME NEW c \in Calls, LearnRaises(c) PROVE DiskKnown'
  BY <1>9, NamesAssumption
  DEF LearnRaises, Goto, Return, Unlock, Learned, Tables, disk, TypeOK, LockOwner, Progress,
      LockPoints, VerdictsAgree, Learning, Known, DiskKnown
<1>10. ASSUME NEW c \in Calls, RenameStore(c) PROVE DiskKnown'
  BY <1>10, NamesAssumption
  DEF RenameStore, Goto, WriteStore, memory, TypeOK, LockOwner, Progress, LockPoints,
      VerdictsAgree, Learning, Known, DiskKnown
<1>11. ASSUME NEW c \in Calls, RenameSig(c) PROVE DiskKnown'
  BY <1>11, NamesAssumption
  DEF RenameSig, Goto, Return, Unlock, memory, TypeOK, LockOwner, Progress, LockPoints,
      VerdictsAgree, Learning, Known, DiskKnown
<1>12. ASSUME NEW c \in Calls, SaveFails(c) PROVE DiskKnown'
  BY <1>12, NamesAssumption
  DEF SaveFails, Goto, Return, Unlock, memory, disk, TypeOK, LockOwner, Progress, LockPoints,
      VerdictsAgree, Learning, Known, DiskKnown
<1>13. ASSUME TearKey PROVE DiskKnown'
  BY <1>13, NamesAssumption
  DEF TearKey, callVars, disk, TypeOK, LockOwner, Progress, LockPoints, VerdictsAgree,
      Learning, Known, DiskKnown
<1>14. ASSUME WipeKey PROVE DiskKnown'
  BY <1>14, NamesAssumption
  DEF WipeKey, callVars, disk, TypeOK, LockOwner, Progress, LockPoints, VerdictsAgree,
      Learning, Known, DiskKnown
<1>15. ASSUME Crash PROVE DiskKnown'
  BY <1>15, NamesAssumption
  DEF Crash, NoCallsYet, disk, TypeOK, LockOwner, Progress, LockPoints, VerdictsAgree,
      Learning, Known, DiskKnown
<1>16. ASSUME Restart PROVE DiskKnown'
  BY <1>16, NamesAssumption
  DEF Restart, callVars, disk, TypeOK, LockOwner, Progress, LockPoints, VerdictsAgree,
      Learning, Known, DiskKnown
<1>17. ASSUME DeleteFiles PROVE DiskKnown'
  BY <1>17, NamesAssumption
  DEF DeleteFiles, memory, callVars, TypeOK, LockOwner, Progress, LockPoints, VerdictsAgree,
      Learning, Known, DiskKnown
<1>18. CASE UNCHANGED vars
  BY <1>18 DEF vars, memory, disk, callVars, DiskKnown
<1> QED
  BY <1>1, <1>2, <1>3, <1>4, <1>5, <1>6, <1>7, <1>8, <1>9, <1>10, <1>11, <1>12, <1>13, <1>14,
     <1>15, <1>16, <1>17, <1>18
  DEF Next, Verify, Load, Check, Save

LEMMA DiskKnownInvariance ==
  ASSUME ReadableStore
  PROVE  Spec => [](IInv /\ DiskKnown)
<1>1. Init => DiskKnown
  BY DEF Init, DiskKnown
<1>2. IInv /\ DiskKnown /\ [Next]_vars => DiskKnown'
  BY DiskKnownStep
<1> QED
  BY <1>1, <1>2, Invariance, PTL DEF Spec

\* As long as the store file can be read, no save drops or changes a host that
\* the file holds.
THEOREM KeysNeverLost ==
  ASSUME ReadableStore
  PROVE  Spec => KnownKeysKept
<1> DEFINE Kept ==
      diskStore # Absent /\ diskStore' # Absent =>
        \A h \in Hosts : diskStore[h] # NoKey => diskStore'[h] = diskStore[h]
<1>1. ASSUME IInv, DiskKnown, [Next]_vars PROVE [Kept]_vars
  <2>1. ASSUME NEW c \in Calls, RenameStore(c) PROVE Kept
    BY <1>1, <2>1
    DEF IInv, TypeOK, RenameStore, WriteStore, Learning, Progress, LockPoints, DiskKnown
  <2>2. ASSUME NEW c \in Calls,
               Begin(c) \/ Load(c) \/ Check(c) \/ LearnSigns(c) \/ LearnRaises(c)
                 \/ RenameSig(c) \/ SaveFails(c)
        PROVE  diskStore' = diskStore
    BY <2>2
    DEF Begin, Load, LoadSkips, LoadFresh, LoadVerified, LoadFails, Check, CheckNew, CheckKnown,
        LearnSigns, LearnRaises, RenameSig, SaveFails, disk
  <2>3. ASSUME TearKey \/ WipeKey \/ Crash \/ Restart \/ UNCHANGED vars
        PROVE  diskStore' = diskStore
    BY <2>3 DEF TearKey, WipeKey, Crash, Restart, disk, vars
  <2>4. CASE DeleteFiles
    BY <2>4 DEF DeleteFiles
  <2> QED
    BY <1>1, <2>1, <2>2, <2>3, <2>4 DEF Next, Verify, Save
<1>2. IInv /\ DiskKnown /\ [Next]_vars => [Kept]_vars
  BY <1>1
<1> QED
  BY <1>2, DiskKnownInvariance, PTL DEF Spec, KnownKeysKept

-----------------------------------------------------------------------------
(* No false alarm *)

QuietFaults ==
  Faults \intersect {"crashInSave", "sigUnwritable", "sigUnreadable", "tornKey"} = {}

\* Store file and signature match, except between the two renames.
PairMatches ==
  /\ hmacKey # "torn"
  /\ \A c \in Calls :
       /\ verdict[c] # "abort"
       /\ pc[c] \in {"saveStore", "saveSig"} => image[c].sig = image[c].content
       /\ pc[c] = "saveSig" => diskStore \in {Absent, image[c].content}
  /\ \/ diskStore = Absent
     \/ diskSig = diskStore
     \/ \E c \in Calls : pc[c] = "saveSig"

LEMMA PairMatchesStep ==
  ASSUME QuietFaults, IInv, PairMatches, [Next]_vars
  PROVE  PairMatches'
<1> USE DEF IInv, QuietFaults
<1>1. ASSUME NEW c \in Calls, Begin(c) PROVE PairMatches'
  BY <1>1, NamesAssumption
  DEF Begin, Goto, memory, disk, TypeOK, LockOwner, Progress, LockPoints, VerdictsAgree,
      Learning, Known, PairMatches
<1>2. ASSUME NEW c \in Calls, LoadSkips(c) PROVE PairMatches'
  BY <1>2, NamesAssumption
  DEF LoadSkips, Goto, LockFree, NeedsLoad, memory, disk, TypeOK, LockOwner, Progress,
      LockPoints, VerdictsAgree, Learning, Known, PairMatches
<1>3. ASSUME NEW c \in Calls, LoadFresh(c) PROVE PairMatches'
  BY <1>3, NamesAssumption
  DEF LoadFresh, Goto, LockFree, NeedsLoad, disk, TypeOK, LockOwner, Progress, LockPoints,
      VerdictsAgree, Learning, Known, PairMatches
<1>4. ASSUME NEW c \in Calls, LoadVerified(c) PROVE PairMatches'
  BY <1>4, NamesAssumption
  DEF LoadVerified, Goto, LockFree, NeedsLoad, disk, TypeOK, LockOwner, Progress, LockPoints,
      VerdictsAgree, Learning, Known, PairMatches
<1>5. ASSUME NEW c \in Calls, LoadFails(c) PROVE PairMatches'
  BY <1>5, NamesAssumption
  DEF LoadFails, Goto, Return, LockFree, NeedsLoad, VerifyOutcomes, StoreAfterFailedLoad,
      disk, TypeOK, LockOwner, Progress, LockPoints, VerdictsAgree, Learning, Known,
      PairMatches
<1>6. ASSUME NEW c \in Calls, CheckNew(c) PROVE PairMatches'
  BY <1>6, NamesAssumption
  DEF CheckNew, Goto, LockFree, memory, disk, TypeOK, LockOwner, Progress, LockPoints,
      VerdictsAgree, Learning, Known, PairMatches
<1>7. ASSUME NEW c \in Calls, CheckKnown(c) PROVE PairMatches'
  BY <1>7, NamesAssumption
  DEF CheckKnown, Goto, Return, LockFree, memory, disk, TypeOK, LockOwner, Progress,
      LockPoints, VerdictsAgree, Learning, Known, PairMatches
<1>8. ASSUME NEW c \in Calls, LearnSigns(c) PROVE PairMatches'
  BY <1>8, NamesAssumption
  DEF LearnSigns, Goto, Learned, Tables, disk, TypeOK, LockOwner, Progress, LockPoints,
      VerdictsAgree, Learning, Known, PairMatches
<1>9. ASSUME NEW c \in Calls, LearnRaises(c) PROVE PairMatches'
  BY <1>9, NamesAssumption
  DEF LearnRaises, Goto, Return, Unlock, Learned, Tables, disk, TypeOK, LockOwner, Progress,
      LockPoints, VerdictsAgree, Learning, Known, PairMatches
<1>10. ASSUME NEW c \in Calls, RenameStore(c) PROVE PairMatches'
  BY <1>10, NamesAssumption
  DEF RenameStore, Goto, WriteStore, memory, TypeOK, LockOwner, Progress, LockPoints,
      VerdictsAgree, Learning, Known, PairMatches
<1>11. ASSUME NEW c \in Calls, RenameSig(c) PROVE PairMatches'
  BY <1>11, NamesAssumption
  DEF RenameSig, Goto, Return, Unlock, memory, TypeOK, LockOwner, Progress, LockPoints,
      VerdictsAgree, Learning, Known, PairMatches
<1>12. ASSUME NEW c \in Calls, SaveFails(c) PROVE PairMatches'
  BY <1>12, NamesAssumption
  DEF SaveFails, Goto, Return, Unlock, memory, disk, TypeOK, LockOwner, Progress, LockPoints,
      VerdictsAgree, Learning, Known, PairMatches
<1>13. ASSUME TearKey PROVE PairMatches'
  BY <1>13, NamesAssumption
  DEF TearKey, callVars, disk, TypeOK, LockOwner, Progress, LockPoints, VerdictsAgree,
      Learning, Known, PairMatches
<1>14. ASSUME WipeKey PROVE PairMatches'
  BY <1>14, NamesAssumption
  DEF WipeKey, callVars, disk, TypeOK, LockOwner, Progress, LockPoints, VerdictsAgree,
      Learning, Known, PairMatches
<1>15. ASSUME Crash PROVE PairMatches'
  BY <1>15, NamesAssumption
  DEF Crash, NoCallsYet, disk, TypeOK, LockOwner, Progress, LockPoints, VerdictsAgree,
      Learning, Known, PairMatches
<1>16. ASSUME Restart PROVE PairMatches'
  BY <1>16, NamesAssumption
  DEF Restart, callVars, disk, TypeOK, LockOwner, Progress, LockPoints, VerdictsAgree,
      Learning, Known, PairMatches
<1>17. ASSUME DeleteFiles PROVE PairMatches'
  BY <1>17, NamesAssumption
  DEF DeleteFiles, memory, callVars, TypeOK, LockOwner, Progress, LockPoints, VerdictsAgree,
      Learning, Known, PairMatches
<1>18. CASE UNCHANGED vars
  BY <1>18 DEF vars, memory, disk, callVars, PairMatches
<1> QED
  BY <1>1, <1>2, <1>3, <1>4, <1>5, <1>6, <1>7, <1>8, <1>9, <1>10, <1>11, <1>12, <1>13, <1>14,
     <1>15, <1>16, <1>17, <1>18
  DEF Next, Verify, Load, Check, Save

\* When the process does not die between the renames, the signature can be read
\* and written and no call reads the key while it is wiped, the tamper alarm
\* never goes off by the tool's own doing, for any number of concurrent calls.
THEOREM NoAlarm ==
  ASSUME QuietFaults
  PROVE  Spec => []NoFalseTamperAlarm
<1>1. Init => PairMatches
  BY DEF Init, NoCallsYet, PairMatches
<1>2. IInv /\ PairMatches /\ [Next]_vars => PairMatches'
  BY PairMatchesStep
<1>3. PairMatches => NoFalseTamperAlarm
  BY DEF PairMatches, NoFalseTamperAlarm
<1> QED
  BY <1>1, <1>2, <1>3, Invariance, PTL DEF Spec

-----------------------------------------------------------------------------
(* Accepted keys are on disk *)

KeepingFaults ==
  Faults \intersect {"storeUnwritable", "signOut", "deleteWhileUp"} = {}

OnDisk(h) == diskStore # Absent /\ diskStore[h] = store[h]

\* Everything in the table is in the file or about to be.
TableSaved ==
  /\ up => hmacKey = "vault"
  /\ \A h \in Hosts :
       store[h] # NoKey =>
         OnDisk(h) \/ \E c \in Calls : pc[c] = "saveStore" /\ request[c].host = h
  /\ FirstSightPersisted

LEMMA TableSavedStep ==
  ASSUME KeepingFaults, IInv, TableSaved, [Next]_vars
  PROVE  TableSaved'
<1> USE DEF IInv, KeepingFaults
<1>1. ASSUME NEW c \in Calls, Begin(c) PROVE TableSaved'
  BY <1>1, NamesAssumption
  DEF Begin, Goto, memory, disk, TypeOK, LockOwner, Progress, LockPoints, VerdictsAgree,
      Learning, Known, TableSaved, OnDisk, FirstSightPersisted, Empty
<1>2. ASSUME NEW c \in Calls, LoadSkips(c) PROVE TableSaved'
  BY <1>2, NamesAssumption
  DEF LoadSkips, Goto, LockFree, NeedsLoad, memory, disk, TypeOK, LockOwner, Progress,
      LockPoints, VerdictsAgree, Learning, Known, TableSaved, OnDisk, FirstSightPersisted,
      Empty
<1>3. ASSUME NEW c \in Calls, LoadFresh(c) PROVE TableSaved'
  BY <1>3, NamesAssumption
  DEF LoadFresh, Goto, LockFree, NeedsLoad, disk, TypeOK, LockOwner, Progress, LockPoints,
      VerdictsAgree, Learning, Known, TableSaved, OnDisk, FirstSightPersisted, Empty
<1>4. ASSUME NEW c \in Calls, LoadVerified(c) PROVE TableSaved'
  BY <1>4, NamesAssumption
  DEF LoadVerified, Goto, LockFree, NeedsLoad, disk, TypeOK, LockOwner, Progress, LockPoints,
      VerdictsAgree, Learning, Known, TableSaved, OnDisk, FirstSightPersisted, Empty
<1>5. ASSUME NEW c \in Calls, LoadFails(c) PROVE TableSaved'
  BY <1>5, NamesAssumption
  DEF LoadFails, Goto, Return, LockFree, NeedsLoad, VerifyOutcomes, StoreAfterFailedLoad,
      disk, TypeOK, LockOwner, Progress, LockPoints, VerdictsAgree, Learning, Known,
      TableSaved, OnDisk, FirstSightPersisted, Empty
<1>6. ASSUME NEW c \in Calls, CheckNew(c) PROVE TableSaved'
  BY <1>6, NamesAssumption
  DEF CheckNew, Goto, LockFree, memory, disk, TypeOK, LockOwner, Progress, LockPoints,
      VerdictsAgree, Learning, Known, TableSaved, OnDisk, FirstSightPersisted, Empty
<1>7. ASSUME NEW c \in Calls, CheckKnown(c) PROVE TableSaved'
  BY <1>7, NamesAssumption
  DEF CheckKnown, Goto, Return, LockFree, memory, disk, TypeOK, LockOwner, Progress,
      LockPoints, VerdictsAgree, Learning, Known, TableSaved, OnDisk, FirstSightPersisted,
      Empty
<1>8. ASSUME NEW c \in Calls, LearnSigns(c) PROVE TableSaved'
  BY <1>8, NamesAssumption
  DEF LearnSigns, Goto, Learned, Tables, disk, TypeOK, LockOwner, Progress, LockPoints,
      VerdictsAgree, Learning, Known, TableSaved, OnDisk, FirstSightPersisted, Empty
<1>9. ASSUME NEW c \in Calls, LearnRaises(c) PROVE TableSaved'
  BY <1>9, NamesAssumption
  DEF LearnRaises, Goto, Return, Unlock, Learned, Tables, disk, TypeOK, LockOwner, Progress,
      LockPoints, VerdictsAgree, Learning, Known, TableSaved, OnDisk, FirstSightPersisted,
      Empty
<1>10. ASSUME NEW c \in Calls, RenameStore(c) PROVE TableSaved'
  BY <1>10, NamesAssumption
  DEF RenameStore, Goto, WriteStore, memory, TypeOK, LockOwner, Progress, LockPoints,
      VerdictsAgree, Learning, Known, TableSaved, OnDisk, FirstSightPersisted, Empty
<1>11. ASSUME NEW c \in Calls, RenameSig(c) PROVE TableSaved'
  BY <1>11, NamesAssumption
  DEF RenameSig, Goto, Return, Unlock, memory, TypeOK, LockOwner, Progress, LockPoints,
      VerdictsAgree, Learning, Known, TableSaved, OnDisk, FirstSightPersisted, Empty
<1>12. ASSUME NEW c \in Calls, SaveFails(c) PROVE TableSaved'
  BY <1>12, NamesAssumption
  DEF SaveFails, Goto, Return, Unlock, memory, disk, TypeOK, LockOwner, Progress, LockPoints,
      VerdictsAgree, Learning, Known, TableSaved, OnDisk, FirstSightPersisted, Empty
<1>13. ASSUME TearKey PROVE TableSaved'
  BY <1>13, NamesAssumption
  DEF TearKey, callVars, disk, TypeOK, LockOwner, Progress, LockPoints, VerdictsAgree,
      Learning, Known, TableSaved, OnDisk, FirstSightPersisted, Empty
<1>14. ASSUME WipeKey PROVE TableSaved'
  BY <1>14, NamesAssumption
  DEF WipeKey, callVars, disk, TypeOK, LockOwner, Progress, LockPoints, VerdictsAgree,
      Learning, Known, TableSaved, OnDisk, FirstSightPersisted, Empty
<1>15. ASSUME Crash PROVE TableSaved'
  BY <1>15, NamesAssumption
  DEF Crash, NoCallsYet, disk, TypeOK, LockOwner, Progress, LockPoints, VerdictsAgree,
      Learning, Known, TableSaved, OnDisk, FirstSightPersisted, Empty
<1>16. ASSUME Restart PROVE TableSaved'
  BY <1>16, NamesAssumption
  DEF Restart, callVars, disk, TypeOK, LockOwner, Progress, LockPoints, VerdictsAgree,
      Learning, Known, TableSaved, OnDisk, FirstSightPersisted, Empty
<1>17. ASSUME DeleteFiles PROVE TableSaved'
  BY <1>17, NamesAssumption
  DEF DeleteFiles, memory, callVars, TypeOK, LockOwner, Progress, LockPoints, VerdictsAgree,
      Learning, Known, TableSaved, OnDisk, FirstSightPersisted, Empty
<1>18. CASE UNCHANGED vars
  BY <1>18 DEF vars, memory, disk, callVars, TableSaved, OnDisk, FirstSightPersisted, Empty
<1> QED
  BY <1>1, <1>2, <1>3, <1>4, <1>5, <1>6, <1>7, <1>8, <1>9, <1>10, <1>11, <1>12, <1>13, <1>14,
     <1>15, <1>16, <1>17, <1>18
  DEF Next, Verify, Load, Check, Save

\* When the store can be written, the files are not deleted under a running
\* process and no sign-out has wiped the key, every accepted key is in the file.
THEOREM AcceptedIsOnDisk ==
  ASSUME KeepingFaults
  PROVE  Spec => []FirstSightPersisted
<1>1. Init => TableSaved
  BY DEF Init, NoCallsYet, TableSaved, FirstSightPersisted, Empty
<1>2. IInv /\ TableSaved /\ [Next]_vars => TableSaved'
  BY TableSavedStep
<1>3. TableSaved => FirstSightPersisted
  BY DEF TableSaved
<1> QED
  BY <1>1, <1>2, <1>3, Invariance, PTL DEF Spec

\* A key is rejected by a call that finds the lock free.
LEMMA RejectStep ==
  ASSUME IInv, [Next]_vars, NEW c \in Calls, verdict'[c] = "reject", verdict[c] # "reject"
  PROVE  LockFree /\ Known(c) # NoKey
<1> USE DEF IInv, TypeOK
<1>1. CheckKnown(c)
  <2>1. ASSUME NEW d \in Calls, Return(d, "accept") \/ Return(d, "abort") \/ Return(d, "error")
        PROVE  FALSE
    BY <2>1 DEF Return
  <2>2. ASSUME NEW d \in Calls, LoadFails(d) PROVE FALSE
    BY <2>1, <2>2 DEF LoadFails, VerifyOutcomes
  <2>3. ASSUME NEW d \in Calls, LearnRaises(d) \/ RenameSig(d) \/ SaveFails(d) PROVE FALSE
    BY <2>1, <2>3 DEF LearnRaises, RenameSig, SaveFails
  <2>4. ASSUME NEW d \in Calls, CheckKnown(d) PROVE d = c
    BY <2>4 DEF CheckKnown, Return
  <2>5. ASSUME NEW d \in Calls,
               \/ Begin(d) \/ LoadSkips(d) \/ LoadFresh(d) \/ LoadVerified(d)
               \/ CheckNew(d) \/ LearnSigns(d) \/ RenameStore(d)
        PROVE  FALSE
    BY <2>5 DEF Begin, LoadSkips, LoadFresh, LoadVerified, CheckNew, LearnSigns, RenameStore
  <2>6. CASE TearKey \/ WipeKey \/ Restart \/ DeleteFiles \/ UNCHANGED vars
    BY <2>6 DEF TearKey, WipeKey, Restart, DeleteFiles, callVars, vars
  <2>7. CASE Crash
    BY <2>7 DEF Crash, NoCallsYet
  <2> QED
    BY <2>2, <2>3, <2>4, <2>5, <2>6, <2>7 DEF Next, Verify, Load, Check, Save
<1> QED
  BY <1>1 DEF CheckKnown

\* Under the same faults, and with stores that cannot be read: as long as both files are
\* gone nobody is rejected, not even while several calls learn the same host at once
\* (the advice of the alarm, utils/ssh_known_hosts.py:333).
THEOREM DeletedIsForgotten ==
  ASSUME KeepingFaults
  PROVE  Spec => DeletedMeansRelearn
<1>1. Init => TableSaved
  BY DEF Init, NoCallsYet, TableSaved, FirstSightPersisted, Empty
<1>2. IInv /\ TableSaved /\ [Next]_vars => TableSaved'
  BY TableSavedStep
<1>3. IInv /\ TableSaved /\ [Next]_vars =>
        [diskStore = Absent /\ diskSig = Absent =>
           \A c \in Calls : verdict'[c] = "reject" => verdict[c] = "reject"]_vars
  <2> SUFFICES ASSUME IInv, TableSaved, [Next]_vars, diskStore = Absent, NEW c \in Calls,
                      verdict'[c] = "reject", verdict[c] # "reject"
               PROVE  FALSE
    OBVIOUS
  <2>1. LockFree /\ Known(c) # NoKey /\ request[c].host \in Hosts
    BY RejectStep DEF IInv, TypeOK
  <2>2. PICK d \in Calls : pc[d] = "saveStore"
    BY <2>1 DEF TableSaved, OnDisk, Known
  <2>3. lock = d
    BY <2>2 DEF IInv, LockOwner, LockPoints
  <2> QED
    BY <2>1, <2>3, NamesAssumption DEF LockFree
<1> QED
  BY <1>1, <1>2, <1>3, Invariance, PTL DEF Spec, DeletedMeansRelearn

-----------------------------------------------------------------------------
(* Trust on first use *)

TofuFaults == Faults \intersect {"storeUnreadable", "deleteWhileUp"} = {}

\* The values that Tofu gives to known and verdict.
KnownMap == IF loaded THEN store
            ELSE IF diskStore = Absent THEN Empty ELSE diskStore

VerdictMap ==
  [c \in Calls |-> IF verdict[c] = "abort" THEN "error" ELSE verdict[c]]

\* A step of the calls is a step of the abstract map, or none at all.
LEMMA StepRefines ==
  ASSUME TofuFaults, IInv, DiskKnown, [Next]_vars
  PROVE  [Tofu!Next]_(Tofu!vars)
<1> USE DEF IInv
<1> DEFINE Same == KnownMap' = KnownMap /\ request' = request /\ VerdictMap' = VerdictMap
<1>0. Same => [Tofu!Next]_(Tofu!vars)
  BY DEF Tofu!vars, KnownMap, VerdictMap
<1>1. ASSUME NEW c \in Calls, Begin(c) PROVE Tofu!Ask(c)
  <2>1. PICK r \in [host : Hosts, key : Keys] : request' = [request EXCEPT ![c] = r]
    BY <1>1 DEF Begin
  <2>2. r.host \in Hosts /\ r.key \in Keys /\ r = [host |-> r.host, key |-> r.key]
    BY <2>1
  <2>3. VerdictMap[c] = "none"
    BY <1>1 DEF Begin, VerdictMap, TypeOK, Progress
  <2>4. KnownMap' = KnownMap /\ VerdictMap' = VerdictMap
    BY <1>1 DEF Begin, KnownMap, VerdictMap, memory, disk
  <2> QED
    BY <2>1, <2>2, <2>3, <2>4 DEF Tofu!Ask, KnownMap, VerdictMap
<1>2. ASSUME NEW c \in Calls, LoadSkips(c) \/ CheckNew(c) PROVE Same
  BY <1>2 DEF LoadSkips, CheckNew, KnownMap, VerdictMap, memory, disk
<1>3. ASSUME NEW c \in Calls, LoadFresh(c) \/ LoadVerified(c) PROVE Same
  BY <1>3
  DEF LoadFresh, LoadVerified, NeedsLoad, TofuFaults, KnownMap, VerdictMap, disk
<1>4. ASSUME NEW c \in Calls, LoadFails(c) PROVE Tofu!Fail(c)
  <2>1. PICK v \in {"error", "abort"} : verdict' = [verdict EXCEPT ![c] = v]
    BY <1>4 DEF LoadFails, Return, VerifyOutcomes
  <2>2. verdict[c] = "none"
    BY <1>4 DEF LoadFails, TypeOK, Progress
  <2>3. VerdictMap[c] = "none" /\ VerdictMap' = [VerdictMap EXCEPT ![c] = "error"]
    BY <2>1, <2>2 DEF VerdictMap, TypeOK
  <2>4. KnownMap' = KnownMap /\ request' = request
    BY <1>4 DEF LoadFails, Return, StoreAfterFailedLoad, NeedsLoad, KnownMap, disk
  <2> QED
    BY <2>3, <2>4 DEF Tofu!Fail, KnownMap, VerdictMap
<1>5. ASSUME NEW c \in Calls, CheckKnown(c) PROVE Tofu!Accept(c) \/ Tofu!Reject(c)
  <2>1. verdict[c] = "none" /\ KnownMap = store
    BY <1>5 DEF CheckKnown, TypeOK, Progress, LockPoints, KnownMap
  <2>2. KnownMap' = KnownMap /\ request' = request
    BY <1>5 DEF CheckKnown, Return, KnownMap, memory, disk
  <2>3. CASE Known(c) = request[c].key
    <3>1. VerdictMap[c] = "none" /\ VerdictMap' = [VerdictMap EXCEPT ![c] = "accept"]
      BY <1>5, <2>1, <2>3 DEF CheckKnown, Return, VerdictMap, TypeOK
    <3> QED
      BY <2>1, <2>2, <2>3, <3>1
      DEF Tofu!Accept, Tofu!Answer, Known, KnownMap, VerdictMap
  <2>4. CASE Known(c) # request[c].key
    <3>1. VerdictMap[c] = "none" /\ VerdictMap' = [VerdictMap EXCEPT ![c] = "reject"]
      BY <1>5, <2>1, <2>4 DEF CheckKnown, Return, VerdictMap, TypeOK
    <3>2. KnownMap[request[c].host] \notin {NoKey, request[c].key}
      BY <1>5, <2>1, <2>4 DEF CheckKnown, Known
    <3> QED
      BY <2>2, <3>1, <3>2 DEF Tofu!Reject, Tofu!Answer, KnownMap, VerdictMap
  <2> QED
    BY <2>3, <2>4
<1>6. ASSUME NEW c \in Calls, LearnSigns(c) PROVE Tofu!Learn
  <2>1. KnownMap = store /\ KnownMap' = Learned(c)
    BY <1>6 DEF LearnSigns, Progress, LockPoints, KnownMap
  <2>2. request[c].host \in Hosts /\ request[c].key \in Keys /\ store[request[c].host] = NoKey
    BY <1>6 DEF LearnSigns, TypeOK, Learning, Known
  <2>3. request' = request /\ VerdictMap' = VerdictMap
    BY <1>6 DEF LearnSigns, VerdictMap
  <2> QED
    BY <2>1, <2>2, <2>3 DEF Tofu!Learn, Learned, KnownMap, VerdictMap
<1>7. ASSUME NEW c \in Calls, LearnRaises(c) PROVE Tofu!Fail(c)
  <2>1. KnownMap = store /\ KnownMap' = Learned(c) /\ request' = request
    BY <1>7 DEF LearnRaises, Return, Progress, LockPoints, KnownMap
  <2>2. verdict[c] = "none" /\ store[request[c].host] = NoKey
    BY <1>7 DEF LearnRaises, TypeOK, Progress, Learning, Known
  <2>3. VerdictMap[c] = "none" /\ VerdictMap' = [VerdictMap EXCEPT ![c] = "error"]
    BY <1>7, <2>2 DEF LearnRaises, Return, VerdictMap, TypeOK
  <2> QED
    BY <2>1, <2>2, <2>3 DEF Tofu!Fail, Learned, KnownMap, VerdictMap
<1>8. ASSUME NEW c \in Calls, RenameStore(c) PROVE Same
  BY <1>8 DEF RenameStore, Progress, LockPoints, KnownMap, VerdictMap, memory
<1>9. ASSUME NEW c \in Calls, RenameSig(c) \/ SaveFails(c) PROVE Tofu!Accept(c)
  <2>1. pc[c] \in {"saveStore", "saveSig"}
    BY <1>9 DEF RenameSig, SaveFails
  <2>2. KnownMap = store /\ Known(c) = request[c].key /\ verdict[c] = "none"
    BY <2>1 DEF Progress, LockPoints, KnownMap, Learning, TypeOK
  <2>3. KnownMap' = KnownMap /\ request' = request
    BY <1>9, <2>1
    DEF RenameSig, SaveFails, Return, Progress, LockPoints, KnownMap, memory, disk
  <2>4. VerdictMap[c] = "none" /\ VerdictMap' = [VerdictMap EXCEPT ![c] = "accept"]
    BY <1>9, <2>2 DEF RenameSig, SaveFails, Return, VerdictMap, TypeOK
  <2> QED
    BY <2>2, <2>3, <2>4 DEF Tofu!Accept, Tofu!Answer, Known, KnownMap, VerdictMap
<1>10. ASSUME TearKey \/ WipeKey \/ Restart \/ UNCHANGED vars PROVE Same
  BY <1>10 DEF TearKey, WipeKey, Restart, KnownMap, VerdictMap, callVars, disk, vars
<1>11. ASSUME Crash PROVE Tofu!Restart
  <2>1. VerdictMap' = [c \in Calls |-> "none"]
    BY <1>11 DEF Crash, NoCallsYet, VerdictMap
  <2>2. request' \in [Calls -> [host : Hosts, key : Keys]]
    BY <1>11, DefaultsTyped DEF Crash, NoCallsYet
  <2>3. \A h \in Hosts : KnownMap'[h] \in {KnownMap[h], NoKey}
    BY <1>11 DEF Crash, KnownMap, DiskKnown, Empty, disk
  <2> QED
    BY <2>1, <2>2, <2>3 DEF Tofu!Restart, Tofu!Forgotten, KnownMap, VerdictMap
<1>12. ASSUME DeleteFiles PROVE Tofu!Restart
  <2>1. ~up
    BY <1>12 DEF DeleteFiles, TofuFaults
  <2>2. VerdictMap' = [c \in Calls |-> "none"]
    BY <1>12, <2>1 DEF DeleteFiles, VerdictMap, callVars, Progress, TypeOK
  <2>3. request' \in [Calls -> [host : Hosts, key : Keys]]
    BY <1>12 DEF DeleteFiles, callVars, TypeOK
  <2>4. \A h \in Hosts : KnownMap'[h] \in {KnownMap[h], NoKey}
    BY <1>12, <2>1 DEF DeleteFiles, KnownMap, Empty, memory, Progress
  <2> QED
    BY <2>2, <2>3, <2>4 DEF Tofu!Restart, Tofu!Forgotten, KnownMap, VerdictMap
<1> QED
  BY <1>0, <1>1, <1>2, <1>3, <1>4, <1>5, <1>6, <1>7, <1>8, <1>9, <1>10, <1>11, <1>12
  DEF Next, Verify, Load, Check, Save, Tofu!Next

\* verify_or_learn() is trust on first use: as long as the store file can be read
\* and is not deleted under the running process, the process never changes its
\* mind about a host and every verdict agrees with what it knows.
THEOREM TofuImplemented ==
  ASSUME TofuFaults
  PROVE  Spec => ImplementsTofu
<1>1. Init => Tofu!Init
  BY DefaultsTyped DEF Init, NoCallsYet, Tofu!Init, Empty
<1>2. IInv /\ DiskKnown /\ [Next]_vars => [Tofu!Next]_(Tofu!vars)
  BY StepRefines
<1>3. ReadableStore
  BY DEF TofuFaults, ReadableStore
<1> QED
  BY <1>1, <1>2, <1>3, DiskKnownInvariance, PTL DEF Spec, ImplementsTofu, Tofu!Spec

=============================================================================
