---------------------------- MODULE HostKeyStore ----------------------------
(***************************************************************************)
(* utils/ssh_known_hosts.py: the in-memory host key table, its HMAC-signed *)
(* copy on disk, and verify_or_learn() called by concurrent SSH threads    *)
(* while the main thread may wipe the signing key and the process may die  *)
(* and be started again.                                                   *)
(*                                                                         *)
(* A member of Calls is one call of verify_or_learn(); it happens at most  *)
(* once between two starts of the process, for any host and key.  A file   *)
(* content is the table it holds.  A signature is the table it signs, or   *)
(* BadSig when it was made with a half-wiped key.  The temporary files are *)
(* not modelled: only the two renames are visible.                         *)
(*                                                                         *)
(* Faults names what may go wrong around the code; every property says     *)
(* under which faults it is claimed.                                       *)
(***************************************************************************)
EXTENDS Naturals

CONSTANTS
  Calls, Hosts, Keys,
  NoKey,   \* no entry for the host
  Absent,  \* the file does not exist
  BadSig,  \* a signature no key verifies
  NoCall,  \* nobody has the lock
  Faults   \* which of AllFaults can happen

VARIABLES
  up,         \* the process is running
  hmacKey,    \* _hmac_key_buf: "vault", "torn" (being wiped) or "none"
  loaded,     \* _loaded
  store,      \* _store
  lock,       \* the call that has _store_lock, or NoCall
  pc,         \* control point of each call
  request,    \* host and key of each call
  verdict,    \* what the call returned: "none" yet, "accept", "reject", "error"
              \* (an exception) or "abort" (_tamper_abort)
  image,      \* in _save(): the table a call writes and its signature
  diskStore,  \* logs/.host_keys.json
  diskSig     \* logs/.host_keys.json.sig

memory == <<hmacKey, loaded, store>>
disk   == <<diskStore, diskSig>>
callVars == <<pc, request, verdict, image>>
vars == <<up, hmacKey, loaded, store, lock, pc, request, verdict, image,
          diskStore, diskSig>>

-----------------------------------------------------------------------------
AllFaults ==
  {"storeUnreadable", "sigUnreadable",   \* OSError while loading
   "storeUnwritable", "sigUnwritable",   \* OSError while saving
   "crashInSave",                        \* the process dies between the renames
   "signOut",                            \* the key is wiped, the process goes on
   "tornKey",                            \* a call reads the key during the wipe
   "deleteWhileUp"}                      \* the operator deletes the files of a
                                         \* running process

Tables == [Hosts -> Keys \union {NoKey}]
Empty  == [h \in Hosts |-> NoKey]

Points ==
  {"start",      \* not called yet
   "load",       \* in _load()
   "check",      \* about to take the lock for the check
   "learn",      \* lock held, the host is new
   "saveStore",  \* lock held, in _save() before the first rename
   "saveSig",    \* lock held, between the two renames
   "done"}

LockPoints == {"learn", "saveStore", "saveSig"}

ASSUME FaultsAssumption == Faults \subseteq AllFaults
ASSUME NonEmptyAssumption == Hosts # {} /\ Keys # {}
ASSUME NamesAssumption ==
  /\ NoKey \notin Keys
  /\ NoCall \notin Calls
  /\ Absent \notin Tables /\ BadSig \notin Tables /\ Absent # BadSig

TypeOK ==
  /\ up \in BOOLEAN
  /\ hmacKey \in {"vault", "torn", "none"}
  /\ loaded \in BOOLEAN
  /\ store \in Tables
  /\ ~loaded => store = Empty
  /\ lock \in Calls \union {NoCall}
  /\ pc \in [Calls -> Points]
  /\ request \in [Calls -> [host : Hosts, key : Keys]]
  /\ verdict \in [Calls -> {"none", "accept", "reject", "error", "abort"}]
  /\ image \in [Calls -> [content : Tables, sig : Tables \union {BadSig}]]
  /\ diskStore \in Tables \union {Absent}
  /\ diskSig \in Tables \union {Absent, BadSig}

NoRequest == CHOOSE r \in [host : Hosts, key : Keys] : TRUE
NoImage   == [content |-> Empty, sig |-> Empty]

NoCallsYet ==
  [point |-> [c \in Calls |-> "start"],
   request |-> [c \in Calls |-> NoRequest],
   verdict |-> [c \in Calls |-> "none"],
   image |-> [c \in Calls |-> NoImage]]

\* get_user_list() has handed the HMAC key over; the vault is unlocked once in
\* the life of a process.
Init ==
  /\ up = TRUE
  /\ hmacKey = "vault" /\ loaded = FALSE /\ store = Empty
  /\ lock = NoCall
  /\ pc = NoCallsYet.point /\ request = NoCallsYet.request
  /\ verdict = NoCallsYet.verdict /\ image = NoCallsYet.image
  /\ diskStore = Absent /\ diskSig = Absent

-----------------------------------------------------------------------------
(* Variants: slips in the module that the properties must notice. *)

\* No "with _store_lock".
NoLocking == TRUE

\* acquire() and release() by hand, without try/finally.
KeepLock == UNCHANGED lock

\* _load() without the _loaded flag.
LoadEveryTime == TRUE

\* _load() that assigns _store before it verifies the signature.
AssignBeforeVerify == store' = diskStore

\* verify_or_learn() that replaces the table instead of extending it.
OnlyNewEntry(c) == [Empty EXCEPT ![request[c].host] = request[c].key]

\* _save() that never renames the temporary store file.
KeepOldStore(c) == UNCHANGED diskStore

-----------------------------------------------------------------------------
(* Helpers *)

\* "with _store_lock" can be entered.
LockFree == lock = NoCall

\* Leaving "with _store_lock", on the way of a return or of an exception.
Unlock == lock' = NoCall

Goto(c, p) == pc' = [pc EXCEPT ![c] = p]

\* The call is over; its locals are gone.
Return(c, v) ==
  /\ Goto(c, "done")
  /\ verdict' = [verdict EXCEPT ![c] = v]
  /\ image' = [image EXCEPT ![c] = NoImage]
  /\ UNCHANGED request

Known(c) == store[request[c].host]

\* _load() only reads the files until it has succeeded once.
NeedsLoad == ~loaded

\* The table once the new host is in.
Learned(c) == [store EXCEPT ![request[c].host] = request[c].key]

\* What _verify_hmac() may end in: TRUE, a RuntimeError because the key is gone,
\* or _tamper_abort().
VerifyOutcomes ==
  IF diskSig = Absent
  THEN {IF diskStore = Empty THEN "ok" ELSE "abort"}
  ELSE {CASE hmacKey = "none" -> "error"
          [] hmacKey = "vault" /\ diskSig = diskStore -> "ok"
          [] OTHER -> "abort"}
       \union (IF "sigUnreadable" \in Faults THEN {"abort"} ELSE {})

-----------------------------------------------------------------------------
(* verify_or_learn() *)

Begin(c) ==
  /\ up /\ pc[c] = "start"
  /\ Goto(c, "load")
  /\ \E r \in [host : Hosts, key : Keys] : request' = [request EXCEPT ![c] = r]
  /\ UNCHANGED <<up, memory, lock, verdict, image, disk>>

LoadSkips(c) ==
  /\ pc[c] = "load" /\ LockFree /\ ~NeedsLoad
  /\ Goto(c, "check")
  /\ UNCHANGED <<up, memory, lock, request, verdict, image, disk>>

\* No file, or one that cannot be read: the table starts empty.
LoadFresh(c) ==
  /\ pc[c] = "load" /\ LockFree /\ NeedsLoad
  /\ diskStore # Absent => "storeUnreadable" \in Faults
  /\ store' = Empty /\ loaded' = TRUE
  /\ Goto(c, "check")
  /\ UNCHANGED <<up, hmacKey, lock, request, verdict, image, disk>>

LoadVerified(c) ==
  /\ pc[c] = "load" /\ LockFree /\ NeedsLoad
  /\ diskStore # Absent /\ "ok" \in VerifyOutcomes
  /\ store' = diskStore /\ loaded' = TRUE
  /\ Goto(c, "check")
  /\ UNCHANGED <<up, hmacKey, lock, request, verdict, image, disk>>

\* _store is assigned after _verify_hmac() only: a failed load leaves it alone.
StoreAfterFailedLoad == UNCHANGED store

LoadFails(c) ==
  /\ pc[c] = "load" /\ LockFree /\ NeedsLoad
  /\ diskStore # Absent
  /\ \E v \in VerifyOutcomes \ {"ok"} : Return(c, v)
  /\ StoreAfterFailedLoad
  /\ UNCHANGED <<up, hmacKey, loaded, lock, disk>>

CheckNew(c) ==
  /\ pc[c] = "check" /\ LockFree
  /\ Known(c) = NoKey
  /\ lock' = c
  /\ Goto(c, "learn")
  /\ UNCHANGED <<up, memory, request, verdict, image, disk>>

CheckKnown(c) ==
  /\ pc[c] = "check" /\ LockFree
  /\ Known(c) # NoKey
  /\ Return(c, IF Known(c) = request[c].key THEN "accept" ELSE "reject")
  /\ UNCHANGED <<up, memory, lock, disk>>

\* The host goes into the table before _save() serialises and signs it.
LearnSigns(c) ==
  /\ pc[c] = "learn" /\ hmacKey # "none"
  /\ store' = Learned(c)
  /\ image' = [image EXCEPT ![c] =
                 [content |-> store',
                  sig |-> IF hmacKey = "vault" THEN store' ELSE BadSig]]
  /\ Goto(c, "saveStore")
  /\ UNCHANGED <<up, hmacKey, loaded, lock, request, verdict, disk>>

\* _require_hmac_key() raises: the entry stays in the table, nothing is saved.
LearnRaises(c) ==
  /\ pc[c] = "learn" /\ hmacKey = "none"
  /\ store' = Learned(c)
  /\ Return(c, "error")
  /\ Unlock
  /\ UNCHANGED <<up, hmacKey, loaded, disk>>

WriteStore(c) == diskStore' = image[c].content

RenameStore(c) ==
  /\ pc[c] = "saveStore"
  /\ WriteStore(c)
  /\ Goto(c, "saveSig")
  /\ UNCHANGED <<up, memory, lock, request, verdict, image, diskSig>>

RenameSig(c) ==
  /\ pc[c] = "saveSig"
  /\ diskSig' = image[c].sig
  /\ Return(c, "accept")
  /\ Unlock
  /\ UNCHANGED <<up, memory, diskStore>>

\* An OSError while saving is a warning: the call returns True.
SaveFails(c) ==
  /\ \/ pc[c] = "saveStore" /\ "storeUnwritable" \in Faults
     \/ pc[c] = "saveSig" /\ "sigUnwritable" \in Faults
  /\ Return(c, "accept")
  /\ Unlock
  /\ UNCHANGED <<up, memory, disk>>

Load(c)   == LoadSkips(c) \/ LoadFresh(c) \/ LoadVerified(c) \/ LoadFails(c)
Check(c)  == CheckNew(c) \/ CheckKnown(c)
Save(c)   == LearnSigns(c) \/ LearnRaises(c) \/ RenameStore(c) \/ RenameSig(c)
             \/ SaveFails(c)
Verify(c) == Load(c) \/ Check(c) \/ Save(c)

-----------------------------------------------------------------------------
(* The main thread, the process and the operator *)

\* clear_hmac_key() on sign-out: zeroes the buffer, then drops it.
TearKey ==
  /\ up /\ hmacKey = "vault" /\ {"signOut", "tornKey"} \subseteq Faults
  /\ hmacKey' = "torn"
  /\ UNCHANGED <<up, loaded, store, lock, callVars, disk>>

WipeKey ==
  /\ up /\ hmacKey # "none"
  /\ hmacKey = "vault" => "signOut" \in Faults
  /\ hmacKey' = "none"
  /\ UNCHANGED <<up, loaded, store, lock, callVars, disk>>

\* The process ends: memory is lost, the files stay as they are.
Crash ==
  /\ up
  /\ (\E c \in Calls : pc[c] = "saveSig") => "crashInSave" \in Faults
  /\ up' = FALSE
  /\ hmacKey' = "none" /\ loaded' = FALSE /\ store' = Empty
  /\ lock' = NoCall
  /\ pc' = NoCallsYet.point /\ request' = NoCallsYet.request
  /\ verdict' = NoCallsYet.verdict /\ image' = NoCallsYet.image
  /\ UNCHANGED disk

Restart ==
  /\ ~up
  /\ up' = TRUE /\ hmacKey' = "vault"
  /\ UNCHANGED <<loaded, store, lock, callVars, disk>>

\* The advice of the tool's own alarms: delete both files.
DeleteFiles ==
  /\ up => "deleteWhileUp" \in Faults
  /\ diskStore # Absent
  /\ diskStore' = Absent /\ diskSig' = Absent
  /\ UNCHANGED <<up, memory, lock, callVars>>

Next ==
  \/ \E c \in Calls : Begin(c) \/ Verify(c)
  \/ TearKey \/ WipeKey \/ Crash \/ Restart \/ DeleteFiles

\* A call runs to its end once begun: the disk answers, the lock is handed on.
\* Nobody has to begin a call, sign out, restart or delete anything.
Fairness == \A c \in Calls : WF_vars(Verify(c))

Spec == Init /\ [][Next]_vars

FairSpec == Spec /\ Fairness

-----------------------------------------------------------------------------
(* Properties *)

\* Without a crash between the renames, a write error on the signature, an
\* unreadable signature or a torn key, nobody but an outsider can make
\* _verify_hmac() abort: concurrent saves always leave a matching pair.  The
\* same sentence, with crashes, is the promise of _save() (lines 232-235).
NoFalseTamperAlarm == \A c \in Calls : verdict[c] # "abort"

\* verify_or_learn(): "First sight -> store fingerprint + write HMAC signature,
\* return True" (line 283): a key that was accepted is in the file.
FirstSightPersisted ==
  \A c \in Calls :
    verdict[c] = "accept" =>
      diskStore # Absent /\ diskStore[request[c].host] = request[c].key

\* A save never drops or changes a host that the file already holds: what was
\* learned once binds every later start.
KnownKeysKept ==
  [][diskStore # Absent /\ diskStore' # Absent =>
       \A h \in Hosts : diskStore[h] # NoKey => diskStore'[h] = diskStore[h]]_vars

\* "delete BOTH ... then reconnect to re-learn" (lines 333-334): no key is
\* rejected while both files are gone.
DeletedMeansRelearn ==
  [][diskStore = Absent /\ diskSig = Absent =>
       \A c \in Calls : verdict'[c] = "reject" => verdict[c] = "reject"]_vars

\* Every call of verify_or_learn() returns or raises (or dies with the process),
\* and so the lock is never left taken.
CallsReturn == \A c \in Calls : pc[c] = "load" ~> pc[c] \in {"done", "start"}

\* The calls implement trust on first use: the process learns a host once and
\* every verdict agrees with what it knows then; a restart only ever forgets.
Tofu == INSTANCE TofuMap WITH
          known   <- IF loaded THEN store
                     ELSE IF diskStore = Absent THEN Empty ELSE diskStore,
          verdict <- [c \in Calls |->
                        IF verdict[c] = "abort" THEN "error" ELSE verdict[c]]

ImplementsTofu == Tofu!Spec
=============================================================================
