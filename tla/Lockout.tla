------------------------------ MODULE Lockout -------------------------------
(***************************************************************************)
(* The login guard of Main.py: failed attempts are counted per account,    *)
(* MAX_ATTEMPTS of them lock the account for LOCKOUT_SECONDS, and counters *)
(* and locks are kept in logs/.lockout_state.json over restarts.           *)
(*                                                                         *)
(* The vault passphrase is guarded like an account of its own ("__vault__" *)
(* in the code); a failure there ends the process.  write_text() empties   *)
(* the file and then fills it: two steps, between which the process may    *)
(* die.  Time is a bounded clock.                                          *)
(***************************************************************************)
EXTENDS Naturals, Sequences

CONSTANTS
  Users,
  Vault,        \* the account name of the passphrase
  Empty,        \* no state in the file: it is absent or cut to nothing
  MaxAttempts,  \* MAX_ATTEMPTS
  LockTime,     \* LOCKOUT_SECONDS in ticks
  MaxTime,      \* bound of the clock
  MaxFailures,  \* bound: wrong answers per account since the last success
  Faults        \* "crashInSave", "unwritable"

VARIABLES
  now,
  pc,       \* where the process is, "off" when there is none
  account,  \* the account in question
  failed,   \* _failed_attempts
  until,    \* _lockout_until, 0 when there is no entry
  disk,     \* the state in the file, or Empty
  wrong,    \* history: when an account was answered wrong since its last success
  announced,\* history: the lock last announced for each account
  saved,    \* history: the file holds what the process knows
  lost      \* history: a process has ended with something it had not saved

Accounts == Users \union {Vault}

memory  == <<failed, until>>
history == <<wrong, announced, saved, lost>>
vars == <<now, pc, account, failed, until, disk, wrong, announced, saved, lost>>

ASSUME NumbersAssumption ==
  /\ MaxAttempts \in Nat \ {0} /\ LockTime \in Nat \ {0}
  /\ MaxTime \in Nat /\ MaxFailures \in Nat
ASSUME EmptyAssumption ==
  Empty \notin [failed : [Accounts -> 0 .. MaxFailures],
                until  : [Accounts -> 0 .. MaxTime + LockTime]]
ASSUME VaultAssumption == Vault \notin Users
ASSUME FaultsAssumption == Faults \subseteq {"crashInSave", "unwritable"}

Times == 0 .. MaxTime

States == [failed : [Accounts -> 0 .. MaxFailures],
           until  : [Accounts -> 0 .. MaxTime + LockTime]]

Clean == [failed |-> [a \in Accounts |-> 0], until |-> [a \in Accounts |-> 0]]

Points ==
  {"off",
   "start",    \* state loaded, about to ask for the passphrase
   "unpack",   \* the passphrase was right, the vault's entries are taken out
   "select",   \* numbered_select() of user_login()
   "prompt",   \* the lock was looked at, the password is asked for
   "failed",   \* failure counted, the file not touched yet
   "passed",   \* success noted, the file not touched yet
   "failing",  \* failure counted, the file emptied
   "passing",  \* success noted, the file emptied
   "session"}  \* in main_menu()

TypeOK ==
  /\ now \in Times
  /\ pc \in Points
  /\ account \in Accounts
  /\ [failed |-> failed, until |-> until] \in States
  /\ disk \in States \union {Empty}
  /\ wrong \in [Accounts -> Seq(Times)] /\ \A a \in Accounts : Len(wrong[a]) <= MaxFailures
  /\ announced \in [Accounts -> 0 .. MaxTime + LockTime]
  /\ saved \in BOOLEAN /\ lost \in BOOLEAN

Init ==
  /\ now = 0 /\ pc = "off" /\ account = Vault
  /\ failed = Clean.failed /\ until = Clean.until
  /\ disk = Empty
  /\ wrong = [a \in Accounts |-> <<>>]
  /\ announced = [a \in Accounts |-> 0]
  /\ saved = TRUE /\ lost = FALSE

-----------------------------------------------------------------------------
(* Variants: slips that the properties must notice. *)

\* A fresh start forgets the file.
LoadNothing == Clean

\* The counter starts again with the lock.
NeverReached(a) == FALSE

\* Whoever is asked, everybody is locked.
LockAll(a) == [b \in Accounts |-> now + LockTime]

\* No entry is ever taken back.
KeepFailures(a) == UNCHANGED failed

-----------------------------------------------------------------------------
(* Helpers *)

LockedOut(a) == until[a] > now

\* What _load_lockout_state() makes of the file.
Loaded == IF disk = Empty THEN Clean ELSE disk

Image == [failed |-> failed, until |-> until]

\* The wrong answer that locks.
LimitReached(a) == failed[a] + 1 >= MaxAttempts

Locked(a) == [until EXCEPT ![a] = now + LockTime]

Forgiven(a) == failed' = [failed EXCEPT ![a] = 0]

-----------------------------------------------------------------------------
(* Startup and login *)

\* _load_lockout_state(), and get_user_list() up to the prompt.
Start ==
  /\ pc = "off"
  /\ failed' = Loaded.failed /\ until' = Loaded.until
  /\ account' = Vault
  /\ pc' = IF until'[Vault] > now THEN "off" ELSE "start"
  /\ lost' = (lost \/ ~saved) /\ saved' = TRUE
  /\ UNCHANGED <<now, disk, wrong, announced>>

\* A locked account is refused and the selection shown again.
Select(u) ==
  /\ pc = "select" /\ ~LockedOut(u)
  /\ account' = u
  /\ pc' = "prompt"
  /\ UNCHANGED <<now, memory, disk, history>>

Asked == pc \in {"start", "prompt"}

\* The vault holds the SSH credentials.
Unpack ==
  /\ pc = "unpack"
  /\ pc' = "select"
  /\ UNCHANGED <<now, account, memory, disk, history>>

\* _record_failure() up to _save_lockout_state().  For the passphrase every
\* exception of get_user_list() comes here: an unreadable vault as well, and one
\* without SSH credentials, when the success was recorded already.
Fail ==
  /\ Asked \/ pc = "unpack"
  /\ Len(wrong[account]) < MaxFailures /\ failed[account] < MaxFailures
  /\ failed' = [failed EXCEPT ![account] = @ + 1]
  /\ until' = IF LimitReached(account) THEN Locked(account) ELSE until
  /\ announced' = IF LimitReached(account)
                  THEN [announced EXCEPT ![account] = now + LockTime]
                  ELSE announced
  /\ wrong' = [wrong EXCEPT ![account] = Append(@, now)]
  /\ pc' = "failed"
  /\ saved' = FALSE
  /\ UNCHANGED <<now, account, disk, lost>>

\* _record_success() up to _save_lockout_state().
Pass ==
  /\ Asked
  /\ Forgiven(account)
  /\ until' = [until EXCEPT ![account] = 0]
  /\ wrong' = [wrong EXCEPT ![account] = <<>>]
  /\ pc' = "passed"
  /\ saved' = FALSE
  /\ UNCHANGED <<now, account, disk, announced, lost>>

\* write_text() opens the file, which cuts it to nothing ...
EmptyFile ==
  /\ pc \in {"failed", "passed"}
  /\ disk' = Empty
  /\ pc' = IF pc = "failed" THEN "failing" ELSE "passing"
  /\ UNCHANGED <<now, account, memory, history>>

\* Where user_login() and get_user_list() go on.  A wrong passphrase ends the
\* process.
AfterSave ==
  IF pc \in {"failing", "failed"}
  THEN IF account = Vault THEN "off" ELSE "select"
  ELSE IF account = Vault THEN "unpack" ELSE "session"

\* ... and then writes it.
FillFile ==
  /\ pc \in {"failing", "passing"}
  /\ disk' = Image
  /\ pc' = AfterSave
  /\ saved' = TRUE
  /\ UNCHANGED <<now, account, memory, wrong, announced, lost>>

\* An OSError of opening or writing is swallowed; the state lives on in memory.
SaveFails ==
  /\ pc \in {"failed", "passed", "failing", "passing"} /\ "unwritable" \in Faults
  /\ pc' = AfterSave
  /\ UNCHANGED <<now, account, memory, disk, history>>

SignOut ==
  /\ pc = "session"
  /\ pc' = "select"
  /\ UNCHANGED <<now, account, memory, disk, history>>

\* Exit, Ctrl+C, or the process is killed.
Stop ==
  /\ pc # "off"
  /\ pc \in {"failed", "passed", "failing", "passing"} => "crashInSave" \in Faults
  /\ pc' = "off"
  /\ UNCHANGED <<now, account, memory, disk, history>>

Tick ==
  /\ now < MaxTime
  /\ now' = now + 1
  /\ UNCHANGED <<pc, account, memory, disk, history>>

Next ==
  \/ Start \/ Unpack \/ (\E u \in Users : Select(u)) \/ Fail \/ Pass
  \/ EmptyFile \/ FillFile \/ SaveFails
  \/ SignOut \/ Stop \/ Tick

Spec == Init /\ [][Next]_vars

-----------------------------------------------------------------------------
(* Properties *)

\* Step into the prompt for the password of a.
Asks(a) ==
  LET before == Asked /\ account = a
  IN pc' \in {"start", "prompt"} /\ account' = a /\ ~before

\* While an announced lock lasts, nobody is asked for the password of that account,
\* in this process or in the next, with a file that cannot be written for a while
\* as well; it takes a process that ends before its last save is through.
LockOutlivesProcess == [][\A a \in Accounts : Asks(a) /\ ~lost' => now >= announced[a]]_vars

\* "Persist lockout state to disk so it survives restarts" (Main.py:144): the same
\* without the exception.
LockSurvives == [][\A a \in Accounts : Asks(a) => now >= announced[a]]_vars

\* Whatever the restarts, an account takes at most MAX_ATTEMPTS wrong answers in
\* any LOCKOUT_SECONDS without a success between them: the one that is MAX_ATTEMPTS
\* later comes at least that much later.
AttemptBudget ==
  ~lost =>
    \A a \in Accounts : \A i \in DOMAIN wrong[a] :
      i + MaxAttempts \in DOMAIN wrong[a] =>
        wrong[a][i + MaxAttempts] >= wrong[a][i] + LockTime

\* Whatever happens to the file, nobody is locked out without a wrong answer
\* since the last success.
LockHasCause == \A a \in Accounts : LockedOut(a) => wrong[a] # <<>>

\* A success wipes the slate: with nothing wrong answered since, the account has
\* neither a lock nor a count that brings one nearer.
SuccessForgives ==
  pc \in {"select", "session"} /\ ~lost =>
    \A a \in Accounts : wrong[a] = <<>> => failed[a] = 0 /\ until[a] = 0
=============================================================================
