----------------------------- MODULE SshClient ------------------------------
(***************************************************************************)
(* The life of the SSHClient objects of utils/ssh.py against the           *)
(* process-wide semaphore _GLOBAL_SSH_SEM: constructor, connect() with its *)
(* trust-on-first-use branch, use, and the close() that every caller has   *)
(* in a finally block.                                                     *)
(*                                                                         *)
(* A member of Clients is a thread that handles one host after another,    *)
(* with a fresh SSHClient for each.  The steps are as fine as the slot     *)
(* accounting: taking a slot and noting it in _sem_acquired are two steps, *)
(* and so are giving it back and clearing the flag.  What the network, the *)
(* host and the key store answer is a free choice.                         *)
(*                                                                         *)
(* KeyboardInterrupt only reaches the main thread: Main is the client that *)
(* runs there (or nobody), InterruptPoints the places where the interrupt  *)
(* may land.                                                               *)
(***************************************************************************)
EXTENDS Integers, FiniteSets

CONSTANTS
  Clients,         \* threads that use SSHClient objects
  Limit,           \* initial value of _GLOBAL_SSH_SEM (30 in the code)
  Main,            \* the clients that run on the main thread: one or none
  InterruptPoints  \* control points where Ctrl+C may hit a main client

VARIABLES
  sem,          \* value of _GLOBAL_SSH_SEM
  unlocked,     \* ssh_secure holds the SSH password
  pc,           \* control point of each client
  semAcquired,  \* self._sem_acquired
  link          \* self.ssh: "none", "object" (no usable session) or "up"

vars == <<sem, unlocked, pc, semAcquired, link>>

-----------------------------------------------------------------------------
(* Control points of a client, in the order of the code. *)

Points ==
  {"idle",      \* between two hosts
   "new",       \* constructed, about to acquire or blocked in acquire()
   "acquired",  \* slot taken, _sem_acquired not set yet
   "dial",      \* first self.ssh.connect()
   "fetch",     \* _tofu_reconnect: fetching the host's key
   "learn",     \* _tofu_reconnect: in verify_or_learn()
   "redial",    \* _tofu_reconnect: second self.ssh.connect()
   "failing",   \* a handler is about to release the slot
   "released",  \* the handler has released, the flag is still set
   "up",        \* connect() returned True, commands run
   "close",     \* in the caller's finally: close(), ending the session
   "closing",   \* in close(), session ended, about to release
   "closed"}    \* in close(), released, the flag is still set

\* Where an interrupt leaves slot and flag in a state that close() can settle.
CleanPoints ==
  {"new", "dial", "fetch", "learn", "redial", "failing", "up", "closed"}

ASSUME ClientsAssumption == IsFiniteSet(Clients)
ASSUME LimitAssumption   == Limit \in Nat \ {0}
ASSUME MainAssumption    == Main \subseteq Clients /\ \A c, d \in Main : c = d
ASSUME PointsAssumption  == InterruptPoints \subseteq Points \ {"idle"}

TypeOK ==
  /\ sem \in 0 .. Limit
  /\ unlocked \in BOOLEAN
  /\ pc \in [Clients -> Points]
  /\ semAcquired \in [Clients -> BOOLEAN]
  /\ link \in [Clients -> {"none", "object", "up"}]

Init ==
  /\ sem = Limit
  /\ unlocked = TRUE
  /\ pc = [c \in Clients |-> "idle"]
  /\ semAcquired = [c \in Clients |-> FALSE]
  /\ link = [c \in Clients |-> "none"]

\* c moves from one control point to another.
Goto(c, from, to) == pc[c] = from /\ pc' = [pc EXCEPT ![c] = to]

SetFlag(c, value) == semAcquired' = [semAcquired EXCEPT ![c] = value]

SetLink(c, value) == link' = [link EXCEPT ![c] = value]

-----------------------------------------------------------------------------
(* Variants: slips in connect() and close() that the properties must notice. *)

\* A plain acquire(), without the timeout.
AcquireForever(c) == FALSE /\ pc[c] = "new" /\ UNCHANGED vars

\* A handler that forgets to release.
HandlerKeepsSlot(c) ==
  /\ Goto(c, "failing", "released")
  /\ UNCHANGED <<sem, unlocked, semAcquired, link>>

\* A handler that releases and leaves _sem_acquired set for close() to see.
HandlerKeepsFlag(c) ==
  /\ Goto(c, "released", "close")
  /\ UNCHANGED <<sem, unlocked, semAcquired, link>>

\* A handler that tries the same host again, without a bound.
HandlerRetries(c) ==
  /\ Goto(c, "released", "new")
  /\ SetFlag(c, FALSE)
  /\ UNCHANGED <<sem, unlocked, link>>

\* A close() that releases the slot and leaves the session to the collector.
CloseKeepsSession(c) ==
  /\ Goto(c, "close", IF semAcquired[c] THEN "closing" ELSE "idle")
  /\ UNCHANGED <<sem, unlocked, semAcquired, link>>

-----------------------------------------------------------------------------
(* connect() *)

\* __init__ refuses to build a client while the credentials are locked.
Construct(c) ==
  /\ unlocked
  /\ Goto(c, "idle", "new")
  /\ SetFlag(c, FALSE)
  /\ SetLink(c, "none")
  /\ UNCHANGED <<sem, unlocked>>

Acquire(c) ==
  /\ sem > 0
  /\ Goto(c, "new", "acquired")
  /\ sem' = sem - 1
  /\ UNCHANGED <<unlocked, semAcquired, link>>

\* acquire(timeout=60) gives up when no slot came free: connect() returns False.
AcquireTimeout(c) ==
  /\ sem = 0
  /\ Goto(c, "new", "close")
  /\ UNCHANGED <<sem, unlocked, semAcquired, link>>

NoteSlot(c) ==
  /\ Goto(c, "acquired", "dial")
  /\ SetFlag(c, TRUE)
  /\ SetLink(c, "object")
  /\ UNCHANGED <<sem, unlocked>>

\* The key table of the fresh paramiko client is empty and its policy rejects,
\* so a first connect() that reaches the host always ends in "not found in
\* known_hosts" and goes to _tofu_reconnect.
DialUnknownKey(c) ==
  /\ unlocked                               \* get_ssh_password() succeeds
  /\ Goto(c, "dial", "fetch")
  /\ UNCHANGED <<sem, unlocked, semAcquired, link>>

\* get_ssh_password() raises after a sign-out, or the dial fails; in the tofu
\* branch the host's key cannot be fetched, verify_or_learn() refuses it or
\* raises, or the second dial fails.  Each has a handler that gives the slot back.
ConnectFails(c) ==
  /\ \E p \in {"dial", "fetch", "learn", "redial"} : Goto(c, p, "failing")
  /\ UNCHANGED <<sem, unlocked, semAcquired, link>>

FetchKey(c) ==
  /\ Goto(c, "fetch", "learn")
  /\ UNCHANGED <<sem, unlocked, semAcquired, link>>

LearnAccepts(c) ==
  /\ Goto(c, "learn", "redial")
  /\ UNCHANGED <<sem, unlocked, semAcquired, link>>

\* _tamper_abort: no handler catches SystemExit, the caller's finally runs with
\* the slot still held.
LearnExits(c) ==
  /\ Goto(c, "learn", "close")
  /\ UNCHANGED <<sem, unlocked, semAcquired, link>>

RedialSucceeds(c) ==
  /\ Goto(c, "redial", "up")
  /\ SetLink(c, "up")
  /\ UNCHANGED <<sem, unlocked, semAcquired>>

HandlerReleases(c) ==
  /\ Goto(c, "failing", "released")
  /\ sem' = sem + 1
  /\ UNCHANGED <<unlocked, semAcquired, link>>

HandlerClearsFlag(c) ==
  /\ Goto(c, "released", "close")
  /\ SetFlag(c, FALSE)
  /\ UNCHANGED <<sem, unlocked, link>>

-----------------------------------------------------------------------------
(* Use and close() *)

\* The commands are over, normally or with an exception.
Leave(c) ==
  /\ Goto(c, "up", "close")
  /\ UNCHANGED <<sem, unlocked, semAcquired, link>>

CloseSession(c) ==
  /\ Goto(c, "close", IF semAcquired[c] THEN "closing" ELSE "idle")
  /\ SetLink(c, "none")
  /\ UNCHANGED <<sem, unlocked, semAcquired>>

CloseReleases(c) ==
  /\ Goto(c, "closing", "closed")
  /\ sem' = sem + 1
  /\ UNCHANGED <<unlocked, semAcquired, link>>

CloseClearsFlag(c) ==
  /\ Goto(c, "closed", "idle")
  /\ SetFlag(c, FALSE)
  /\ UNCHANGED <<sem, unlocked, link>>

-----------------------------------------------------------------------------
(* The main thread: Ctrl+C and the credentials *)

\* KeyboardInterrupt before close(): no handler of connect() catches it, the
\* caller's finally calls close().
InterruptBody(c) ==
  /\ pc[c] \in InterruptPoints \ {"close", "closing", "closed"}
  /\ pc' = [pc EXCEPT ![c] = "close"]
  /\ UNCHANGED <<sem, unlocked, semAcquired, link>>

\* KeyboardInterrupt inside close(): the rest of close() is skipped and the
\* object is dropped.
InterruptClose(c) ==
  /\ pc[c] \in InterruptPoints \intersect {"close", "closing", "closed"}
  /\ pc' = [pc EXCEPT ![c] = "idle"]
  /\ SetFlag(c, FALSE)
  /\ SetLink(c, "none")
  /\ UNCHANGED <<sem, unlocked>>

\* Sign-in and sign-out happen in the main menu, when no task is in the
\* foreground; the background clients go on.
ChangeCredentials ==
  /\ \A c \in Main : pc[c] = "idle"
  /\ unlocked' = ~unlocked
  /\ UNCHANGED <<sem, pc, semAcquired, link>>

-----------------------------------------------------------------------------
Connect(c) ==
  \/ AcquireTimeout(c) \/ Acquire(c) \/ NoteSlot(c)
  \/ DialUnknownKey(c) \/ FetchKey(c) \/ LearnAccepts(c) \/ RedialSucceeds(c)
  \/ ConnectFails(c) \/ LearnExits(c) \/ HandlerReleases(c) \/ HandlerClearsFlag(c)

Close(c) == CloseSession(c) \/ CloseReleases(c) \/ CloseClearsFlag(c)

Next ==
  \/ \E c \in Clients : Construct(c) \/ Connect(c) \/ Leave(c) \/ Close(c)
  \/ \E c \in Main : InterruptBody(c) \/ InterruptClose(c)
  \/ ChangeCredentials

\* Every wait inside connect() has a timeout and close() returns; a thread that
\* is not blocked is scheduled.  Nothing is assumed of Leave: run() may never
\* return.  Nobody has to start a task, sign out or press Ctrl+C.
Fairness == \A c \in Clients : WF_vars(Connect(c)) /\ WF_vars(Close(c))

Spec == Init /\ [][Next]_vars

FairSpec == Spec /\ Fairness

-----------------------------------------------------------------------------
(* Properties *)

\* The slots a client has out: taken and not yet given back, known to the
\* flag or not.
HoldsSlot(c) ==
  \/ pc[c] = "acquired"
  \/ semAcquired[c] /\ pc[c] \notin {"released", "closed"}

Holders == {c \in Clients : HoldsSlot(c)}

\* The count of the semaphore and the clients that hold a slot always add up to
\* the limit: no path of connect() and close() loses a slot or returns one twice.
SlotsConserved == sem + Cardinality(Holders) = Limit

\* connect() and close() implement the abstract slots: what close() and every
\* handler of connect() do is in the order "end the session, then give the slot
\* back", and at most Limit sessions are open at once.
Slots == INSTANCE SshSlots WITH
           holders <- Holders,
           live    <- {c \in Clients : link[c] = "up"}

ImplementsSlots == Slots!Spec

\* A client that asks for a slot is not kept waiting: it gets one or gives up
\* after the timeout, even when the sessions that hold the slots never end.
AcquireReturns == \A c \in Clients : pc[c] = "new" ~> pc[c] # "new"

\* A client that failed to connect, or was aborted on the way, gets through its
\* cleanup and can take the next host.
FailureCleansUp ==
  \A c \in Clients : pc[c] \in {"failing", "close"} ~> pc[c] = "idle"

\* "try/finally to guarantee semaphore release on all paths" (modules/ubuntu.py:7):
\* once no client is at work, every slot is back.
AllSlotsBack == (\A c \in Clients : pc[c] = "idle") => sem = Limit

=============================================================================
