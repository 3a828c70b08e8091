-------------------------- MODULE SshClientProofs ---------------------------
(***************************************************************************)
(* Proofs about SshClient, for any number of clients and any limit, when   *)
(* Ctrl+C only lands at the clean points.                                  *)
(***************************************************************************)
EXTENDS SshClient, FiniteSetTheorems, TLAPS

\* Where _sem_acquired is set, and where it is not; in "close" it may be either.
FlagSet   == {"dial", "fetch", "learn", "redial", "failing", "released", "up",
              "closing", "closed"}
FlagClear == {"idle", "new", "acquired"}

FlagMatches ==
  \A c \in Clients : /\ pc[c] \in FlagSet => semAcquired[c]
                     /\ pc[c] \in FlagClear => ~semAcquired[c]

\* A session is up only between the second dial and the end of ssh.close().
SessionCovered ==
  \A c \in Clients :
    link[c] = "up" => pc[c] \in {"up", "close"} /\ semAcquired[c]

IInv == TypeOK /\ SlotsConserved /\ FlagMatches /\ SessionCovered

\* The assumption under which the theorems hold.
CleanInterrupts == InterruptPoints \subseteq CleanPoints

-----------------------------------------------------------------------------
(* The three ways a step can change the slots *)

\* The holders are finite, so counting them is meaningful.
LEMMA HoldersFinite ==
  /\ IsFiniteSet(Holders)
  /\ Cardinality(Holders) \in Nat
<1>1. Holders \subseteq Clients
  BY DEF Holders
<1>2. IsFiniteSet(Holders)
  BY <1>1, ClientsAssumption, FS_Subset
<1> QED
  BY <1>2, FS_CardinalityType

\* acquire(): one more holder, one slot less.
LEMMA TakeConserves ==
  ASSUME NEW c \in Clients, TypeOK, SlotsConserved, sem > 0,
         c \notin Holders, Holders' = Holders \union {c}, sem' = sem - 1
  PROVE  SlotsConserved' /\ sem' \in 0 .. Limit
<1>1. Cardinality(Holders \union {c}) = Cardinality(Holders) + 1
  BY HoldersFinite, FS_AddElement
<1> QED
  BY <1>1, HoldersFinite, LimitAssumption DEF SlotsConserved, TypeOK

\* release(): one holder less, one slot more, never above the limit.
LEMMA GiveConserves ==
  ASSUME NEW c \in Clients, TypeOK, SlotsConserved,
         c \in Holders, Holders' = Holders \ {c}, sem' = sem + 1
  PROVE  SlotsConserved' /\ sem' \in 0 .. Limit
<1>1. Cardinality(Holders \ {c}) = Cardinality(Holders) - 1
  BY HoldersFinite, FS_RemoveElement
<1>2. IsFiniteSet(Holders \ {c}) /\ Cardinality(Holders \ {c}) \in Nat
  BY HoldersFinite, FS_RemoveElement, FS_CardinalityType
<1> QED
  BY <1>1, <1>2, HoldersFinite, LimitAssumption DEF SlotsConserved, TypeOK

\* Any other step: the same holders, the same count.
LEMMA KeepConserves ==
  ASSUME TypeOK, SlotsConserved, Holders' = Holders, sem' = sem
  PROVE  SlotsConserved' /\ sem' \in 0 .. Limit
BY DEF SlotsConserved, TypeOK

-----------------------------------------------------------------------------
(* The invariant *)

LEMMA InitInvariant == Init => IInv
<1> SUFFICES ASSUME Init PROVE IInv
  OBVIOUS
<1>1. TypeOK
  BY LimitAssumption DEF Init, TypeOK, Points
<1>2. Holders = {}
  BY DEF Init, Holders, HoldsSlot
<1>3. SlotsConserved
  BY <1>2, FS_EmptySet, LimitAssumption DEF Init, SlotsConserved
<1>4. FlagMatches /\ SessionCovered
  BY DEF Init, FlagMatches, SessionCovered, FlagSet, FlagClear
<1> QED
  BY <1>1, <1>3, <1>4 DEF IInv

\* Every step, and what it does to the holders.
LEMMA StepInvariant ==
  ASSUME CleanInterrupts, IInv, [Next]_vars
  PROVE  IInv'
<1> USE DEF IInv
<1>1. ASSUME NEW c \in Clients, Construct(c) PROVE IInv'
  <2>1. Holders' = Holders
    BY <1>1 DEF Construct, Goto, SetFlag, SetLink, Holders, HoldsSlot, TypeOK, FlagMatches, FlagSet, FlagClear
  <2>2. SlotsConserved' /\ sem' \in 0 .. Limit
    BY <2>1, <1>1, KeepConserves DEF Construct
  <2> QED
    BY <1>1, <2>2 DEF Construct, Goto, SetFlag, SetLink, TypeOK, Points, FlagMatches, SessionCovered, FlagSet, FlagClear
<1>2. ASSUME NEW c \in Clients, Acquire(c) PROVE IInv'
  <2>1. c \notin Holders /\ Holders' = Holders \union {c}
    BY <1>2 DEF Acquire, Goto, Holders, HoldsSlot, TypeOK, FlagMatches, FlagSet, FlagClear
  <2>2. SlotsConserved' /\ sem' \in 0 .. Limit
    BY <2>1, <1>2, TakeConserves DEF Acquire
  <2> QED
    BY <1>2, <2>2 DEF Acquire, Goto, TypeOK, Points, FlagMatches, SessionCovered, FlagSet, FlagClear
<1>3. ASSUME NEW c \in Clients, HandlerReleases(c) PROVE IInv'
  <2>1. c \in Holders /\ Holders' = Holders \ {c}
    BY <1>3 DEF HandlerReleases, Goto, Holders, HoldsSlot, TypeOK, FlagMatches, FlagSet, FlagClear
  <2>2. SlotsConserved' /\ sem' \in 0 .. Limit
    BY <2>1, <1>3, GiveConserves DEF HandlerReleases
  <2> QED
    BY <1>3, <2>2 DEF HandlerReleases, Goto, TypeOK, Points, FlagMatches, SessionCovered, FlagSet, FlagClear
<1>4. ASSUME NEW c \in Clients, CloseReleases(c) PROVE IInv'
  <2>1. c \in Holders /\ Holders' = Holders \ {c}
    BY <1>4 DEF CloseReleases, Goto, Holders, HoldsSlot, TypeOK, FlagMatches, FlagSet, FlagClear
  <2>2. SlotsConserved' /\ sem' \in 0 .. Limit
    BY <2>1, <1>4, GiveConserves DEF CloseReleases
  <2> QED
    BY <1>4, <2>2 DEF CloseReleases, Goto, TypeOK, Points, FlagMatches, SessionCovered, FlagSet, FlagClear
<1>5. ASSUME NEW c \in Clients, NoteSlot(c) PROVE IInv'
  <2>1. Holders' = Holders
    BY <1>5 DEF NoteSlot, Goto, SetFlag, SetLink, Holders, HoldsSlot, TypeOK, FlagMatches, FlagSet, FlagClear
  <2>2. SlotsConserved' /\ sem' \in 0 .. Limit
    BY <2>1, <1>5, KeepConserves DEF NoteSlot
  <2> QED
    BY <1>5, <2>2 DEF NoteSlot, Goto, SetFlag, SetLink, TypeOK, Points, FlagMatches, SessionCovered, FlagSet, FlagClear
<1>6. ASSUME NEW c \in Clients, AcquireTimeout(c) PROVE IInv'
  <2>1. Holders' = Holders
    BY <1>6 DEF AcquireTimeout, Goto, Holders, HoldsSlot, TypeOK, FlagMatches, FlagSet, FlagClear
  <2>2. SlotsConserved' /\ sem' \in 0 .. Limit
    BY <2>1, <1>6, KeepConserves DEF AcquireTimeout
  <2> QED
    BY <1>6, <2>2 DEF AcquireTimeout, Goto, TypeOK, Points, FlagMatches, SessionCovered, FlagSet, FlagClear
<1>7. ASSUME NEW c \in Clients, DialUnknownKey(c) PROVE IInv'
  <2>1. Holders' = Holders
    BY <1>7 DEF DialUnknownKey, Goto, Holders, HoldsSlot, TypeOK, FlagMatches, FlagSet, FlagClear
  <2>2. SlotsConserved' /\ sem' \in 0 .. Limit
    BY <2>1, <1>7, KeepConserves DEF DialUnknownKey
  <2> QED
    BY <1>7, <2>2 DEF DialUnknownKey, Goto, TypeOK, Points, FlagMatches, SessionCovered, FlagSet, FlagClear
<1>8. ASSUME NEW c \in Clients, FetchKey(c) PROVE IInv'
  <2>1. Holders' = Holders
    BY <1>8 DEF FetchKey, Goto, Holders, HoldsSlot, TypeOK, FlagMatches, FlagSet, FlagClear
  <2>2. SlotsConserved' /\ sem' \in 0 .. Limit
    BY <2>1, <1>8, KeepConserves DEF FetchKey
  <2> QED
    BY <1>8, <2>2 DEF FetchKey, Goto, TypeOK, Points, FlagMatches, SessionCovered, FlagSet, FlagClear
<1>9. ASSUME NEW c \in Clients, LearnAccepts(c) PROVE IInv'
  <2>1. Holders' = Holders
    BY <1>9 DEF LearnAccepts, Goto, Holders, HoldsSlot, TypeOK, FlagMatches, FlagSet, FlagClear
  <2>2. SlotsConserved' /\ sem' \in 0 .. Limit
    BY <2>1, <1>9, KeepConserves DEF LearnAccepts
  <2> QED
    BY <1>9, <2>2 DEF LearnAccepts, Goto, TypeOK, Points, FlagMatches, SessionCovered, FlagSet, FlagClear
<1>10. ASSUME NEW c \in Clients, RedialSucceeds(c) PROVE IInv'
  <2>1. Holders' = Holders
    BY <1>10 DEF RedialSucceeds, Goto, SetLink, Holders, HoldsSlot, TypeOK, FlagMatches, FlagSet, FlagClear
  <2>2. SlotsConserved' /\ sem' \in 0 .. Limit
    BY <2>1, <1>10, KeepConserves DEF RedialSucceeds
  <2> QED
    BY <1>10, <2>2 DEF RedialSucceeds, Goto, SetLink, TypeOK, Points, FlagMatches, SessionCovered, FlagSet, FlagClear
<1>11. ASSUME NEW c \in Clients, ConnectFails(c) PROVE IInv'
  <2>1. Holders' = Holders
    BY <1>11 DEF ConnectFails, Goto, Holders, HoldsSlot, TypeOK, FlagMatches, FlagSet, FlagClear
  <2>2. SlotsConserved' /\ sem' \in 0 .. Limit
    BY <2>1, <1>11, KeepConserves DEF ConnectFails
  <2> QED
    BY <1>11, <2>2 DEF ConnectFails, Goto, TypeOK, Points, FlagMatches, SessionCovered, FlagSet, FlagClear
<1>12. ASSUME NEW c \in Clients, LearnExits(c) PROVE IInv'
  <2>1. Holders' = Holders
    BY <1>12 DEF LearnExits, Goto, Holders, HoldsSlot, TypeOK, FlagMatches, FlagSet, FlagClear
  <2>2. SlotsConserved' /\ sem' \in 0 .. Limit
    BY <2>1, <1>12, KeepConserves DEF LearnExits
  <2> QED
    BY <1>12, <2>2 DEF LearnExits, Goto, TypeOK, Points, FlagMatches, SessionCovered, FlagSet, FlagClear
<1>13. ASSUME NEW c \in Clients, HandlerClearsFlag(c) PROVE IInv'
  <2>1. Holders' = Holders
    BY <1>13 DEF HandlerClearsFlag, Goto, SetFlag, Holders, HoldsSlot, TypeOK, FlagMatches, FlagSet, FlagClear
  <2>2. SlotsConserved' /\ sem' \in 0 .. Limit
    BY <2>1, <1>13, KeepConserves DEF HandlerClearsFlag
  <2> QED
    BY <1>13, <2>2 DEF HandlerClearsFlag, Goto, SetFlag, TypeOK, Points, FlagMatches, SessionCovered, FlagSet, FlagClear
<1>14. ASSUME NEW c \in Clients, Leave(c) PROVE IInv'
  <2>1. Holders' = Holders
    BY <1>14 DEF Leave, Goto, Holders, HoldsSlot, TypeOK, FlagMatches, FlagSet, FlagClear
  <2>2. SlotsConserved' /\ sem' \in 0 .. Limit
    BY <2>1, <1>14, KeepConserves DEF Leave
  <2> QED
    BY <1>14, <2>2 DEF Leave, Goto, TypeOK, Points, FlagMatches, SessionCovered, FlagSet, FlagClear
<1>15. ASSUME NEW c \in Clients, CloseSession(c) PROVE IInv'
  <2>1. Holders' = Holders
    BY <1>15 DEF CloseSession, Goto, SetLink, Holders, HoldsSlot, TypeOK, FlagMatches, FlagSet, FlagClear
  <2>2. SlotsConserved' /\ sem' \in 0 .. Limit
    BY <2>1, <1>15, KeepConserves DEF CloseSession
  <2> QED
    BY <1>15, <2>2 DEF CloseSession, Goto, SetLink, TypeOK, Points, FlagMatches, SessionCovered, FlagSet, FlagClear
<1>16. ASSUME NEW c \in Clients, CloseClearsFlag(c) PROVE IInv'
  <2>1. Holders' = Holders
    BY <1>16 DEF CloseClearsFlag, Goto, SetFlag, Holders, HoldsSlot, TypeOK, FlagMatches, FlagSet, FlagClear
  <2>2. SlotsConserved' /\ sem' \in 0 .. Limit
    BY <2>1, <1>16, KeepConserves DEF CloseClearsFlag
  <2> QED
    BY <1>16, <2>2 DEF CloseClearsFlag, Goto, SetFlag, TypeOK, Points, FlagMatches, SessionCovered, FlagSet, FlagClear
<1>17. ASSUME NEW c \in Main, InterruptBody(c) PROVE IInv'
  <2> c \in Clients
    BY MainAssumption
  <2>1. Holders' = Holders
    BY <1>17 DEF InterruptBody, CleanInterrupts, CleanPoints, Holders, HoldsSlot, TypeOK, FlagMatches, FlagSet, FlagClear
  <2>2. SlotsConserved' /\ sem' \in 0 .. Limit
    BY <2>1, <1>17, KeepConserves DEF InterruptBody
  <2> QED
    BY <1>17, <2>2 DEF InterruptBody, CleanInterrupts, CleanPoints, TypeOK, Points, FlagMatches, SessionCovered, FlagSet, FlagClear
<1>18. ASSUME NEW c \in Main, InterruptClose(c) PROVE IInv'
  <2> c \in Clients
    BY MainAssumption
  <2>1. Holders' = Holders
    BY <1>18 DEF InterruptClose, CleanInterrupts, CleanPoints, SetFlag, SetLink, Holders, HoldsSlot, TypeOK, FlagMatches, FlagSet, FlagClear
  <2>2. SlotsConserved' /\ sem' \in 0 .. Limit
    BY <2>1, <1>18, KeepConserves DEF InterruptClose
  <2> QED
    BY <1>18, <2>2 DEF InterruptClose, CleanInterrupts, CleanPoints, SetFlag, SetLink, TypeOK, Points, FlagMatches, SessionCovered, FlagSet, FlagClear
<1>19. CASE ChangeCredentials
  <2>1. Holders' = Holders
    BY <1>19 DEF ChangeCredentials, Holders, HoldsSlot
  <2>2. SlotsConserved' /\ sem' \in 0 .. Limit
    BY <2>1, <1>19, KeepConserves DEF ChangeCredentials
  <2> QED
    BY <1>19, <2>2 DEF ChangeCredentials, TypeOK, FlagMatches, SessionCovered
<1>20. CASE UNCHANGED vars
  <2>1. Holders' = Holders
    BY <1>20 DEF vars, Holders, HoldsSlot
  <2>2. SlotsConserved'
    BY <2>1, <1>20 DEF SlotsConserved, vars
  <2> QED
    BY <1>20, <2>2 DEF vars, TypeOK, FlagMatches, SessionCovered
<1> QED
  BY <1>1, <1>2, <1>3, <1>4, <1>5, <1>6, <1>7, <1>8, <1>9, <1>10, <1>11, <1>12, <1>13, <1>14, <1>15, <1>16, <1>17, <1>18, <1>19, <1>20 DEF Next, Connect, Close

\* The inductive invariant holds along every behaviour.
THEOREM Invariance ==
  ASSUME CleanInterrupts
  PROVE  Spec => []IInv
<1>1. IInv /\ [Next]_vars => IInv'
  BY StepInvariant
<1> QED
  BY <1>1, InitInvariant, PTL DEF Spec

\* The state of every client and of the semaphore stays well-formed; in
\* particular the semaphore never counts more slots than it was created with.
THEOREM TypeCorrect ==
  ASSUME CleanInterrupts
  PROVE  Spec => []TypeOK
<1>1. IInv => TypeOK
  BY DEF IInv
<1> QED
  BY <1>1, Invariance, PTL

\* No path through connect(), its handlers and close() loses a slot of
\* _GLOBAL_SSH_SEM or returns one twice, for any number of threads and slots.
THEOREM SlotsNeverLost ==
  ASSUME CleanInterrupts
  PROVE  Spec => []SlotsConserved
<1>1. IInv => SlotsConserved
  BY DEF IInv
<1> QED
  BY <1>1, Invariance, PTL

\* Once no thread is between constructor and close(), the semaphore is back at
\* its initial value (modules/ubuntu.py:7).
THEOREM EverySlotBack ==
  ASSUME CleanInterrupts
  PROVE  Spec => []AllSlotsBack
<1>1. ASSUME IInv PROVE AllSlotsBack
  <2>1. SUFFICES ASSUME \A c \in Clients : pc[c] = "idle" PROVE sem = Limit
    BY DEF AllSlotsBack
  <2>2. Holders = {}
    BY <1>1, <2>1 DEF Holders, HoldsSlot, IInv, FlagMatches, FlagClear
  <2> QED
    BY <1>1, <2>2, FS_EmptySet, LimitAssumption DEF IInv, SlotsConserved, TypeOK
<1> QED
  BY <1>1, Invariance, PTL

-----------------------------------------------------------------------------
(* Refinement *)

\* The instance has a copy of Cardinality of its own.
LEMMA SameCardinality ==
  ASSUME NEW S
  PROVE  Slots!Cardinality(S) = Cardinality(S)
BY DEF Slots!Cardinality, Cardinality

LiveClients == {c \in Clients : link[c] = "up"}

\* A step of the clients is a step of the abstract slots, or none at all.
LEMMA StepRefines ==
  ASSUME CleanInterrupts, IInv, [Next]_vars
  PROVE  [Slots!Next]_(Slots!vars)
<1> USE DEF IInv
<1> DEFINE Same == Holders' = Holders /\ LiveClients' = LiveClients
<1>0. Same => [Slots!Next]_(Slots!vars)
  BY DEF Slots!vars, LiveClients
<1>1. ASSUME NEW c \in Clients, Acquire(c) PROVE Slots!Take(c)
  <2>1. c \notin Holders /\ Holders' = Holders \union {c}
    BY <1>1 DEF Acquire, Goto, Holders, HoldsSlot, TypeOK, FlagMatches, FlagClear
  <2>2. Cardinality(Holders) < Limit
    BY <1>1, HoldersFinite, LimitAssumption DEF Acquire, SlotsConserved, TypeOK
  <2> QED
    BY <1>1, <2>1, <2>2, SameCardinality DEF Slots!Take, Acquire
<1>2. ASSUME NEW c \in Clients, RedialSucceeds(c) PROVE Slots!Open(c)
  <2>1. c \in Holders /\ Holders' = Holders
    BY <1>2 DEF RedialSucceeds, Goto, Holders, HoldsSlot, TypeOK, FlagMatches, FlagSet
  <2>2. c \notin LiveClients /\ LiveClients' = LiveClients \union {c}
    BY <1>2 DEF RedialSucceeds, Goto, SetLink, LiveClients, TypeOK, SessionCovered
  <2> QED
    BY <2>1, <2>2 DEF Slots!Open, LiveClients
<1>3. ASSUME NEW c \in Clients, CloseSession(c) PROVE Slots!Drop(c) \/ Same
  <2>1. Holders' = Holders
    BY <1>3 DEF CloseSession, Goto, Holders, HoldsSlot, TypeOK
  <2>2. LiveClients' = LiveClients \ {c}
    BY <1>3 DEF CloseSession, SetLink, LiveClients, TypeOK
  <2>3. CASE c \in LiveClients
    BY <2>1, <2>2, <2>3 DEF Slots!Drop, LiveClients
  <2>4. CASE c \notin LiveClients
    BY <2>1, <2>2, <2>4
  <2> QED
    BY <2>3, <2>4
<1>4. ASSUME NEW c \in Clients, HandlerReleases(c) \/ CloseReleases(c)
      PROVE  Slots!Give(c)
  <2>1. c \in Holders /\ Holders' = Holders \ {c}
    BY <1>4 DEF HandlerReleases, CloseReleases, Goto, Holders, HoldsSlot, TypeOK, FlagMatches, FlagSet
  <2>2. c \notin LiveClients /\ LiveClients' = LiveClients
    BY <1>4 DEF HandlerReleases, CloseReleases, Goto, LiveClients, SessionCovered
  <2> QED
    BY <2>1, <2>2 DEF Slots!Give, LiveClients
<1>5. ASSUME NEW c \in Clients, Construct(c) \/ CloseClearsFlag(c) PROVE Same
  <2>1. Holders' = Holders
    BY <1>5 DEF Construct, CloseClearsFlag, Goto, SetFlag, SetLink, Holders, HoldsSlot, TypeOK, FlagMatches, FlagClear
  <2>2. LiveClients' = LiveClients
    BY <1>5 DEF Construct, CloseClearsFlag, Goto, SetFlag, SetLink, LiveClients, TypeOK, SessionCovered
  <2> QED
    BY <2>1, <2>2
<1>6. ASSUME NEW c \in Clients, NoteSlot(c) PROVE Same
  <2>1. Holders' = Holders
    BY <1>6 DEF NoteSlot, Goto, SetFlag, SetLink, Holders, HoldsSlot, TypeOK
  <2>2. LiveClients' = LiveClients
    BY <1>6 DEF NoteSlot, Goto, SetFlag, SetLink, LiveClients, TypeOK, SessionCovered
  <2> QED
    BY <2>1, <2>2
<1>7. ASSUME NEW c \in Clients,
             \/ AcquireTimeout(c) \/ DialUnknownKey(c) \/ FetchKey(c)
             \/ LearnAccepts(c) \/ ConnectFails(c) \/ LearnExits(c) \/ Leave(c)
      PROVE  Same
  BY <1>7 DEF AcquireTimeout, DialUnknownKey, FetchKey, LearnAccepts, ConnectFails, LearnExits, Leave,
              Goto, Holders, HoldsSlot, LiveClients, TypeOK, FlagMatches, FlagClear
<1>8. ASSUME NEW c \in Clients, HandlerClearsFlag(c) PROVE Same
  BY <1>8 DEF HandlerClearsFlag, Goto, SetFlag, Holders, HoldsSlot, LiveClients, TypeOK
<1>9. ASSUME NEW c \in Main, InterruptBody(c) PROVE Same
  BY <1>9, MainAssumption
     DEF InterruptBody, CleanInterrupts, CleanPoints, Holders, HoldsSlot, LiveClients, TypeOK, FlagMatches, FlagClear
<1>10. ASSUME NEW c \in Main, InterruptClose(c) PROVE Same
  <2>1. c \in Clients /\ pc[c] = "closed"
    BY <1>10, MainAssumption DEF InterruptClose, CleanInterrupts, CleanPoints
  <2>2. Holders' = Holders
    BY <1>10, <2>1 DEF InterruptClose, SetFlag, SetLink, Holders, HoldsSlot, TypeOK
  <2>3. LiveClients' = LiveClients
    BY <1>10, <2>1 DEF InterruptClose, SetFlag, SetLink, LiveClients, TypeOK, SessionCovered
  <2> QED
    BY <2>2, <2>3
<1>11. ASSUME ChangeCredentials \/ UNCHANGED vars PROVE Same
  BY <1>11 DEF ChangeCredentials, vars, Holders, HoldsSlot, LiveClients
<1> QED
  BY <1>0, <1>1, <1>2, <1>3, <1>4, <1>5, <1>6, <1>7, <1>8, <1>9, <1>10, <1>11
     DEF Next, Connect, Close, Slots!Next

\* connect() and close() implement the abstract slots: at most Limit sessions
\* exist, each under a slot that outlives it.
THEOREM SlotsImplemented ==
  ASSUME CleanInterrupts
  PROVE  Spec => ImplementsSlots
<1>1. Init => Slots!Init
  BY DEF Init, Slots!Init, Holders, HoldsSlot
<1>2. IInv /\ [Next]_vars => [Slots!Next]_(Slots!vars)
  BY StepRefines
<1> QED
  BY <1>1, <1>2, Invariance, PTL DEF Spec, ImplementsSlots, Slots!Spec

=============================================================================
