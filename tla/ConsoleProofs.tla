--------------------------- MODULE ConsoleProofs ---------------------------
(***************************************************************************)
(* Proofs about Session and Console.  Every step of Console is one of      *)
(* Session or leaves it alone, so what is proved of Session holds with the *)
(* screens and the terminal in place.  NobodyElseReads follows from where  *)
(* a reader can be left behind: only before a pause for Enter, and with    *)
(* the terminal in its hands.  The last part is about the numbered menu,   *)
(* which all screens of the console are chosen from.                       *)
(***************************************************************************)
EXTENDS Console, NumberedSelect, WellFoundedInduction, SequenceTheorems, TLAPS

-----------------------------------------------------------------------------
(* Session *)

LEMMA CredentialsStep ==
  CredentialsFollowSession /\ [Next]_vars => CredentialsFollowSession'
<1> SUFFICES ASSUME CredentialsFollowSession, [Next]_vars
             PROVE  CredentialsFollowSession'
  OBVIOUS
<1> USE DEF CredentialsFollowSession, InMenu
<1>1. CASE Start \/ (\E u \in Users : SignIn(u)) \/ InterruptLogin
  BY <1>1 DEF Start, SignIn, InterruptLogin, ClearSecrets, vars
<1>2. CASE CheckTimesOut \/ CheckPasses \/ Choose \/ ChoiceTimesOut \/ SignOut \/ Exit
  BY <1>2 DEF CheckTimesOut, CheckPasses, Choose, ChoiceTimesOut, SignOut, Exit,
     Return, LeaveMenu, secrets
<1>3. CASE OpenTasks \/ OpenMonitor \/ RunTask \/ BackFromTasks \/ SubmitJob \/ Watch
           \/ BackFromMonitor
  BY <1>3 DEF OpenTasks, OpenMonitor, RunTask, BackFromTasks, SubmitJob, Watch,
     BackFromMonitor, BackToMenu, secrets
<1>4. CASE InterruptMenu \/ Abort
  BY <1>4 DEF InterruptMenu, Abort, LeaveMenu, secrets
<1>5. CASE Finally \/ ProcessEnds \/ JobEnds \/ Tick
  BY <1>5 DEF Finally, FinallyClears, ClearSecrets, ProcessEnds, JobEnds, Tick, secrets
<1>6. CASE UNCHANGED vars
  BY <1>6 DEF vars
<1> QED
  BY <1>1, <1>2, <1>3, <1>4, <1>5, <1>6 DEF Next, Menu

\* The session's copy of the SSH password is in memory exactly while a user is in
\* the menus (the finally clause of Main.py:557 and the returns of main_menu()).
THEOREM CredentialsInSessionOnly == Spec => []CredentialsFollowSession
<1>1. Init => CredentialsFollowSession
  BY DEF Init, CredentialsFollowSession, InMenu
<1> QED
  BY <1>1, CredentialsStep, PTL DEF Spec

LEMMA NothingLeftStep == NothingLeftAtExit /\ [Next]_vars => NothingLeftAtExit'
<1> SUFFICES ASSUME NothingLeftAtExit, [Next]_vars
             PROVE  NothingLeftAtExit'
  OBVIOUS
<1> USE DEF NothingLeftAtExit
<1>1. CASE InterruptLogin
  BY <1>1 DEF InterruptLogin, ClearSecrets, WipeVault
<1>2. CASE Finally
  BY <1>2 DEF Finally, FinallyClears, ClearSecrets, WipeVault
<1>3. CASE Start \/ (\E u \in Users : SignIn(u)) \/ ProcessEnds
  BY <1>3 DEF Start, SignIn, ProcessEnds
<1>4. CASE Menu
  BY <1>4 DEF Menu, CheckTimesOut, CheckPasses, Choose, ChoiceTimesOut, SignOut, Exit,
     Return, LeaveMenu, OpenTasks, OpenMonitor, RunTask, BackFromTasks, SubmitJob,
     Watch, BackFromMonitor, BackToMenu
<1>5. CASE InterruptMenu \/ Abort
  BY <1>5 DEF InterruptMenu, Abort, LeaveMenu
<1>6. CASE JobEnds \/ Tick \/ UNCHANGED vars
  BY <1>6 DEF JobEnds, Tick, vars, secrets
<1> QED
  BY <1>1, <1>2, <1>3, <1>4, <1>5, <1>6 DEF Next

\* After Exit and Ctrl+C no secret is left (Main.py:237).
THEOREM NothingLeft == Spec => []NothingLeftAtExit
<1>1. Init => NothingLeftAtExit
  BY DEF Init, NothingLeftAtExit
<1> QED
  BY <1>1, NothingLeftStep, PTL DEF Spec

LEMMA IdleStep ==
  ASSUME [Next]_vars, pc = "chosen", idle > Timeout
  PROVE  pc' \in {"chosen", "finally"}
<1>1. CASE Menu
  BY <1>1 DEF Menu, CheckTimesOut, CheckPasses, Choose, ChoiceTimesOut, SignOut, Exit,
     Return, LeaveMenu, OpenTasks, OpenMonitor, RunTask, BackFromTasks, SubmitJob,
     Watch, BackFromMonitor, ChosenTooLate, TimedOut
<1>2. CASE InterruptMenu \/ Abort
  BY <1>2 DEF InterruptMenu, Abort, LeaveMenu
<1>3. CASE \/ Start \/ (\E u \in Users : SignIn(u)) \/ InterruptLogin
           \/ Finally \/ ProcessEnds \/ JobEnds \/ Tick \/ UNCHANGED vars
  BY <1>3 DEF Start, SignIn, InterruptLogin, Finally, ProcessEnds, JobEnds, Tick, vars
<1> QED
  BY <1>1, <1>2, <1>3 DEF Next

\* Who was away for longer than the timeout gets only out of the main menu
\* (Main.py:508).
THEOREM IdleSignsOut == Spec => IdleMenuSignsOut
<1>1. [Next]_vars => (pc = "chosen" /\ idle > Timeout => pc' \in {"chosen", "finally"})
  BY IdleStep
<1> QED
  BY <1>1, PTL DEF Spec, IdleMenuSignsOut

\* The session's own types: nobody is in the menus without having signed in.
LEMMA SessionTypeStep == TypeOK /\ [Next]_vars => TypeOK'
<1> SUFFICES ASSUME TypeOK, [Next]_vars
             PROVE  TypeOK'
  OBVIOUS
<1> USE NumbersAssumption, NoUserAssumption DEF TypeOK, Points, InMenu, MenuItems
<1>1. CASE Start \/ (\E u \in Users : SignIn(u))
  <2>1. vault' \in BOOLEAN /\ creds' \in BOOLEAN /\ hmac' \in BOOLEAN
    BY <1>1, Zenon DEF Start, SignIn
  <2>2. /\ pc' \in Points /\ user' \in Users \union {NoUser}
        /\ pc' \in InMenu => user' # NoUser
        /\ idle' \in 0 .. MaxIdle
        /\ UNCHANGED <<choice, next, jobs>>
    BY <1>1 DEF Start, SignIn
  <2> QED
    BY <2>1, <2>2
<1>2. CASE CheckTimesOut \/ ChoiceTimesOut \/ SignOut \/ Exit
  BY <1>2 DEF CheckTimesOut, ChoiceTimesOut, SignOut, Exit, Return, LeaveMenu,
     ClearSecrets, WipeVault
<1>3. CASE CheckPasses \/ Choose \/ OpenTasks \/ OpenMonitor \/ RunTask
  BY <1>3 DEF CheckPasses, Choose, OpenTasks, OpenMonitor, RunTask, secrets
<1>4. CASE BackFromTasks \/ Watch \/ BackFromMonitor
  BY <1>4 DEF BackFromTasks, Watch, BackFromMonitor, BackToMenu, secrets
<1>5. CASE SubmitJob \/ JobEnds
  BY <1>5 DEF SubmitJob, JobEnds, BackToMenu, secrets
<1>6. CASE InterruptMenu \/ Abort
  BY <1>6 DEF InterruptMenu, Abort, LeaveMenu, secrets
<1>7. CASE Finally \/ InterruptLogin
  <2>1. /\ pc' \in Points /\ pc' \notin InMenu /\ user' \in Users \union {NoUser}
        /\ next' \in {"none", "login", "exit", "interrupt", "abort"}
        /\ UNCHANGED <<idle, choice, jobs>>
    BY <1>7 DEF Finally, InterruptLogin
  <2>2. vault' \in BOOLEAN /\ creds' \in BOOLEAN /\ hmac' \in BOOLEAN
    BY <1>7, Zenon DEF Finally, InterruptLogin, FinallyClears, ClearSecrets, WipeVault
  <2> QED
    BY <2>1, <2>2
<1>8. CASE ProcessEnds
  <2>1. vault' \in BOOLEAN /\ creds' \in BOOLEAN /\ hmac' \in BOOLEAN
    BY <1>8, Zenon DEF ProcessEnds
  <2>2. /\ pc' \in Points \ InMenu /\ next' = "none" /\ idle' \in 0 .. MaxIdle
        /\ UNCHANGED <<user, choice, jobs>>
    BY <1>8 DEF ProcessEnds
  <2> QED
    BY <2>1, <2>2
<1>9. CASE Tick
  BY <1>9 DEF Tick, secrets
<1>10. CASE UNCHANGED vars
  BY <1>10 DEF vars, secrets
<1> QED
  BY <1>1, <1>2, <1>3, <1>4, <1>5, <1>6, <1>7, <1>8, <1>9, <1>10 DEF Next, Menu

LEMMA SessionTypeInit == Init => TypeOK
<1> SUFFICES ASSUME Init PROVE TypeOK
  OBVIOUS
<1>1. pc \in Points \ InMenu /\ idle \in 0 .. MaxIdle /\ jobs \in 0 .. MaxJobs
  BY NumbersAssumption DEF Init, Points, InMenu
<1> QED
  BY <1>1 DEF Init, TypeOK

-----------------------------------------------------------------------------
(* Console steps are steps of Session *)

LEMMA MonitorIsSession == Monitor => [Next]_vars
<1> USE DEF Next, Menu
<1>1. OpenJobs \/ LeaveMonitor => [Next]_vars
  BY DEF OpenJobs, LeaveMonitor
<1>2. OpenTail \/ NoLogToTail \/ Detach \/ LeaveTail => [Next]_vars
  BY DEF OpenTail, NoLogToTail, Detach, LeaveTail
<1>3. LeaveByException => [Next]_vars
  BY DEF LeaveByException
<1>4. TailEnds => [Next]_vars
  BY DEF TailEnds
<1> QED
  BY <1>1, <1>2, <1>3, <1>4 DEF Monitor

LEMMA TasksAreSession ==
  Questions \/ Work \/ TaskRaises \/ TaskAborts \/ EofInTask \/ InterruptTask
    => [Next]_vars
<1> USE DEF Next, Menu
<1>1. LeaveHosts \/ PressEnter \/ InterruptTask => [Next]_vars
  BY DEF LeaveHosts, PressEnter, InterruptTask, EndTask
<1>2. PromptFails => [Next]_vars
  BY DEF PromptFails, EndTask
<1>3. PromptAnswered \/ AnswerQuestion => [Next]_vars
  BY DEF PromptAnswered, AnswerQuestion
<1>4. LaunchJob \/ VisitHost \/ AllVisited \/ TaskRaises => [Next]_vars
  BY DEF LaunchJob, VisitHost, AllVisited, TaskRaises
<1>5. TaskAborts \/ EofInTask => [Next]_vars
  BY DEF TaskAborts, EofInTask
<1> QED
  BY <1>1, <1>2, <1>3, <1>4, <1>5 DEF Questions, Work

LEMMA ConsoleStepIsSession == [ConsoleNext]_everything => [Next]_vars
<1> SUFFICES ASSUME [ConsoleNext]_everything
             PROVE  [Next]_vars
  OBVIOUS
<1>1. CASE AtMenu
  BY <1>1 DEF AtMenu, Next, Menu
<1>2. CASE \E k \in PythonTasks \union {"yaml"} : BeginTask(k)
  BY <1>2 DEF BeginTask, Next, Menu
<1>3. CASE \E raw \in SeqOf(Typed, MaxTyped) : ConfirmHosts(raw)
  BY <1>3 DEF ConfirmHosts
<1>4. CASE Questions \/ Work \/ TaskRaises \/ TaskAborts \/ EofInTask \/ InterruptTask
  BY <1>4, TasksAreSession
<1>5. CASE Monitor
  BY <1>5, MonitorIsSession
<1>6. CASE JobOver \/ ProcessOver
  BY <1>6 DEF JobOver, ProcessOver, Next
<1>7. CASE \E r \in Readers \union {"main"} : TakeTerminal(r)
  BY <1>7 DEF TakeTerminal
<1>8. CASE \E r \in Readers : ThreadGetsLine(r, "line") \/ ThreadGetsLine(r, "eof")
  BY <1>8 DEF ThreadGetsLine
<1>9. CASE UNCHANGED everything
  BY <1>9 DEF everything
<1> QED
  BY <1>1, <1>2, <1>3, <1>4, <1>5, <1>6, <1>7, <1>8, <1>9 DEF ConsoleNext

\* Whatever the screens and readers do, the session goes its way.
THEOREM ConsoleImplementsSession == ConsoleSpec => Spec
<1>1. ConsoleInit => Init
  BY DEF ConsoleInit
<1> QED
  BY <1>1, ConsoleStepIsSession, PTL DEF ConsoleSpec, Spec

-----------------------------------------------------------------------------
(* Nobody else reads *)

\* Where the main thread is, and who may have the terminal.
ScreensFit ==
  /\ pc \in Points
  /\ screen \in Screens /\ (screen # "none" <=> pc \in {"task", "monitor"})
  /\ screen \in {"tail", "over", "jobs", "noJobs"} => pc = "monitor"
  /\ threads \subseteq Readers
  /\ lock \in threads \union {NoReader, "main"}

\* A reader that was left behind has the terminal until it has its line; a process
\* on its way out may leave one for good.
ReadersFit ==
  /\ lock = "main" => threads = {} /\ ReadsLine
  /\ screen \in {"prompt", "tail"} =>
       threads \subseteq {own} /\ (heard # "none" => threads = {})
  /\ threads # {} =>
       \/ screen \in {"prompt", "tail"}
       \/ screen \in {"enter", "over"} /\ threads = {lock}
       \/ pc = "linger"
       \/ pc = "finally" /\ next # "login"

TerminalInv == ScreensFit /\ ReadersFit

LEMMA TerminalInit == ConsoleInit => TerminalInv
BY ConsoleAssumption DEF ConsoleInit, Init, TerminalInv, ScreensFit, ReadersFit, Points, Screens,
   KeyScreens, LineScreens, SecretScreens

LEMMA TasksKeepTerminal ==
  ASSUME "interrupt" \notin Faults, TerminalInv,
         \/ Questions \/ Work \/ TaskRaises \/ TaskAborts \/ EofInTask \/ InterruptTask
         \/ \E k \in PythonTasks \union {"yaml"} : BeginTask(k)
         \/ \E raw \in SeqOf(Typed, MaxTyped) : ConfirmHosts(raw)
  PROVE  TerminalInv'
<1> USE ConsoleAssumption
    DEF TerminalInv, ScreensFit, ReadersFit, Points, Screens, KeyScreens, LineScreens,
        SecretScreens, ReadsLine
<1>1. CASE \E k \in PythonTasks \union {"yaml"} : BeginTask(k)
  BY <1>1 DEF BeginTask, RunTask, StartReader
<1>2. CASE \E raw \in SeqOf(Typed, MaxTyped) : ConfirmHosts(raw)
  BY <1>2 DEF ConfirmHosts, terminal, vars
<1>3. CASE PromptAnswered
  BY <1>3 DEF PromptAnswered, StartReader, StopListening, vars
<1>4. CASE PromptFails
  BY <1>4 DEF PromptFails, ReaderStarted, StopListening, EndTask, BackFromTasks,
     BackToMenu, NoTask, AfterPrompt, Show, vars
<1>5. CASE LeaveHosts \/ PressEnter
  BY <1>5 DEF LeaveHosts, PressEnter, EndTask, BackFromTasks, BackToMenu, NoTask,
     Release, terminal
<1>6. CASE AnswerQuestion
  BY <1>6 DEF AnswerQuestion, AnswerLeadsTo, Show, Release, vars
<1>7. CASE LaunchJob
  BY <1>7 DEF LaunchJob, SubmitJob, BackToMenu, NoTask, terminal
<1>8. CASE VisitHost \/ AllVisited \/ TaskRaises
  BY <1>8 DEF VisitHost, AllVisited, TaskRaises, Show, terminal, vars
<1>9. CASE TaskAborts \/ EofInTask
  BY <1>9 DEF TaskAborts, EofInTask, Abort, InMenu, LeaveMenu, NoTask, Show, Release,
     terminal, vars
<1>10. CASE InterruptTask
  BY <1>10 DEF InterruptTask, EndTask, BackFromTasks, BackToMenu, NoTask, Release
<1> QED
  BY <1>1, <1>2, <1>3, <1>4, <1>5, <1>6, <1>7, <1>8, <1>9, <1>10 DEF Questions, Work

LEMMA MonitorKeepsTerminal ==
  ASSUME TerminalInv, Monitor
  PROVE  TerminalInv'
<1> USE ConsoleAssumption
    DEF TerminalInv, ScreensFit, ReadersFit, Points, Screens, KeyScreens, LineScreens,
        SecretScreens, ReadsLine
<1>1. CASE OpenJobs
  BY <1>1 DEF OpenJobs, OpenMonitor, terminal
<1>2. CASE OpenTail \/ NoLogToTail
  BY <1>2 DEF OpenTail, NoLogToTail, Watch, StartReader, Show, terminal
<1>3. CASE Detach
  BY <1>3 DEF Detach, Watch, Show, StopListening
<1>4. CASE TailEnds
  BY <1>4 DEF TailEnds, ReaderStarted, Show, StopListening, vars
<1>5. CASE LeaveTail \/ LeaveMonitor
  BY <1>5 DEF LeaveTail, LeaveMonitor, Watch, Show, Release, BackFromMonitor,
     BackToMenu, NoTask
<1>6. CASE LeaveByException
  BY <1>6 DEF LeaveByException, InterruptMenu, Abort, LeaveMenu, NoTask, Release
<1> QED
  BY <1>1, <1>2, <1>3, <1>4, <1>5, <1>6 DEF Monitor

LEMMA MenusKeepTerminal ==
  ASSUME TerminalInv, AtMenu, UNCHANGED console
  PROVE  TerminalInv'
<1> USE DEF TerminalInv, ScreensFit, ReadersFit, Points, ReadsLine, console
<1>1. CASE Start \/ (\E u \in Users : SignIn(u)) \/ InterruptLogin
  BY <1>1 DEF Start, SignIn, InterruptLogin
<1>2. CASE CheckTimesOut \/ CheckPasses \/ Choose \/ ChoiceTimesOut \/ SignOut \/ Exit
           \/ OpenTasks
  BY <1>2 DEF CheckTimesOut, CheckPasses, Choose, ChoiceTimesOut, SignOut, Exit,
     OpenTasks, Return, LeaveMenu
<1>3. CASE Finally \/ Tick
  BY <1>3 DEF Finally, Tick
<1>4. CASE pc = "submenu" /\ (BackFromTasks \/ Abort)
  BY <1>4 DEF BackFromTasks, BackToMenu, Abort, LeaveMenu
<1>5. CASE pc \notin {"task", "monitor"} /\ (InterruptMenu \/ Abort)
  BY <1>5 DEF InterruptMenu, Abort, InMenu, LeaveMenu
<1> QED
  BY <1>1, <1>2, <1>3, <1>4, <1>5 DEF AtMenu

LEMMA TerminalStep ==
  ASSUME "interrupt" \notin Faults, TerminalInv, [ConsoleNext]_everything
  PROVE  TerminalInv'
<1> USE DEF TerminalInv, ScreensFit, ReadersFit, ReadsLine
<1>1. CASE AtMenu /\ UNCHANGED console
  BY <1>1, MenusKeepTerminal
<1>2. CASE \/ Questions \/ Work \/ TaskRaises \/ TaskAborts \/ EofInTask \/ InterruptTask
           \/ \E k \in PythonTasks \union {"yaml"} : BeginTask(k)
           \/ \E raw \in SeqOf(Typed, MaxTyped) : ConfirmHosts(raw)
  BY <1>2, TasksKeepTerminal
<1>3. CASE Monitor
  BY <1>3, MonitorKeepsTerminal
<1>4. CASE JobOver
  BY <1>4 DEF JobOver, JobEnds, doing, terminal
<1>5. CASE ProcessOver
  BY <1>5, ConsoleAssumption DEF ProcessOver, ProcessEnds, doing, Points
<1>6. CASE \E r \in Readers \union {"main"} : TakeTerminal(r)
  <2> PICK r \in Readers \union {"main"} : TakeTerminal(r)
    BY <1>6
  <2> USE ConsoleAssumption
  <2>1. ReadsLine => screen \in Screens \ {"none", "prompt", "tail"}
    BY DEF Screens, KeyScreens, LineScreens, SecretScreens
  <2>2. threads' = threads /\ lock' = r /\ lock = NoReader
    BY DEF TakeTerminal
  <2>3. UNCHANGED <<pc, screen, own, heard, next>>
    BY DEF TakeTerminal, doing, vars
  <2>4. r \in threads \/ (r = "main" /\ ReadsLine)
    <3>1. r \in threads \union (IF ReadsLine THEN {"main"} ELSE {})
      BY DEF TakeTerminal
    <3> QED
      BY <3>1
  <2>5. threads # {} => screen \notin {"enter", "over"}
    BY <2>2
  <2>6. r = "main" => threads = {}
    BY <2>1, <2>4, <2>5
  <2> QED
    BY <2>1, <2>2, <2>3, <2>4, <2>5, <2>6
<1>7. CASE \E r \in Readers : ThreadGetsLine(r, "line") \/ ThreadGetsLine(r, "eof")
  <2> PICK r \in Readers : ThreadGetsLine(r, "line") \/ ThreadGetsLine(r, "eof")
    BY <1>7
  <2> USE ConsoleAssumption
  <2>1. lock = r /\ r \in threads /\ threads' = threads \ {r} /\ lock' = NoReader
    BY DEF ThreadGetsLine
  <2>2. UNCHANGED <<pc, screen, own, next>>
    BY DEF ThreadGetsLine, doing, vars
  <2>3. screen \in {"prompt", "tail", "enter", "over"} => threads' = {}
    BY <2>1
  <2> QED
    BY <2>1, <2>2, <2>3
<1>8. CASE UNCHANGED everything
  BY <1>8 DEF everything, console, vars
<1> QED
  BY <1>1, <1>2, <1>3, <1>4, <1>5, <1>6, <1>7, <1>8 DEF ConsoleNext

\* Without Ctrl+C at a prompt with a timeout, every menu, get_hosts() and every
\* question has the terminal for itself, for any number of readers and prompts.
THEOREM NoOtherReader ==
  ASSUME "interrupt" \notin Faults
  PROVE  ConsoleSpec => []NobodyElseReads
<1>1. TerminalInv => NobodyElseReads
  BY DEF TerminalInv, ScreensFit, ReadersFit, NobodyElseReads, KeyScreens
<1>2. TerminalInv /\ [ConsoleNext]_everything => TerminalInv'
  BY TerminalStep
<1> QED
  BY <1>1, <1>2, TerminalInit, PTL DEF ConsoleSpec
-----------------------------------------------------------------------------
(* Recursion: a function that is defined from its value one place before *)

LEMMA NatSetInduction ==
  ASSUME NEW G, 0 \in G, \A n \in Nat : n \in G => n + 1 \in G
  PROVE  Nat \subseteq G
<1>1. SUFFICES ASSUME Nat \ G # {} PROVE FALSE
  OBVIOUS
<1>2. \E x \in Nat \ G : \A y \in Nat \ G : ~ (<<y, x>> \in OpToRel(<, Nat))
  BY <1>1, WFMin, NatLessThanWellFounded
<1>3. PICK x \in Nat \ G : \A y \in Nat \ G : ~ (y < x)
  BY <1>2 DEF OpToRel
<1>4. x # 0 /\ x - 1 \in Nat /\ x = (x - 1) + 1
  OBVIOUS
<1>5. x - 1 \notin G
  BY <1>4
<1> QED
  BY <1>3, <1>4, <1>5

\* f follows step from base up to n.
Follows(f, n, base, step) ==
  f = [i \in 0 .. n |-> IF i = 0 THEN base ELSE step[i][f[i - 1]]]

LEMMA FoldExists ==
  ASSUME NEW n \in Nat, NEW S, NEW base \in S, NEW step \in [1 .. n -> [S -> S]]
  PROVE  \E f \in [0 .. n -> S] : Follows(f, n, base, step)
<1> DEFINE Upto(k, f) == f[0] = base /\ \A i \in 1 .. k : f[i] = step[i][f[i - 1]]
           G == {k \in Nat : k <= n => \E f \in [0 .. k -> S] : Upto(k, f)}
<1>1. 0 \in G
  <2>1. [i \in 0 .. 0 |-> base] \in [0 .. 0 -> S]
    OBVIOUS
  <2>2. Upto(0, [i \in 0 .. 0 |-> base])
    OBVIOUS
  <2> QED
    BY <2>1, <2>2
<1>2. ASSUME NEW k \in Nat, k \in G
      PROVE  k + 1 \in G
  <2>1. SUFFICES ASSUME k + 1 <= n
                 PROVE  \E f \in [0 .. k + 1 -> S] : Upto(k + 1, f)
    OBVIOUS
  <2>2. PICK f \in [0 .. k -> S] : Upto(k, f)
    BY <1>2, <2>1
  <2> DEFINE g == [i \in 0 .. k + 1 |-> IF i = k + 1 THEN step[k + 1][f[k]] ELSE f[i]]
  <2>3. step[k + 1][f[k]] \in S
    BY <2>1, <2>2
  <2>4. g \in [0 .. k + 1 -> S]
    BY <2>2, <2>3
  <2>5. \A i \in 1 .. k : i - 1 \in 0 .. k /\ i \in 0 .. k
    OBVIOUS
  <2>6. Upto(k + 1, g)
    BY <2>2, <2>5
  <2> QED
    BY <2>4, <2>6
<1> HIDE DEF G
<1>3. n \in G
  BY <1>1, <1>2, NatSetInduction
<1>4. PICK f \in [0 .. n -> S] : Upto(n, f)
  BY <1>3 DEF G
<1>5. Follows(f, n, base, step)
  BY <1>4 DEF Follows
<1> QED
  BY <1>5

-----------------------------------------------------------------------------
(* What becomes of the addresses *)

LEMMA AcceptOK ==
  ASSUME NEW valid \in Seq(Spellings), IsInjective(valid), NEW h \in Typed
  PROVE  Accept(valid, h) \in Seq(Spellings) /\ IsInjective(Accept(valid, h))
<1>1. CASE h = Malformed \/ Seen(valid, h)
  BY <1>1 DEF Accept
<1>2. CASE ~(h = Malformed \/ Seen(valid, h))
  <2>1. Accept(valid, h) = Append(valid, h) /\ h \in Spellings
    BY <1>2 DEF Accept, Typed
  <2>2. Len(valid) \in Nat /\ \A i \in 1 .. Len(valid) : valid[i] # h
    BY <1>2, LenProperties DEF Seen, Contains
  <2>3. /\ Append(valid, h) \in Seq(Spellings)
        /\ DOMAIN Append(valid, h) = 1 .. Len(valid) + 1
        /\ \A i \in 1 .. Len(valid) : Append(valid, h)[i] = valid[i]
        /\ Append(valid, h)[Len(valid) + 1] = h
    BY <2>1, AppendProperties, LenProperties
  <2>4. DOMAIN valid = 1 .. Len(valid)
    BY LenProperties
  <2>5. IsInjective(Append(valid, h))
    BY <2>2, <2>3, <2>4 DEF IsInjective
  <2> QED
    BY <2>1, <2>3, <2>5
<1> QED
  BY <1>1, <1>2

LEMMA ValidateHostsOK ==
  ASSUME NEW raw \in Seq(Typed)
  PROVE  /\ ValidateHosts(raw) \in Seq(Spellings)
         /\ IsInjective(ValidateHosts(raw))
         /\ Len(ValidateHosts(raw)) <= MaxHosts
<1> DEFINE n == Len(raw)
           S == {s \in Seq(Spellings) : IsInjective(s)}
           start == <<>>
           step == [i \in 1 .. n |-> [s \in S |-> Accept(s, raw[i])]]
           upTo == CHOOSE f : f = [i \in 0 .. n |-> IF i = 0 THEN <<>> ELSE Accept(f[i - 1], raw[i])]
<1>1. n \in Nat /\ \A i \in 1 .. n : raw[i] \in Typed
  BY LenProperties, ElementOfSeq
<1>2. step \in [1 .. n -> [S -> S]]
  BY <1>1, AcceptOK
<1>3. start \in S
  BY DEF IsInjective
<1>4. PICK f \in [0 .. n -> S] : Follows(f, n, start, step)
  <2> HIDE DEF step, S, n, start
  <2>1. n \in Nat
    BY <1>1
  <2> QED
    BY <1>2, <1>3, <2>1, FoldExists
<1>5. f = [i \in 0 .. n |-> IF i = 0 THEN <<>> ELSE Accept(f[i - 1], raw[i])]
  <2>1. \A i \in 1 .. n : f[i - 1] \in S
    <3> HIDE DEF step, S, n
    <3>1. f \in [0 .. n -> S]
      BY <1>4
    <3>2. \A i \in 1 .. n : i - 1 \in 0 .. n
      BY <1>1
    <3> QED
      BY <3>1, <3>2
  <2>2. \A i \in 1 .. n : step[i][f[i - 1]] = Accept(f[i - 1], raw[i])
    BY <2>1
  <2> HIDE DEF step, S, n
  <2>3. \A i \in 0 .. n : i = 0 \/ i \in 1 .. n
    BY <1>1
  <2> QED
    BY <1>4, <2>2, <2>3 DEF Follows
<1>6. \A g : g = [i \in 0 .. n |-> IF i = 0 THEN <<>> ELSE Accept(g[i - 1], raw[i])]
         => g[n] \in S
  <2> SUFFICES ASSUME NEW g,
                      g = [i \in 0 .. n |-> IF i = 0 THEN <<>> ELSE Accept(g[i - 1], raw[i])]
               PROVE  g[n] \in S
    OBVIOUS
  <2> DEFINE G == {k \in Nat : k <= n => g[k] \in S}
  <2>1. 0 \in G
    BY <1>1, <1>3
  <2>2. ASSUME NEW k \in Nat, k \in G PROVE k + 1 \in G
    <3>1. SUFFICES ASSUME k + 1 <= n PROVE g[k + 1] \in S
      OBVIOUS
    <3>2. g[k + 1] = Accept(g[k], raw[k + 1]) /\ g[k] \in S /\ raw[k + 1] \in Typed
      BY <1>1, <2>2, <3>1
    <3> QED
      BY <3>2, AcceptOK
  <2> HIDE DEF G
  <2>3. n \in G
    BY <1>1, <2>1, <2>2, NatSetInduction
  <2> QED
    BY <1>1, <2>3 DEF G
<1>7. upTo = [i \in 0 .. n |-> IF i = 0 THEN <<>> ELSE Accept(upTo[i - 1], raw[i])]
  BY <1>5
<1> DEFINE valid == upTo[n]
           m == IF Len(valid) > MaxHosts THEN MaxHosts ELSE Len(valid)
<1>8. valid \in S
  BY <1>6, <1>7
<1>9. ValidateHosts(raw) = SubSeq(valid, 1, m)
  BY DEF ValidateHosts
<1> HIDE DEF valid, upTo
<1>10. Len(valid) \in Nat /\ m \in 0 .. Len(valid) /\ m <= MaxHosts
       /\ DOMAIN valid = 1 .. Len(valid)
  BY <1>8, LenProperties, HostInputAssumption
<1> HIDE DEF m
<1>11. /\ SubSeq(valid, 1, m) \in Seq(Spellings)
       /\ Len(SubSeq(valid, 1, m)) = m
       /\ DOMAIN SubSeq(valid, 1, m) = 1 .. m
       /\ \A i \in 1 .. m : SubSeq(valid, 1, m)[i] = valid[i]
  BY <1>8, <1>10
<1>12. IsInjective(SubSeq(valid, 1, m))
  BY <1>8, <1>10, <1>11 DEF IsInjective
<1> QED
  BY <1>9, <1>10, <1>11, <1>12

LEMMA TailDistinct ==
  ASSUME NEW s \in Seq(Spellings), s # <<>>, IsInjective(s)
  PROVE  Tail(s) \in Seq(Spellings) /\ IsInjective(Tail(s)) /\ Len(Tail(s)) <= Len(s)
<1>1. /\ Tail(s) \in Seq(Spellings) /\ Len(Tail(s)) = Len(s) - 1
      /\ \A i \in 1 .. Len(Tail(s)) : Tail(s)[i] = s[i + 1]
  BY HeadTailProperties
<1>2. /\ Len(s) \in Nat \ {0} /\ DOMAIN s = 1 .. Len(s) /\ DOMAIN Tail(s) = 1 .. Len(s) - 1
  BY <1>1, EmptySeq, LenProperties
<1>3. IsInjective(Tail(s))
  <2> SUFFICES ASSUME NEW a \in DOMAIN Tail(s), NEW b \in DOMAIN Tail(s), Tail(s)[a] = Tail(s)[b]
               PROVE  a = b
    BY DEF IsInjective
  <2>1. s[a + 1] = s[b + 1] /\ a + 1 \in DOMAIN s /\ b + 1 \in DOMAIN s
    BY <1>1, <1>2
  <2>2. a + 1 = b + 1
    BY <2>1 DEF IsInjective
  <2> QED
    BY <1>2, <2>2
<1> QED
  BY <1>1, <1>2, <1>3

TargetsInv == targets \in Seq(Spellings) /\ IsInjective(targets) /\ Len(targets) <= MaxHosts

LEMMA TargetsStep ==
  ASSUME [ConsoleNext]_everything
  PROVE  \/ targets' = targets \/ targets' = <<>>
         \/ targets # <<>> /\ targets' = Tail(targets)
         \/ \E raw \in SeqOf(Typed, MaxTyped) : targets' = ValidateHosts(raw)
<1>1. CASE AtMenu /\ UNCHANGED console
  BY <1>1 DEF console
<1>2. CASE \E k \in PythonTasks \union {"yaml"} : BeginTask(k)
  BY <1>2 DEF BeginTask
<1>3. CASE \E raw \in SeqOf(Typed, MaxTyped) : ConfirmHosts(raw)
  BY <1>3 DEF ConfirmHosts
<1>4. CASE VisitHost
  BY <1>4 DEF VisitHost, HostIsThrough
<1>5. CASE Questions
  BY <1>5 DEF Questions, PromptAnswered, PromptFails, LeaveHosts, AnswerQuestion, PressEnter,
     EndTask, NoTask, Show
<1>6. CASE LaunchJob \/ AllVisited \/ TaskRaises \/ TaskAborts \/ EofInTask \/ InterruptTask
  BY <1>6 DEF LaunchJob, AllVisited, TaskRaises, TaskAborts, EofInTask, InterruptTask,
     EndTask, NoTask, Show
<1>7. CASE Monitor
  BY <1>7 DEF Monitor, OpenJobs, OpenTail, NoLogToTail, Detach, TailEnds, LeaveTail,
     LeaveMonitor, LeaveByException, NoTask, Show
<1>8. CASE \/ JobOver \/ ProcessOver
           \/ \E r \in Readers \union {"main"} : TakeTerminal(r)
           \/ \E r \in Readers : ThreadGetsLine(r, "line") \/ ThreadGetsLine(r, "eof")
  BY <1>8 DEF JobOver, ProcessOver, TakeTerminal, ThreadGetsLine, doing
<1>9. CASE UNCHANGED everything
  BY <1>9 DEF everything, console
<1> QED
  BY <1>1, <1>2, <1>3, <1>4, <1>5, <1>6, <1>7, <1>8, <1>9 DEF ConsoleNext, Work

\* No host is visited twice by a task or beyond the limit, whatever was typed, however
\* much of it and with whatever faults (_validate_hosts(), utils/host_input.py:17).
THEOREM TargetsAreDistinct == ConsoleSpec => []TargetsDistinct
<1>1. ConsoleInit => TargetsInv
  BY HostInputAssumption DEF ConsoleInit, TargetsInv, IsInjective
<1>2. TargetsInv /\ [ConsoleNext]_everything => TargetsInv'
  <2> SUFFICES ASSUME TargetsInv, [ConsoleNext]_everything
               PROVE  TargetsInv'
    OBVIOUS
  <2>1. CASE targets' = targets
    BY <2>1 DEF TargetsInv
  <2>2. CASE targets' = <<>>
    BY <2>2, HostInputAssumption DEF TargetsInv, IsInjective
  <2>3. CASE targets # <<>> /\ targets' = Tail(targets)
    <3>1. Len(Tail(targets)) \in Nat /\ Len(targets) \in Nat /\ MaxHosts \in Nat
      BY <2>3, TailDistinct, LenProperties, HostInputAssumption DEF TargetsInv
    <3> QED
      BY <2>3, <3>1, TailDistinct DEF TargetsInv
  <2>4. CASE \E raw \in SeqOf(Typed, MaxTyped) : targets' = ValidateHosts(raw)
    <3>1. PICK raw \in SeqOf(Typed, MaxTyped) : targets' = ValidateHosts(raw)
      BY <2>4
    <3>2. raw \in Seq(Typed)
      BY <3>1, SeqDef, ConsoleAssumption DEF SeqOf
    <3> QED
      BY <3>1, <3>2, ValidateHostsOK DEF TargetsInv
  <2> QED
    BY <2>1, <2>2, <2>3, <2>4, TargetsStep
<1>3. TargetsInv => TargetsDistinct
  BY DEF TargetsInv, TargetsDistinct
<1> QED
  BY <1>1, <1>2, <1>3, PTL DEF ConsoleSpec

-----------------------------------------------------------------------------
(* Types of the console *)

\* The task at work, what its screen is, and where in its tail the monitor is; what
\* the terminal and the targets add is in TerminalInv and TargetsInv.
TaskFits ==
  /\ kind \in PythonTasks \union {"none", "yaml"} /\ (kind # "none" <=> pc = "task")
  /\ screen \in Screens /\ (screen # "none" <=> pc \in {"task", "monitor"})
  /\ screen \in {"tail", "over", "jobs", "noJobs"} => pc = "monitor"
  /\ prompts \in 0 .. Prompts /\ (screen = "prompt" => prompts > 0)

ListenersFit ==
  /\ threads \subseteq Readers
  /\ own \in Readers \union {NoReader}
  /\ heard \in {"none", "line", "eof"}
  /\ lock \in threads \union {NoReader, "main"}
  /\ watched \in {"none", "running", "over"}

LEMMA TaskStep ==
  ASSUME TypeOK, TaskFits, [ConsoleNext]_everything
  PROVE  TaskFits'
<1> USE ConsoleAssumption
    DEF TaskFits, PythonTasks, Screens, KeyScreens, LineScreens, SecretScreens
<1>1. CASE AtMenu /\ UNCHANGED console
  <2> USE <1>1 DEF console
  <2>1. CASE Start \/ (\E u \in Users : SignIn(u)) \/ InterruptLogin \/ Finally \/ Tick
    BY <2>1 DEF Start, SignIn, InterruptLogin, Finally, Tick
  <2>2. CASE \/ CheckTimesOut \/ CheckPasses \/ Choose \/ ChoiceTimesOut \/ SignOut \/ Exit
             \/ OpenTasks
    BY <2>2 DEF CheckTimesOut, CheckPasses, Choose, ChoiceTimesOut, SignOut, Exit,
       OpenTasks, Return, LeaveMenu
  <2>3. CASE \/ pc = "submenu" /\ (BackFromTasks \/ Abort)
             \/ pc \notin {"task", "monitor"} /\ (InterruptMenu \/ Abort)
    BY <2>3 DEF BackFromTasks, BackToMenu, Abort, InterruptMenu, InMenu, LeaveMenu
  <2> QED
    BY <2>1, <2>2, <2>3 DEF AtMenu
<1>2. CASE \E k \in PythonTasks \union {"yaml"} : BeginTask(k)
  BY <1>2 DEF BeginTask, RunTask
<1>3. CASE \E raw \in SeqOf(Typed, MaxTyped) : ConfirmHosts(raw)
  BY <1>3 DEF ConfirmHosts, vars
<1>4. CASE PromptAnswered \/ PromptFails
  BY <1>4 DEF PromptAnswered, PromptFails, EndTask, BackFromTasks, BackToMenu, NoTask,
     AfterPrompt, Show, vars
<1>5. CASE LeaveHosts \/ PressEnter \/ InterruptTask \/ LaunchJob
  BY <1>5 DEF LeaveHosts, PressEnter, InterruptTask, LaunchJob, SubmitJob, EndTask,
     BackFromTasks, BackToMenu, NoTask
<1>6. CASE AnswerQuestion \/ VisitHost \/ AllVisited \/ TaskRaises
  BY <1>6 DEF AnswerQuestion, AnswerLeadsTo, VisitHost, AllVisited, TaskRaises, Show, vars
<1>7. CASE TaskAborts \/ EofInTask
  BY <1>7 DEF TaskAborts, EofInTask, Abort, InMenu, LeaveMenu, NoTask, Show, vars
<1>8. CASE OpenJobs \/ OpenTail \/ NoLogToTail \/ Detach \/ TailEnds \/ LeaveTail
  BY <1>8 DEF OpenJobs, OpenMonitor, OpenTail, NoLogToTail, Detach, TailEnds, LeaveTail,
     Watch, Show, vars
<1>9. CASE LeaveMonitor \/ LeaveByException
  BY <1>9 DEF LeaveMonitor, LeaveByException, BackFromMonitor, BackToMenu, InterruptMenu,
     Abort, LeaveMenu, NoTask
<1>10. CASE JobOver \/ ProcessOver
  BY <1>10 DEF JobOver, ProcessOver, JobEnds, ProcessEnds, doing
<1>11. CASE \/ \E r \in Readers \union {"main"} : TakeTerminal(r)
            \/ \E r \in Readers : ThreadGetsLine(r, "line") \/ ThreadGetsLine(r, "eof")
  BY <1>11 DEF TakeTerminal, ThreadGetsLine, doing, vars
<1>12. CASE UNCHANGED everything
  BY <1>12 DEF everything, console, vars
<1> QED
  BY <1>1, <1>2, <1>3, <1>4, <1>5, <1>6, <1>7, <1>8, <1>9, <1>10, <1>11, <1>12
     DEF ConsoleNext, Questions, Work, Monitor

LEMMA ListenersStep ==
  ASSUME ListenersFit, [ConsoleNext]_everything
  PROVE  ListenersFit'
<1> USE ConsoleAssumption DEF ListenersFit
<1>1. CASE AtMenu /\ UNCHANGED console
  BY <1>1 DEF console
<1>2. CASE \E k \in PythonTasks \union {"yaml"} : BeginTask(k)
  BY <1>2 DEF BeginTask, StartReader
<1>3. CASE \E raw \in SeqOf(Typed, MaxTyped) : ConfirmHosts(raw)
  BY <1>3 DEF ConfirmHosts, terminal
<1>4. CASE PromptAnswered \/ PromptFails
  BY <1>4 DEF PromptAnswered, PromptFails, StartReader, StopListening
<1>5. CASE LeaveHosts \/ LaunchJob \/ VisitHost \/ AllVisited \/ TaskRaises \/ TaskAborts
  BY <1>5 DEF LeaveHosts, LaunchJob, VisitHost, AllVisited, TaskRaises, TaskAborts, terminal
<1>6. CASE PressEnter \/ AnswerQuestion \/ EofInTask \/ InterruptTask
  BY <1>6 DEF PressEnter, AnswerQuestion, EofInTask, InterruptTask, Release
<1>7. CASE OpenJobs \/ OpenTail \/ NoLogToTail \/ Detach \/ TailEnds
  BY <1>7 DEF OpenJobs, OpenTail, NoLogToTail, Detach, TailEnds, StartReader,
     StopListening, terminal
<1>8. CASE LeaveTail \/ LeaveMonitor \/ LeaveByException
  BY <1>8 DEF LeaveTail, LeaveMonitor, LeaveByException, Release
<1>9. CASE JobOver \/ ProcessOver
  BY <1>9 DEF JobOver, ProcessOver, terminal
<1>10. CASE \E r \in Readers \union {"main"} : TakeTerminal(r)
  BY <1>10 DEF TakeTerminal
<1>11. CASE \E r \in Readers : ThreadGetsLine(r, "line") \/ ThreadGetsLine(r, "eof")
  BY <1>11 DEF ThreadGetsLine
<1>12. CASE UNCHANGED everything
  BY <1>12 DEF everything, console
<1> QED
  BY <1>1, <1>2, <1>3, <1>4, <1>5, <1>6, <1>7, <1>8, <1>9, <1>10, <1>11, <1>12
     DEF ConsoleNext, Questions, Work, Monitor

\* The types of the session and of its screens, with every fault: a task has a screen
\* and a user who has signed in, and only a reader that waits for a line, or the main
\* thread, has the terminal.
THEOREM ConsoleTypeCorrect == ConsoleSpec => []ConsoleTypeOK
<1> DEFINE Types == TypeOK /\ TaskFits /\ ListenersFit
<1>1. ConsoleInit => Types
  BY SessionTypeInit, ConsoleAssumption
     DEF ConsoleInit, Init, TaskFits, ListenersFit, PythonTasks, Screens
<1>2. Types /\ [ConsoleNext]_everything => Types'
  BY ConsoleStepIsSession, SessionTypeStep, TaskStep, ListenersStep
<1>3. ConsoleSpec => []Types
  BY <1>1, <1>2, PTL DEF ConsoleSpec
<1>4. Types /\ TargetsDistinct => ConsoleTypeOK
  BY DEF TaskFits, ListenersFit, TargetsDistinct, ConsoleTypeOK
<1> QED
  BY <1>3, <1>4, TargetsAreDistinct, PTL

-----------------------------------------------------------------------------
(* The numbered menu: what the keys say *)

AnyKey == DigitKeys \union OtherKeys \union {Enter}

KeysTyped == keys \in Seq(AnyKey)

\* The digits of the keys ks[i] to ks[j].
Taken(ks, i, j) == [m \in 1 .. j - i + 1 |-> ks[i + m - 1].digit]

\* The first n keys are settled: the item highlighted is the one they name.
Settled(n) == digit_buf = <<>> /\ Names(keys, n, selected)

\* They are, and no digit that follows belongs to their last number.
Fresh(n) ==
  /\ Settled(n)
  /\ \/ n = 0 \/ ~IsDigit(keys[n])
     \/ Begins(keys, n, n) /\ keys[n] # Digit(0)
     \/ n >= LongestHistory

\* The last number of the first n keys is in the buffer of digits.
Pending(n) ==
  \E s \in 1 .. n :
    Begins(keys, s, n) /\ digit_buf = Taken(keys, s, n) /\ Names(keys, s - 1, selected)

\* A digit was typed and is not read yet.
DigitWaits ==
  /\ phase = "key" /\ Len(keys) > 0
  /\ \E d \in Digits : buffer = <<Digit(d)>> /\ keys[Len(keys)] = Digit(d)
  /\ \/ Pending(Len(keys) - 1)
     \/ /\ Settled(Len(keys) - 1)
        /\ Len(keys) = 1 \/ ~IsDigit(keys[Len(keys) - 1])

\* An Enter was typed and is not read yet; the history may have been full.
EnterWaits ==
  /\ phase = "key" /\ buffer = <<Enter>>
  /\ \/ Fresh(Len(keys))
     \/ Pending(Len(keys)) /\ Len(keys) >= LongestHistory
     \/ Len(keys) > 0 /\ Pending(Len(keys) - 1) /\ ~IsDigit(keys[Len(keys)])

\* Bytes that name nothing: the rest of an arrow of the menu before.
Silent == {<<>>, <<Key("A")>>, <<Key("B")>>, <<Key("["), Key("A")>>, <<Key("["), Key("B")>>}

AllRead ==
  buffer \in Silent /\ (phase = "key" => Fresh(Len(keys)) \/ Pending(Len(keys)))

\* Between two keys the highlight and the buffer of digits say what the keys say.
MenuFollows ==
  Spelled(keys) =>
    /\ phase \in {"key", "done"}
    /\ DigitWaits \/ EnterWaits \/ AllRead
    /\ phase = "key" => result = Key("none")
    /\ result.kind = "item" => result = Item(selected) /\ Names(keys, Len(keys), selected)

MenuInv == KeysTyped /\ MenuFollows

LEMMA KeyKinds ==
  /\ \A d, e : Digit(d) = Digit(e) => d = e
  /\ \A d, k : Digit(d) = Key(k) => k = "digit"
  /\ \A j, k : Key(j) = Key(k) => j = k
  /\ \A d : Digit(d).kind = "digit" /\ Digit(d).digit = d
  /\ \A k : Key(k).kind = k
  /\ \A i : Item(i).kind = "item"
  /\ \A i, k : Item(i) = Key(k) => k = "item"
  BY DEF Digit, Key, Item

LEMMA OneByte ==
  ASSUME NEW x
  PROVE  SubSeq(<<x>>, 1, 1) = <<x>> /\ Head(<<x>>) = x /\ Tail(<<x>>) = <<>>
<1>1. SubSeq(<<x>>, 1, 1) = <<x>>
  <2>1. <<x>> \in Seq({x}) /\ Len(<<x>>) = 1
    OBVIOUS
  <2> QED
    BY <2>1, SubSeqFull
<1> QED
  BY <1>1

LEMMA TwoBytes ==
  ASSUME NEW x, NEW y
  PROVE  Head(<<x, y>>) = x /\ Tail(<<x, y>>) = <<y>>
  OBVIOUS

LEMMA ThreeBytes ==
  ASSUME NEW x, NEW y, NEW z
  PROVE  Tail(<<x, y, z>>) = <<y, z>>
  OBVIOUS

LEMMA PlainBytes == \A k \in DigitKeys \union {Enter} : Bytes(k) = <<k>>
<1> SUFFICES ASSUME NEW k \in DigitKeys \union {Enter} PROVE Bytes(k) = <<k>>
  OBVIOUS
<1>1. k # Key("Up") /\ k # Key("Down")
  BY KeyKinds DEF DigitKeys, Enter
<1> QED
  BY <1>1 DEF Bytes

\* One digit is its own number.
LEMMA NumberOfDigit ==
  ASSUME NEW d \in Nat
  PROVE  Number(<<d>>) = d
<1> DEFINE s == <<d>>
           Sums(g) == g = [i \in 0 .. 1 |-> IF i = 0 THEN 0 ELSE 10 * g[i - 1] + s[i]]
           f == [i \in 0 .. 1 |-> IF i = 0 THEN 0 ELSE d]
<1>1. Len(s) = 1 /\ s[1] = d
  OBVIOUS
<1>2. Sums(f)
  <2>1. \A i \in 0 .. 1 : i = 0 \/ i = 1
    OBVIOUS
  <2>2. f[0] = 0 /\ f[1] = d
    OBVIOUS
  <2>3. \A i \in 0 .. 1 : f[i] = IF i = 0 THEN 0 ELSE 10 * f[i - 1] + s[i]
    BY <1>1, <2>1, <2>2
  <2> QED
    BY <2>3
<1>3. \A g : Sums(g) => g[1] = d
  <2> SUFFICES ASSUME NEW g, Sums(g) PROVE g[1] = d
    OBVIOUS
  <2>1. g[0] = 0
    OBVIOUS
  <2>2. g[1] = 10 * g[0] + s[1]
    OBVIOUS
  <2> QED
    BY <1>1, <2>1, <2>2
<1>4. Number(s) = (CHOOSE g : Sums(g))[1]
  BY <1>1 DEF Number
<1> HIDE DEF Sums, f, s
<1>5. Number(s) = d
  BY <1>2, <1>3, <1>4
<1> QED
  BY <1>5 DEF s

-----------------------------------------------------------------------------
(* What keys name *)

LEMMA NumberIsTaken ==
  ASSUME NEW ks, NEW i, NEW j
  PROVE  NumberAt(ks, i, j) = Number(Taken(ks, i, j))
BY DEF NumberAt, Taken

\* What the first n keys name does not depend on those behind them.
LEMMA NamesAgree ==
  ASSUME NEW ks, NEW ls, NEW n \in Nat, NEW v, \A i \in 1 .. n : ls[i] = ks[i]
  PROVE  /\ Names(ks, n, v) => Names(ls, n, v)
         /\ \A i \in 1 .. n : \A j \in i .. n :
              /\ Begins(ks, i, j) <=> Begins(ls, i, j)
              /\ Taken(ks, i, j) = Taken(ls, i, j)
<1>1. ASSUME NEW i \in 1 .. n, NEW j \in i .. n
      PROVE  /\ Begins(ks, i, j) <=> Begins(ls, i, j)
             /\ Whole(ks, n, i, j) <=> Whole(ls, n, i, j)
             /\ Taken(ks, i, j) = Taken(ls, i, j)
             /\ NumberAt(ks, i, j) = NumberAt(ls, i, j)
  <2>1. i = 1 \/ i - 1 \in 1 .. n
    OBVIOUS
  <2>2. \A m \in i .. j : m \in 1 .. n
    OBVIOUS
  <2>3. Begins(ks, i, j) <=> Begins(ls, i, j)
    BY <2>1, <2>2 DEF Begins
  <2>4. j = n \/ j + 1 \in 1 .. n
    OBVIOUS
  <2>5. Whole(ks, n, i, j) <=> Whole(ls, n, i, j)
    BY <2>3, <2>4 DEF Whole
  <2>6. \A m \in 1 .. j - i + 1 : i + m - 1 \in 1 .. n
    OBVIOUS
  <2>7. Taken(ks, i, j) = Taken(ls, i, j)
    BY <2>6 DEF Taken
  <2> QED
    BY <2>3, <2>5, <2>7, NumberIsTaken
<1>2. ASSUME Names(ks, n, v) PROVE Names(ls, n, v)
  <2>1. CASE \E i \in 1 .. n : \E j \in i .. n :
               /\ Whole(ks, n, i, j) /\ v = NumberAt(ks, i, j) /\ IsItem(v)
               /\ \A k \in 1 .. n : \A l \in k .. n :
                    k > j /\ Whole(ks, n, k, l) => ~IsItem(NumberAt(ks, k, l))
    <3>1. PICK i \in 1 .. n : \E j \in i .. n :
               /\ Whole(ks, n, i, j) /\ v = NumberAt(ks, i, j) /\ IsItem(v)
               /\ \A k \in 1 .. n : \A l \in k .. n :
                    k > j /\ Whole(ks, n, k, l) => ~IsItem(NumberAt(ks, k, l))
      BY <2>1
    <3>2. PICK j \in i .. n :
               /\ Whole(ks, n, i, j) /\ v = NumberAt(ks, i, j) /\ IsItem(v)
               /\ \A k \in 1 .. n : \A l \in k .. n :
                    k > j /\ Whole(ks, n, k, l) => ~IsItem(NumberAt(ks, k, l))
      BY <3>1
    <3>3. Whole(ls, n, i, j) /\ v = NumberAt(ls, i, j)
      BY <1>1, <3>2
    <3>4. \A k \in 1 .. n : \A l \in k .. n :
            k > j /\ Whole(ls, n, k, l) => ~IsItem(NumberAt(ls, k, l))
      BY <1>1, <3>2
    <3> QED
      BY <3>2, <3>3, <3>4 DEF Names
  <2>2. CASE /\ v = 1
             /\ \A k \in 1 .. n : \A l \in k .. n :
                  Whole(ks, n, k, l) => ~IsItem(NumberAt(ks, k, l))
    <3>1. \A k \in 1 .. n : \A l \in k .. n :
            Whole(ls, n, k, l) => ~IsItem(NumberAt(ls, k, l))
      BY <1>1, <2>2
    <3> QED
      BY <2>2, <3>1 DEF Names
  <2> QED
    BY <1>2, <2>1, <2>2 DEF Names
<1> QED
  BY <1>1, <1>2

\* A number more: it decides if it is an item, and else what was named before.
LEMMA NamesAdded ==
  ASSUME NEW ks, NEW m \in Nat, NEW s \in 1 .. m, NEW v,
         Begins(ks, s, m), Names(ks, s - 1, v)
  PROVE  Names(ks, m, IF IsItem(NumberAt(ks, s, m)) THEN NumberAt(ks, s, m) ELSE v)
<1>1. Whole(ks, m, s, m)
  BY DEF Whole
<1>2. ASSUME NEW i \in 1 .. m, NEW j \in i .. m, Whole(ks, m, i, j), j >= s
      PROVE  i = s /\ j = m
  <2>1. j = m
    <3> SUFFICES ASSUME j # m PROVE FALSE
      OBVIOUS
    <3>1. j + 1 \in s .. m /\ ~IsDigit(ks[j + 1])
      BY <1>2 DEF Whole
    <3> QED
      BY <3>1 DEF Begins
  <2>2. ~(i < s)
    <3> SUFFICES ASSUME i < s PROVE FALSE
      OBVIOUS
    <3>1. s # 1 /\ s - 1 \in i .. j
      BY <1>2
    <3>2. IsDigit(ks[s - 1])
      BY <1>2, <3>1 DEF Whole, Begins
    <3> QED
      BY <3>1, <3>2 DEF Begins
  <2>3. ~(i > s)
    <3> SUFFICES ASSUME i > s PROVE FALSE
      OBVIOUS
    <3>1. i # 1 /\ i - 1 \in s .. m
      OBVIOUS
    <3>2. IsDigit(ks[i - 1])
      BY <3>1 DEF Begins
    <3> QED
      BY <1>2, <3>1, <3>2 DEF Whole, Begins
  <2> QED
    BY <2>1, <2>2, <2>3
<1>3. ASSUME NEW i \in 1 .. s - 1, NEW j \in i .. s - 1
      PROVE  Whole(ks, m, i, j) <=> Whole(ks, s - 1, i, j)
  <2>1. ASSUME j = s - 1 PROVE ~Begins(ks, i, j)
    <3>1. s # 1 /\ ~IsDigit(ks[s - 1])
      BY <2>1 DEF Begins
    <3> QED
      BY <2>1, <3>1 DEF Begins
  <2> QED
    BY <2>1 DEF Whole
<1>4. CASE IsItem(NumberAt(ks, s, m))
  <2>1. \A k \in 1 .. m : ~(k > m)
    OBVIOUS
  <2>2. s \in 1 .. m /\ m \in s .. m
    OBVIOUS
  <2> QED
    BY <1>1, <1>4, <2>1, <2>2 DEF Names
<1>5. CASE ~IsItem(NumberAt(ks, s, m))
  <2>1. CASE \E i \in 1 .. s - 1 : \E j \in i .. s - 1 :
               /\ Whole(ks, s - 1, i, j) /\ v = NumberAt(ks, i, j) /\ IsItem(v)
               /\ \A k \in 1 .. s - 1 : \A l \in k .. s - 1 :
                    k > j /\ Whole(ks, s - 1, k, l) => ~IsItem(NumberAt(ks, k, l))
    <3>1. PICK i \in 1 .. s - 1 : \E j \in i .. s - 1 :
               /\ Whole(ks, s - 1, i, j) /\ v = NumberAt(ks, i, j) /\ IsItem(v)
               /\ \A k \in 1 .. s - 1 : \A l \in k .. s - 1 :
                    k > j /\ Whole(ks, s - 1, k, l) => ~IsItem(NumberAt(ks, k, l))
      BY <2>1
    <3>2. PICK j \in i .. s - 1 :
               /\ Whole(ks, s - 1, i, j) /\ v = NumberAt(ks, i, j) /\ IsItem(v)
               /\ \A k \in 1 .. s - 1 : \A l \in k .. s - 1 :
                    k > j /\ Whole(ks, s - 1, k, l) => ~IsItem(NumberAt(ks, k, l))
      BY <3>1
    <3>3. ASSUME NEW k \in 1 .. m, NEW l \in k .. m, k > j, Whole(ks, m, k, l)
          PROVE  ~IsItem(NumberAt(ks, k, l))
      <4>1. CASE l >= s
        BY <1>2, <1>5, <3>3, <4>1
      <4>2. CASE l < s
        <5>1. k \in 1 .. s - 1 /\ l \in k .. s - 1
          BY <4>2
        <5> QED
          BY <1>3, <3>2, <3>3, <5>1
      <4> QED
        BY <4>1, <4>2
    <3>4. i \in 1 .. m /\ j \in i .. m /\ Whole(ks, m, i, j)
      BY <1>3, <3>2
    <3> QED
      BY <1>5, <3>2, <3>3, <3>4 DEF Names
  <2>2. CASE /\ v = 1
             /\ \A k \in 1 .. s - 1 : \A l \in k .. s - 1 :
                  Whole(ks, s - 1, k, l) => ~IsItem(NumberAt(ks, k, l))
    <3>1. ASSUME NEW k \in 1 .. m, NEW l \in k .. m, Whole(ks, m, k, l)
          PROVE  ~IsItem(NumberAt(ks, k, l))
      <4>1. CASE l >= s
        BY <1>2, <1>5, <3>1, <4>1
      <4>2. CASE l < s
        <5>1. k \in 1 .. s - 1 /\ l \in k .. s - 1
          BY <4>2
        <5> QED
          BY <1>3, <2>2, <3>1, <5>1
      <4> QED
        BY <4>1, <4>2
    <3> QED
      BY <1>5, <2>2, <3>1 DEF Names
  <2> QED
    BY <1>5, <2>1, <2>2 DEF Names
<1> QED
  BY <1>4, <1>5

\* A key that is no digit names nothing.
LEMMA NamesNext ==
  ASSUME NEW ks, NEW n \in Nat, NEW v, Names(ks, n, v), ~IsDigit(ks[n + 1])
  PROVE  Names(ks, n + 1, v)
<1>1. ASSUME NEW i \in 1 .. n + 1, NEW j \in i .. n + 1, Whole(ks, n + 1, i, j)
      PROVE  i \in 1 .. n /\ j \in i .. n /\ Whole(ks, n, i, j)
  <2>1. j # n + 1
    BY <1>1 DEF Whole, Begins
  <2> QED
    BY <1>1, <2>1 DEF Whole
<1>2. ASSUME NEW i \in 1 .. n, NEW j \in i .. n, Whole(ks, n, i, j)
      PROVE  Whole(ks, n + 1, i, j)
  BY <1>2 DEF Whole
<1>3. CASE \E i \in 1 .. n : \E j \in i .. n :
             /\ Whole(ks, n, i, j) /\ v = NumberAt(ks, i, j) /\ IsItem(v)
             /\ \A k \in 1 .. n : \A l \in k .. n :
                  k > j /\ Whole(ks, n, k, l) => ~IsItem(NumberAt(ks, k, l))
  <2>1. PICK i \in 1 .. n : \E j \in i .. n :
             /\ Whole(ks, n, i, j) /\ v = NumberAt(ks, i, j) /\ IsItem(v)
             /\ \A k \in 1 .. n : \A l \in k .. n :
                  k > j /\ Whole(ks, n, k, l) => ~IsItem(NumberAt(ks, k, l))
    BY <1>3
  <2>2. PICK j \in i .. n :
             /\ Whole(ks, n, i, j) /\ v = NumberAt(ks, i, j) /\ IsItem(v)
             /\ \A k \in 1 .. n : \A l \in k .. n :
                  k > j /\ Whole(ks, n, k, l) => ~IsItem(NumberAt(ks, k, l))
    BY <2>1
  <2>3. i \in 1 .. n + 1 /\ j \in i .. n + 1 /\ Whole(ks, n + 1, i, j)
    BY <1>2, <2>2
  <2>4. \A k \in 1 .. n + 1 : \A l \in k .. n + 1 :
          k > j /\ Whole(ks, n + 1, k, l) => ~IsItem(NumberAt(ks, k, l))
    BY <1>1, <2>2
  <2> QED
    BY <2>2, <2>3, <2>4 DEF Names
<1>4. CASE /\ v = 1
           /\ \A k \in 1 .. n : \A l \in k .. n :
                Whole(ks, n, k, l) => ~IsItem(NumberAt(ks, k, l))
  <2>1. \A k \in 1 .. n + 1 : \A l \in k .. n + 1 :
          Whole(ks, n + 1, k, l) => ~IsItem(NumberAt(ks, k, l))
    BY <1>1, <1>4
  <2> QED
    BY <1>4, <2>1 DEF Names
<1> QED
  BY <1>3, <1>4 DEF Names

-----------------------------------------------------------------------------
(* The numbered menu: what its steps keep *)

\* What was taken is a sequence, and one digit more is one digit more.
LEMMA TakenGrows ==
  ASSUME NEW ks, NEW n \in Nat, NEW s \in 1 .. n + 1
  PROVE  /\ Len(Taken(ks, s, n)) = n - s + 1
         /\ Append(Taken(ks, s, n), ks[n + 1].digit) = Taken(ks, s, n + 1)
<1> DEFINE k == n - s + 1
           V == {ks[m].digit : m \in 1 .. n + 1}
           t == Taken(ks, s, n)
           d == ks[n + 1].digit
<1>1. k \in Nat /\ t = [m \in 1 .. k |-> ks[s + m - 1].digit]
  BY DEF Taken
<1>2. \A m \in 1 .. k : s + m - 1 \in 1 .. n + 1
  OBVIOUS
<1>3. t \in [1 .. k -> V]
  BY <1>1, <1>2
<1>4. t \in Seq(V) /\ Len(t) = k
  BY <1>1, <1>3, SeqDef, LenProperties
<1>5. d \in V
  OBVIOUS
<1>6. Taken(ks, s, n + 1) = [m \in 1 .. k + 1 |-> ks[s + m - 1].digit]
  BY DEF Taken
<1> HIDE DEF t, d, k, V
<1>7. Append(t, d) = [m \in 1 .. k + 1 |-> IF m <= k THEN t[m] ELSE d]
  BY <1>1, <1>4, <1>5
<1>8. \A m \in 1 .. k + 1 : (IF m <= k THEN t[m] ELSE d) = ks[s + m - 1].digit
  <2> SUFFICES ASSUME NEW m \in 1 .. k + 1
               PROVE  (IF m <= k THEN t[m] ELSE d) = ks[s + m - 1].digit
    OBVIOUS
  <2>1. CASE m <= k
    BY <1>1, <2>1
  <2>2. CASE m = k + 1
    BY <1>1, <2>2 DEF d, k
  <2> QED
    BY <1>1, <2>1, <2>2
<1>9. Append(t, d) = Taken(ks, s, n + 1)
  BY <1>6, <1>7, <1>8
<1> QED
  BY <1>4, <1>9 DEF t, d, k

\* Keys at the end of the history leave the numbers before them as they are.
LEMMA SpelledBefore ==
  ASSUME KeysTyped, NEW k \in AnyKey, keys' = Append(keys, k)
  PROVE  /\ Len(keys) \in Nat /\ Len(keys') = Len(keys) + 1 /\ keys'[Len(keys')] = k
         /\ \A i \in 1 .. Len(keys) : keys'[i] = keys[i]
         /\ Spelled(keys') => Spelled(keys) /\ k \in DigitKeys \union {Enter}
<1>1. /\ Len(keys) \in Nat /\ DOMAIN keys = 1 .. Len(keys)
      /\ Len(keys') = Len(keys) + 1 /\ DOMAIN keys' = 1 .. Len(keys')
      /\ \A i \in 1 .. Len(keys) : keys'[i] = keys[i]
      /\ keys'[Len(keys) + 1] = k
  BY AppendProperties, LenProperties DEF KeysTyped
<1>2. ASSUME Spelled(keys') PROVE k \in DigitKeys \union {Enter}
  BY <1>1, <1>2 DEF Spelled
<1>3. ASSUME Spelled(keys') PROVE Spelled(keys)
  <2>1. \A i \in DOMAIN keys : keys[i] \in DigitKeys \union {Enter}
    BY <1>1, <1>3 DEF Spelled
  <2>2. ASSUME NEW i \in DOMAIN keys, NEW j \in i .. Len(keys), Begins(keys, i, j)
        PROVE  ~(NumberAt(keys, i, j) > N) /\ (i = j \/ keys[i] = Digit(0))
    <3>1. i \in 1 .. Len(keys) /\ i \in DOMAIN keys' /\ j \in i .. Len(keys')
      BY <1>1
    <3>2. Begins(keys', i, j) /\ Taken(keys', i, j) = Taken(keys, i, j)
      BY <1>1, <2>2, <3>1, NamesAgree
    <3>3. ~(NumberAt(keys', i, j) > N) /\ (i = j \/ keys'[i] = Digit(0))
      BY <1>3, <3>1, <3>2 DEF Spelled
    <3> QED
      BY <1>1, <3>1, <3>2, <3>3, NumberIsTaken
  <2> QED
    BY <2>1, <2>2 DEF Spelled
<1> QED
  BY <1>1, <1>2, <1>3

\* A key reaches a read that waits.
LEMMA TypeStep == MenuInv /\ (TypeKey \/ TypeEnter) => MenuInv'
<1> SUFFICES ASSUME MenuInv, NEW k \in AnyKey, Type(k),
                    k = Enter \/ Len(keys) < MaxKeys
             PROVE  MenuInv'
  BY DEF TypeKey, TypeEnter, AnyKey
<1> DEFINE n == Len(keys)
<1>1. n \in Nat /\ MaxKeys \in Nat /\ LongestHistory \in Nat /\ MaxKeys < LongestHistory
  BY LenProperties, ItemsAssumption DEF MenuInv, KeysTyped, LongestHistory
<1>2. CASE n >= LongestHistory
  <2>1. k = Enter /\ keys' = keys
    BY <1>1, <1>2 DEF Type, Note
  <2>2. SUFFICES ASSUME Spelled(keys) PROVE MenuFollows'
    BY <2>1 DEF MenuInv, KeysTyped, MenuFollows
  <2>3. /\ phase = "key" /\ buffer = <<>> /\ phase' = phase /\ selected' = selected
        /\ digit_buf' = digit_buf /\ result' = result /\ result = Key("none")
    BY <2>2 DEF Type, Reading, MenuInv, MenuFollows
  <2>4. Fresh(n) \/ Pending(n)
    BY <2>2, <2>3 DEF MenuInv, MenuFollows, DigitWaits, EnterWaits, AllRead
  <2>5. (Fresh(n) => Fresh(n)') /\ (Pending(n) => Pending(n)')
    BY <2>1, <2>3 DEF Fresh, Settled, Pending
  <2>6. buffer' = <<Enter>>
    BY <2>1, PlainBytes, OneByte DEF Type
  <2>7. EnterWaits'
    BY <1>2, <2>1, <2>3, <2>4, <2>5, <2>6 DEF EnterWaits
  <2> QED
    BY <2>3, <2>7, KeyKinds DEF MenuFollows
<1>3. CASE n < LongestHistory
  <2>1. keys' = Append(keys, k)
    BY <1>1, <1>3 DEF Type, Note
  <2>2. /\ Len(keys') = n + 1 /\ keys'[n + 1] = k
        /\ \A i \in 1 .. n : keys'[i] = keys[i]
        /\ Spelled(keys') => Spelled(keys) /\ k \in DigitKeys \union {Enter}
    BY <2>1, SpelledBefore DEF MenuInv
  <2>3. KeysTyped'
    BY <2>1, AppendProperties DEF MenuInv, KeysTyped
  <2>4. SUFFICES ASSUME Spelled(keys') PROVE MenuFollows'
    BY <2>3 DEF MenuInv, MenuFollows
  <2>5. /\ phase = "key" /\ buffer = <<>> /\ phase' = phase /\ selected' = selected
        /\ digit_buf' = digit_buf /\ result' = result /\ result = Key("none")
    BY <2>2, <2>4 DEF Type, Reading, MenuInv, MenuFollows
  <2>6. Fresh(n) \/ Pending(n)
    BY <2>2, <2>4, <2>5 DEF MenuInv, MenuFollows, DigitWaits, EnterWaits, AllRead
  <2>7. buffer' = <<k>>
    BY <2>2, <2>4, PlainBytes, OneByte DEF Type
  <2>8. Settled(n) => digit_buf' = <<>> /\ Names(keys', n, selected')
    BY <1>1, <2>2, <2>5, NamesAgree DEF Settled
  <2>9. ASSUME Pending(n) PROVE Pending(n - 1)'
    <3>1. PICK s \in 1 .. n : /\ Begins(keys, s, n) /\ digit_buf = Taken(keys, s, n)
                              /\ Names(keys, s - 1, selected)
      BY <2>9 DEF Pending
    <3>2. n \in s .. n /\ s - 1 \in Nat /\ \A i \in 1 .. s - 1 : keys'[i] = keys[i]
      BY <1>1, <2>2
    <3>3. Begins(keys', s, n) /\ Taken(keys', s, n) = Taken(keys, s, n)
      BY <1>1, <2>2, <3>1, <3>2, NamesAgree
    <3>4. Names(keys', s - 1, selected')
      BY <2>5, <3>1, <3>2, NamesAgree
    <3>5. Len(keys') - 1 = n
      BY <1>1, <2>2
    <3>6. digit_buf' = Taken(keys', s, n)
      BY <2>5, <3>1, <3>3
    <3> QED
      BY <3>3, <3>4, <3>5, <3>6 DEF Pending
  <2>10. CASE k = Enter
    <3>1. ~IsDigit(keys'[n + 1]) /\ Len(keys') > 0
      BY <1>1, <2>2, <2>10, KeyKinds DEF IsDigit, Enter
    <3>2. ASSUME Settled(n) PROVE Fresh(n)'
      <4>1. Names(keys', n + 1, selected')
        BY <1>1, <2>8, <3>1, <3>2, NamesNext
      <4> QED
        BY <2>2, <2>8, <3>1, <3>2, <4>1 DEF Fresh, Settled
    <3>3. EnterWaits'
      BY <2>2, <2>5, <2>6, <2>7, <2>9, <2>10, <3>1, <3>2 DEF EnterWaits, Fresh
    <3> QED
      BY <2>5, <3>3, KeyKinds DEF MenuFollows
  <2>11. CASE k \in DigitKeys
    <3>1. PICK d \in Digits : k = Digit(d)
      BY <2>11 DEF DigitKeys
    <3>2. n < MaxKeys
      BY <2>11, KeyKinds DEF DigitKeys, Enter
    <3>3. ASSUME Fresh(n)
          PROVE  n = 0 \/ ~IsDigit(keys[n])
      <4> SUFFICES ASSUME Begins(keys, n, n), keys[n] # Digit(0), n # 0 PROVE FALSE
        BY <1>1, <3>2, <3>3 DEF Fresh
      <4>1. n \in 1 .. n /\ n \in n .. n
        BY <1>1
      <4>2. Begins(keys', n, n)
        BY <1>1, <2>2, <4>1, NamesAgree
      <4>3. IsDigit(keys'[n + 1])
        BY <2>2, <3>1, KeyKinds DEF IsDigit
      <4>4. \A m \in n .. n + 1 : m = n \/ m = n + 1
        BY <1>1
      <4>5. Begins(keys', n, n + 1)
        BY <1>1, <4>1, <4>2, <4>3, <4>4 DEF Begins
      <4>6. n \in DOMAIN keys' /\ n + 1 \in n .. Len(keys')
        BY <1>1, <2>2, <2>3, <4>1, LenProperties DEF KeysTyped
      <4>7. n = n + 1 \/ keys'[n] = Digit(0)
        BY <2>4, <4>5, <4>6 DEF Spelled
      <4> QED
        BY <1>1, <2>2, <4>1, <4>7
    <3>4. ASSUME Fresh(n)
          PROVE  Settled(n - 1)' /\ (Len(keys') = 1 \/ ~IsDigit(keys'[Len(keys') - 1]))
      <4>1. Len(keys') - 1 = n /\ (n = 0 \/ n \in 1 .. n)
        BY <1>1, <2>2
      <4>2. digit_buf' = <<>> /\ Names(keys', n, selected')
        BY <2>8, <3>4 DEF Fresh
      <4>3. Len(keys') = 1 \/ ~IsDigit(keys'[n])
        BY <1>1, <2>2, <3>3, <3>4, <4>1
      <4> QED
        BY <4>1, <4>2, <4>3 DEF Settled
    <3>5. Len(keys') > 0 /\ buffer' = <<Digit(d)>> /\ keys'[Len(keys')] = Digit(d)
      BY <1>1, <2>2, <2>7, <3>1
    <3>6. DigitWaits'
      BY <2>5, <2>6, <2>9, <3>4, <3>5 DEF DigitWaits
    <3> QED
      BY <2>5, <3>6, KeyKinds DEF MenuFollows
  <2> QED
    BY <2>2, <2>4, <2>10, <2>11
<1> QED
  BY <1>1, <1>2, <1>3

LEMMA SilentBytes ==
  \A q \in Silent : q # <<>> =>
    Tail(q) \in Silent /\ Head(q) \in {Key("["), Key("A"), Key("B")}
<1> DEFINE l == Key("[")
           a == Key("A")
           b == Key("B")
<1>1. /\ Head(<<a>>) = a /\ Head(<<b>>) = b
      /\ Tail(<<a>>) = <<>> /\ Tail(<<b>>) = <<>>
  BY OneByte, Zenon
<1>2. /\ Head(<<l, a>>) = l /\ Head(<<l, b>>) = l
      /\ Tail(<<l, a>>) = <<a>> /\ Tail(<<l, b>>) = <<b>>
  BY TwoBytes, Zenon
<1> QED
  BY <1>1, <1>2, Zenon DEF Silent

\* The byte at the head says what waits.
LEMMA WhatWaits ==
  ASSUME MenuInv, Spelled(keys), NEW b, TakeByte(b)
  PROVE  /\ buffer' = Tail(buffer) /\ keys' = keys /\ phase \in {"key", "done"}
         /\ \/ DigitWaits /\ buffer = <<b>> /\ \E d \in Digits : b = Digit(d)
            \/ EnterWaits /\ buffer = <<b>> /\ b = Enter
            \/ AllRead /\ buffer' \in Silent /\ b \in {Key("["), Key("A"), Key("B")}
<1>1. buffer # <<>> /\ b = Head(buffer) /\ buffer' = Tail(buffer) /\ keys' = keys
  BY DEF TakeByte
<1>2. phase \in {"key", "done"} /\ (DigitWaits \/ EnterWaits \/ AllRead)
  BY DEF MenuInv, MenuFollows
<1>3. CASE DigitWaits
  <2>1. PICK d \in Digits : buffer = <<Digit(d)>>
    BY <1>3 DEF DigitWaits
  <2>2. b = Digit(d)
    BY <1>1, <2>1, OneByte
  <2> QED
    BY <1>1, <1>2, <1>3, <2>1, <2>2
<1>4. CASE EnterWaits
  <2>1. b = Enter
    BY <1>1, <1>4, OneByte DEF EnterWaits
  <2> QED
    BY <1>1, <1>2, <1>4, <2>1 DEF EnterWaits
<1>5. CASE AllRead
  <2>1. buffer \in Silent
    BY <1>5 DEF AllRead
  <2> QED
    BY <1>1, <1>2, <1>5, <2>1, SilentBytes
<1> QED
  BY <1>2, <1>3, <1>4, <1>5

LEMMA ReadDigitStep ==
  ASSUME MenuInv, ReadDigit
  PROVE  MenuInv'
<1> DEFINE n == Len(keys) - 1
<1>1. PICK d \in Digits :
        /\ phase = "key" /\ TakeByte(Digit(d))
        /\ LET typed == Append(digit_buf, d)
           IN IF Number(typed) > N
              THEN digit_buf' = <<>> /\ selected' = selected
              ELSE IF Len(typed) = 1 /\ d # 0
                   THEN selected' = d /\ digit_buf' = <<>>
                   ELSE digit_buf' = typed /\ UNCHANGED selected
        /\ phase' = "key" /\ result' = result
  BY DEF ReadDigit, Discard, Jump, Again
<1>2. keys' = keys
  BY <1>1 DEF TakeByte
<1>3. SUFFICES ASSUME Spelled(keys) PROVE MenuFollows'
  BY <1>2 DEF MenuInv, KeysTyped, MenuFollows
<1>4. DigitWaits /\ buffer = <<Digit(d)>> /\ buffer' = Tail(buffer)
  BY <1>1, <1>3, WhatWaits, KeyKinds DEF Enter
<1>5. buffer' = <<>> /\ result = Key("none")
  BY <1>1, <1>3, <1>4, OneByte DEF MenuInv, MenuFollows
<1>6. n \in Nat /\ Len(keys) = n + 1 /\ DOMAIN keys = 1 .. n + 1
  BY <1>4, LenProperties DEF DigitWaits, MenuInv, KeysTyped
<1>7. keys[n + 1] = Digit(d)
  <2>1. PICK e \in Digits : buffer = <<Digit(e)>> /\ keys[Len(keys)] = Digit(e)
    BY <1>4 DEF DigitWaits
  <2>2. Digit(e) = Digit(d)
    BY <1>4, <2>1
  <2> QED
    BY <1>6, <2>1, <2>2
<1>8. IsDigit(keys[n + 1]) /\ keys[n + 1].digit = d /\ d \in Nat /\ N \in Nat \ {0}
  BY <1>7, KeyKinds, KeysAssumption, ItemsAssumption DEF IsDigit
<1>9. SUFFICES Fresh(n + 1)' \/ Pending(n + 1)'
  BY <1>1, <1>2, <1>5, <1>6, KeyKinds DEF MenuFollows, AllRead, Silent
<1>10. CASE Pending(n)
  <2>1. PICK s \in 1 .. n : /\ Begins(keys, s, n) /\ digit_buf = Taken(keys, s, n)
                            /\ Names(keys, s - 1, selected)
    BY <1>10 DEF Pending
  <2>2. s \in 1 .. n + 1 /\ s \in DOMAIN keys /\ n + 1 \in s .. Len(keys)
    <3>1. s \in Nat /\ 1 <= s /\ s <= n + 1
      BY <1>6
    <3> QED
      BY <1>6, <3>1
  <2>3. \A m \in s .. n + 1 : m \in s .. n \/ m = n + 1
    <3>1. n \in Nat /\ s \in Nat
      BY <1>6
    <3> QED
      BY <3>1
  <2>4. Begins(keys, s, n + 1)
    BY <1>8, <2>1, <2>3 DEF Begins
  <2>5. Append(digit_buf, d) = Taken(keys, s, n + 1)
    BY <1>6, <1>8, <2>1, <2>2, TakenGrows
  <2>6. ~(Number(Append(digit_buf, d)) > N)
    <3>1. ~(NumberAt(keys, s, n + 1) > N)
      BY <1>3, <2>2, <2>4 DEF Spelled
    <3> QED
      BY <2>5, <3>1, NumberIsTaken
  <2>7. Len(Append(digit_buf, d)) # 1
    <3>1. n + 1 \in Nat /\ s \in 1 .. (n + 1) + 1
      BY <1>6, <2>2
    <3>2. Len(Taken(keys, s, n + 1)) = (n + 1) - s + 1
      BY <3>1, TakenGrows
    <3> QED
      BY <1>6, <2>1, <2>5, <3>1, <3>2
  <2>8. digit_buf' = Taken(keys, s, n + 1) /\ selected' = selected
    BY <1>1, <2>5, <2>6, <2>7
  <2> QED
    BY <1>2, <2>1, <2>2, <2>4, <2>8 DEF Pending
<1>11. CASE Settled(n) /\ (n = 0 \/ ~IsDigit(keys[n]))
  <2>1. Begins(keys, n + 1, n + 1)
    BY <1>6, <1>8, <1>11 DEF Begins
  <2>2. Append(digit_buf, d) = <<d>> /\ Len(<<d>>) = 1 /\ Number(<<d>>) = d
    BY <1>8, <1>11, NumberOfDigit DEF Settled
  <2>3. Taken(keys, n + 1, n + 1) = <<d>>
    <3>1. Taken(keys, n + 1, n + 1) = [m \in 1 .. 1 |-> d]
      BY <1>6, <1>8 DEF Taken
    <3> QED
      BY <3>1
  <2>4. NumberAt(keys, n + 1, n + 1) = d
    BY <2>2, <2>3, NumberIsTaken
  <2>5. n + 1 \in DOMAIN keys /\ n + 1 \in n + 1 .. Len(keys) /\ n + 1 \in 1 .. n + 1
    BY <1>6
  <2>6. d <= N
    <3>1. ~(NumberAt(keys, n + 1, n + 1) > N)
      BY <1>3, <2>1, <2>5 DEF Spelled
    <3> QED
      BY <1>8, <2>4, <3>1
  <2>7. CASE d # 0
    <3>1. selected' = d /\ digit_buf' = <<>>
      BY <1>1, <1>8, <2>2, <2>6, <2>7
    <3>2. IsItem(d)
      BY <1>8, <2>6, <2>7 DEF IsItem, Items
    <3>3. Names(keys, (n + 1) - 1, selected)
      BY <1>6, <1>11 DEF Settled
    <3>4. n + 1 \in Nat
      BY <1>6
    <3>5. Names(keys, n + 1, d)
      BY <2>1, <2>4, <2>5, <3>2, <3>3, <3>4, NamesAdded
    <3>6. keys[n + 1] # Digit(0)
      BY <1>7, <2>7, KeyKinds
    <3> QED
      BY <1>2, <2>1, <3>1, <3>5, <3>6 DEF Fresh, Settled
  <2>8. CASE d = 0
    <3>1. digit_buf' = Taken(keys, n + 1, n + 1) /\ selected' = selected
      BY <1>1, <1>8, <2>2, <2>3, <2>6, <2>8
    <3>2. Names(keys, (n + 1) - 1, selected)
      BY <1>6, <1>11 DEF Settled
    <3> QED
      BY <1>2, <2>1, <2>5, <3>1, <3>2 DEF Pending
  <2> QED
    BY <2>7, <2>8
<1> QED
  BY <1>4, <1>6, <1>10, <1>11 DEF DigitWaits

\* Enter with digits in the buffer settles their number.
LEMMA CommitSettles ==
  ASSUME MenuInv, ReadEnter, NEW n \in Nat, Pending(n)
  PROVE  phase' = "key" /\ digit_buf' = <<>> /\ result' = result /\ Names(keys, n, selected')
<1>1. PICK s \in 1 .. n : /\ Begins(keys, s, n) /\ digit_buf = Taken(keys, s, n)
                          /\ Names(keys, s - 1, selected)
  BY DEF Pending
<1>2. digit_buf # <<>>
  <2>1. s \in 1 .. n + 1
    OBVIOUS
  <2>2. Len(digit_buf) = n - s + 1
    BY <1>1, <2>1, TakenGrows
  <2>3. Len(digit_buf) # 0
    BY <2>2
  <2> QED
    BY <2>3
<1>3. /\ selected' = IF IsItem(Number(digit_buf)) THEN Number(digit_buf) ELSE selected
      /\ digit_buf' = <<>> /\ phase' = "key" /\ result' = result
  BY <1>2 DEF ReadEnter, Commit, Discard, Again
<1>4. Number(digit_buf) = NumberAt(keys, s, n)
  BY <1>1, NumberIsTaken
<1>5. Names(keys, n, selected')
  BY <1>1, <1>3, <1>4, NamesAdded
<1> QED
  BY <1>3, <1>5

LEMMA ReadEnterStep ==
  ASSUME MenuInv, ReadEnter
  PROVE  MenuInv'
<1> DEFINE n == Len(keys)
<1>1. phase = "key" /\ TakeByte(Enter) /\ keys' = keys
  BY DEF ReadEnter, TakeByte
<1>2. SUFFICES ASSUME Spelled(keys) PROVE MenuFollows'
  BY <1>1 DEF MenuInv, KeysTyped, MenuFollows
<1>3. EnterWaits /\ buffer = <<Enter>> /\ buffer' = Tail(buffer)
  BY <1>1, <1>2, WhatWaits, KeyKinds DEF Enter
<1>4. buffer' = <<>> /\ result = Key("none") /\ n \in Nat
  BY <1>1, <1>2, <1>3, OneByte, LenProperties DEF MenuInv, MenuFollows, KeysTyped
<1>5. CASE Fresh(n)
  <2>1. /\ phase' = "done" /\ result' = Item(selected) /\ selected' = selected
        /\ digit_buf' = <<>>
    BY <1>5 DEF ReadEnter, EndWith, Fresh, Settled
  <2>2. AllRead' /\ Names(keys, n, selected)
    BY <1>4, <1>5, <2>1 DEF AllRead, Silent, Fresh, Settled
  <2> QED
    BY <1>1, <2>1, <2>2 DEF MenuFollows
<1>6. ASSUME /\ phase' = "key" /\ digit_buf' = <<>> /\ result' = result
             /\ Names(keys, n, selected')
             /\ n >= LongestHistory \/ n = 0 \/ ~IsDigit(keys[n])
      PROVE  MenuFollows'
  <2>1. Fresh(n)'
    BY <1>1, <1>6 DEF Fresh, Settled
  <2>2. AllRead'
    BY <1>4, <2>1 DEF AllRead, Silent
  <2> QED
    BY <1>4, <1>6, <2>2, KeyKinds DEF MenuFollows
<1>7. CASE Pending(n) /\ n >= LongestHistory
  BY <1>4, <1>6, <1>7, CommitSettles
<1>8. CASE n > 0 /\ Pending(n - 1) /\ ~IsDigit(keys[n])
  <2>1. n - 1 \in Nat /\ (n - 1) + 1 = n
    BY <1>4, <1>8
  <2>2. /\ phase' = "key" /\ digit_buf' = <<>> /\ result' = result
        /\ Names(keys, n - 1, selected')
    BY <1>8, <2>1, CommitSettles
  <2>3. Names(keys, n, selected')
    BY <1>8, <2>1, <2>2, NamesNext
  <2> QED
    BY <1>6, <1>8, <2>2, <2>3
<1> QED
  BY <1>3, <1>5, <1>7, <1>8 DEF EnterWaits

LEMMA ReadOtherStep ==
  ASSUME MenuInv, ReadOther
  PROVE  MenuInv'
<1>1. /\ phase = "key" /\ phase' = phase /\ selected' = selected
      /\ digit_buf' = digit_buf /\ result' = result
  BY DEF ReadOther
<1>2. PICK b \in {Key("["), Key("A"), Key("B")} : TakeByte(b)
  BY DEF ReadOther
<1>3. keys' = keys
  BY <1>2 DEF TakeByte
<1>4. SUFFICES ASSUME Spelled(keys) PROVE MenuFollows'
  BY <1>3 DEF MenuInv, KeysTyped, MenuFollows
<1>5. AllRead /\ buffer' \in Silent /\ result = Key("none")
  BY <1>1, <1>2, <1>4, WhatWaits, KeyKinds DEF Enter, MenuInv, MenuFollows
<1>6. AllRead'
  BY <1>1, <1>3, <1>5 DEF AllRead, Fresh, Settled, Pending
<1> QED
  BY <1>1, <1>5, <1>6, KeyKinds DEF MenuFollows

\* With digits and Enter only, neither Q nor Esc is read and nothing follows an Esc.
LEMMA NotSpelled ==
  ASSUME MenuInv,
         ReadQ \/ ReadEsc \/ PeekEmpty \/ PeekReady \/ ReadNext \/ ReadLetter
  PROVE  MenuInv'
<1>1. ~Spelled(keys)
  <2> SUFFICES ASSUME Spelled(keys) PROVE FALSE
    OBVIOUS
  <2>1. phase \in {"key", "done"}
    BY DEF MenuInv, MenuFollows
  <2>2. \E b \in {Key("Q"), Key("Esc")} : TakeByte(b)
    BY <2>1 DEF ReadQ, ReadEsc, PeekEmpty, PeekReady, ReadNext, ReadLetter
  <2>3. PICK b \in {Key("Q"), Key("Esc")} : TakeByte(b)
    BY <2>2
  <2>4. b \in {Enter, Key("["), Key("A"), Key("B")} \/ \E d : b = Digit(d)
    BY <2>3, WhatWaits
  <2> QED
    BY <2>4, KeyKinds DEF Enter
<1>2. keys' = keys \/ keys' = Append(keys, Enter)
  BY DEF ReadQ, ReadEsc, PeekEmpty, PeekReady, ReadNext, ReadLetter, TakeByte, Note
<1>3. ~Spelled(keys')
  BY <1>1, <1>2, SpelledBefore DEF MenuInv, AnyKey
<1>4. KeysTyped'
  BY <1>2, AppendProperties DEF MenuInv, KeysTyped, AnyKey
<1> QED
  BY <1>3, <1>4 DEF MenuInv, MenuFollows

\* However many numbers and Enters are typed, and whatever an arrow of the menu before
\* has left behind, the item that the menu returns is the last one that was typed
\* (numbered_select(), utils/navigation.py:152).
THEOREM DigitsDecide == SelectSpec => []NumbersDecide
<1>1. SelectInit => MenuInv
  <2> SUFFICES ASSUME SelectInit PROVE MenuInv
    OBVIOUS
  <2>1. Len(keys) = 0 /\ keys \in Seq(AnyKey)
    BY DEF SelectInit
  <2>2. Fresh(Len(keys))
    BY <2>1 DEF SelectInit, Names, Fresh, Settled
  <2>3. \A r \in {<<>>} \union Rests : r \in Silent
    <3>1. Bytes(Key("Up")) = <<Key("Esc"), Key("["), Key("A")>>
      BY DEF Bytes
    <3>2. Bytes(Key("Down")) = <<Key("Esc"), Key("["), Key("B")>>
      BY KeyKinds DEF Bytes
    <3>3. Tail(Bytes(Key("Up"))) = <<Key("["), Key("A")>>
      BY <3>1, ThreeBytes, Zenon
    <3>4. Tail(Bytes(Key("Down"))) = <<Key("["), Key("B")>>
      BY <3>2, ThreeBytes, Zenon
    <3> QED
      BY <3>3, <3>4 DEF Rests, Silent
  <2>4. AllRead
    BY <2>2, <2>3 DEF AllRead, SelectInit
  <2> QED
    BY <2>1, <2>4, KeyKinds DEF MenuInv, KeysTyped, MenuFollows, SelectInit
<1>2. MenuInv /\ [SelectNext]_selectVars => MenuInv'
  <2> SUFFICES ASSUME MenuInv, [SelectNext]_selectVars PROVE MenuInv'
    OBVIOUS
  <2>1. CASE UNCHANGED selectVars
    <3>1. /\ (Fresh(Len(keys)) => Fresh(Len(keys))')
          /\ (Pending(Len(keys)) => Pending(Len(keys))')
      BY <2>1 DEF Fresh, Settled, Pending, selectVars
    <3>2. AllRead => AllRead'
      BY <2>1, <3>1 DEF AllRead, selectVars
    <3>3. DigitWaits => DigitWaits'
      BY <2>1 DEF DigitWaits, Settled, Pending, selectVars
    <3>4. EnterWaits => EnterWaits'
      BY <2>1 DEF EnterWaits, Fresh, Settled, Pending, selectVars
    <3> QED
      BY <2>1, <3>2, <3>3, <3>4 DEF MenuInv, KeysTyped, MenuFollows, selectVars
  <2> QED
    BY <2>1, TypeStep, ReadDigitStep, ReadEnterStep, ReadOtherStep, NotSpelled
       DEF SelectNext, Read, Done
<1>3. MenuInv => NumbersDecide
  <2> SUFFICES ASSUME MenuInv, result.kind = "item", Spelled(keys)
               PROVE  Names(keys, Len(keys), result.digit)
    BY DEF NumbersDecide
  <2>1. result = Item(selected) /\ Names(keys, Len(keys), selected)
    BY DEF MenuInv, MenuFollows
  <2>2. result.digit = selected
    BY <2>1 DEF Item
  <2> QED
    BY <2>1, <2>2
<1> QED
  BY <1>1, <1>2, <1>3, PTL DEF SelectSpec

-----------------------------------------------------------------------------
(* Types of the menu *)

AnyByte == AnyKey \union {Key(k) : k \in {"Esc", "[", "A", "B"}}

MenuTypes ==
  /\ selected \in Items
  /\ digit_buf \in Seq(Digits)
  /\ buffer \in Seq(AnyByte) /\ Len(buffer) <= 3
  /\ \/ phase \in {"key", "peek", "next", "letter"} /\ result = Key("none")
     \/ phase = "done" /\ result \in Results \ {Key("none")}

\* What the keyboard sends, and what is left of an arrow, are bytes.
LEMMA BytesAreBytes ==
  /\ \A k \in AnyKey : Bytes(k) \in Seq(AnyByte) /\ Len(Bytes(k)) \in 1 .. 3
  /\ \A r \in Rests : r \in Seq(AnyByte) /\ Len(r) = 2
<1> DEFINE e == Key("Esc")
           l == Key("[")
           a == Key("A")
           b == Key("B")
<1>1. e \in AnyByte /\ l \in AnyByte /\ a \in AnyByte /\ b \in AnyByte
  BY DEF AnyByte
<1>2. \A k \in AnyKey : Bytes(k) \in {<<e, l, a>>, <<e, l, b>>, <<k>>} /\ k \in AnyByte
  BY DEF Bytes, AnyByte
<1>3. Bytes(Key("Up")) = <<e, l, a>> /\ Bytes(Key("Down")) = <<e, l, b>>
  BY KeyKinds DEF Bytes
<1>4. Tail(Bytes(Key("Up"))) = <<l, a>> /\ Tail(Bytes(Key("Down"))) = <<l, b>>
  BY <1>3, ThreeBytes, Zenon
<1>5. \A r \in Rests : r = <<l, a>> \/ r = <<l, b>>
  BY <1>4 DEF Rests
<1> HIDE DEF e, l, a, b
<1>6. /\ <<e, l, a>> \in Seq(AnyByte) /\ Len(<<e, l, a>>) = 3
      /\ <<e, l, b>> \in Seq(AnyByte) /\ Len(<<e, l, b>>) = 3
  BY <1>1
<1>7. /\ <<l, a>> \in Seq(AnyByte) /\ Len(<<l, a>>) = 2
      /\ <<l, b>> \in Seq(AnyByte) /\ Len(<<l, b>>) = 2
  BY <1>1
<1>8. \A k \in AnyByte : <<k>> \in Seq(AnyByte) /\ Len(<<k>>) = 1
  OBVIOUS
<1>9. \A k \in AnyKey : Bytes(k) \in Seq(AnyByte) /\ Len(Bytes(k)) \in {1, 3}
  BY <1>2, <1>6, <1>8
<1>10. \A r \in Rests : r \in Seq(AnyByte) /\ Len(r) = 2
  BY <1>5, <1>7
<1> QED
  BY <1>9, <1>10

\* The highlight moves round and never leaves the items.
LEMMA StepInItems ==
  ASSUME selected \in Items, Step(-1) \/ Step(1)
  PROVE  selected' \in Items
<1>1. N \in Nat \ {0} /\ selected \in Int
  BY ItemsAssumption DEF Items
<1>2. PICK m \in Int : selected' = (m % N) + 1
  <2>1. selected - 1 + 1 \in Int /\ selected - 1 + (-1) \in Int
    BY <1>1
  <2> QED
    BY <2>1 DEF Step
<1>3. m % N \in 0 .. N - 1
  BY <1>1
<1> QED
  BY <1>1, <1>2, <1>3 DEF Items

LEMMA TypeKeepsTypes ==
  ASSUME MenuTypes, TypeKey \/ TypeEnter
  PROVE  MenuTypes'
<1>1. PICK k \in AnyKey : Type(k)
  BY DEF TypeKey, TypeEnter, AnyKey
<1>2. PICK n \in {1, Len(Bytes(k))} : buffer' = SubSeq(Bytes(k), 1, n)
  BY <1>1 DEF Type
<1>3. Bytes(k) \in Seq(AnyByte) /\ Len(Bytes(k)) \in 1 .. 3
  BY BytesAreBytes
<1>4. n \in 1 .. 3 /\ n <= Len(Bytes(k))
  BY <1>2, <1>3
<1>5. buffer' \in Seq(AnyByte) /\ Len(buffer') = n
  BY <1>2, <1>3, <1>4, SubSeqProperties
<1> QED
  BY <1>1, <1>4, <1>5 DEF Type, MenuTypes

LEMMA TakeByteTypes ==
  ASSUME MenuTypes, NEW x, TakeByte(x)
  PROVE  buffer' \in Seq(AnyByte) /\ Len(buffer') <= 3
<1>1. buffer \in Seq(AnyByte) /\ buffer # <<>> /\ Len(buffer) <= 3 /\ buffer' = Tail(buffer)
  BY DEF MenuTypes, TakeByte
<1>2. Tail(buffer) \in Seq(AnyByte) /\ Len(Tail(buffer)) = Len(buffer) - 1
  BY <1>1, HeadTailProperties
<1> QED
  BY <1>1, <1>2, LenProperties

\* A highlight that a digit moves is on an item, for a lone digit is its own number.
LEMMA ReadDigitTypes ==
  ASSUME MenuTypes, ReadDigit
  PROVE  MenuTypes'
<1>1. PICK d \in Digits :
        /\ phase = "key" /\ TakeByte(Digit(d))
        /\ LET typed == Append(digit_buf, d)
           IN IF Number(typed) > N
              THEN digit_buf' = <<>> /\ selected' = selected
              ELSE IF Len(typed) = 1 /\ d # 0
                   THEN selected' = d /\ digit_buf' = <<>>
                   ELSE digit_buf' = typed /\ selected' = selected
        /\ phase' = "key" /\ result' = result
  BY DEF ReadDigit, Discard, Jump, Again
<1>2. buffer' \in Seq(AnyByte) /\ Len(buffer') <= 3
  BY <1>1, TakeByteTypes
<1>3. digit_buf \in Seq(Digits) /\ d \in Nat /\ N \in Nat
  BY KeysAssumption, ItemsAssumption DEF MenuTypes
<1>4. Append(digit_buf, d) \in Seq(Digits) /\ Len(Append(digit_buf, d)) = Len(digit_buf) + 1
  BY <1>3, AppendProperties
<1>5. digit_buf' \in Seq(Digits)
  <2>1. digit_buf' = <<>> \/ digit_buf' = Append(digit_buf, d)
    BY <1>1
  <2>2. <<>> \in Seq(Digits)
    OBVIOUS
  <2> QED
    BY <1>4, <2>1, <2>2, Zenon
<1>6. Len(Append(digit_buf, d)) = 1 => Append(digit_buf, d) = <<d>>
  <2> SUFFICES ASSUME Len(digit_buf) = 0 PROVE Append(digit_buf, d) = <<d>>
    BY <1>3, <1>4, LenProperties
  <2>1. digit_buf = <<>>
    BY <1>3, EmptySeq
  <2> QED
    BY <2>1
<1>7. selected' \in Items
  <2>1. CASE selected' = selected
    BY <2>1 DEF MenuTypes
  <2>2. CASE selected' # selected
    <3>1. Len(Append(digit_buf, d)) = 1 /\ d # 0 /\ ~(Number(Append(digit_buf, d)) > N)
          /\ selected' = d
      BY <1>1, <2>2
    <3>2. Number(Append(digit_buf, d)) = d
      BY <1>3, <1>6, <3>1, NumberOfDigit
    <3> QED
      BY <1>3, <3>1, <3>2 DEF Items
  <2> QED
    BY <2>1, <2>2
<1> QED
  BY <1>1, <1>2, <1>5, <1>7 DEF MenuTypes

LEMMA ReadTypes ==
  ASSUME MenuTypes, ReadEnter \/ ReadQ \/ ReadOther \/ ReadEsc \/ ReadNext \/ ReadLetter
  PROVE  MenuTypes'
<1>1. buffer' \in Seq(AnyByte) /\ Len(buffer') <= 3
  BY TakeByteTypes DEF ReadEnter, ReadQ, ReadOther, ReadEsc, ReadNext, ReadLetter
<1>2. <<>> \in Seq(Digits)
  OBVIOUS
<1>3. \A i \in Items : Item(i) \in Results \ {Key("none")}
  BY KeyKinds DEF Results
<1>4. {Key("Esc"), Key("Q")} \subseteq Results \ {Key("none")}
  BY KeyKinds DEF Results
<1>5. CASE ReadEnter
  BY <1>1, <1>2, <1>3, <1>5
     DEF ReadEnter, IsItem, Commit, Discard, Again, EndWith, MenuTypes
<1>6. CASE ReadQ \/ ReadNext
  BY <1>1, <1>2, <1>4, <1>6 DEF ReadQ, ReadNext, Discard, EndWith, MenuTypes
<1>7. CASE ReadOther \/ ReadEsc
  BY <1>1, <1>7 DEF ReadOther, ReadEsc, MenuTypes
<1>8. CASE ReadLetter
  <2>1. selected' \in Items
    BY <1>8, StepInItems DEF ReadLetter, MenuTypes
  <2> QED
    BY <1>1, <1>2, <1>8, <2>1 DEF ReadLetter, Discard, Again, MenuTypes
<1> QED
  BY <1>5, <1>6, <1>7, <1>8

\* The types of the menu: the highlight is on an item however it was moved, there is
\* a result exactly when the function has ended, and stdin never holds more than the
\* three bytes of an arrow.
THEOREM MenuTypeCorrect == SelectSpec => []SelectTypeOK
<1>1. SelectInit => MenuTypes
  <2> SUFFICES ASSUME SelectInit PROVE MenuTypes
    OBVIOUS
  <2>1. buffer \in Seq(AnyByte) /\ Len(buffer) <= 3
    <3>1. CASE buffer = <<>>
      BY <3>1
    <3>2. CASE buffer \in Rests
      <4>1. buffer \in Seq(AnyByte) /\ Len(buffer) = 2
        BY <3>2, BytesAreBytes, Zenon
      <4> QED
        BY <4>1
    <3> QED
      BY <3>1, <3>2 DEF SelectInit
  <2>2. selected \in Items
    BY ItemsAssumption DEF SelectInit, Items
  <2> QED
    BY <2>1, <2>2 DEF SelectInit, MenuTypes
<1>2. MenuTypes /\ [SelectNext]_selectVars => MenuTypes'
  <2> SUFFICES ASSUME MenuTypes, [SelectNext]_selectVars PROVE MenuTypes'
    OBVIOUS
  <2>1. CASE PeekEmpty
    <3>1. Key("Esc") \in Results \ {Key("none")}
      BY KeyKinds DEF Results
    <3> QED
      BY <2>1, <3>1 DEF PeekEmpty, Discard, EndWith, MenuTypes
  <2>2. CASE PeekReady
    BY <2>2 DEF PeekReady, MenuTypes
  <2>3. CASE UNCHANGED selectVars
    BY <2>3 DEF selectVars, MenuTypes
  <2> QED
    BY <2>1, <2>2, <2>3, TypeKeepsTypes, ReadDigitTypes, ReadTypes
       DEF SelectNext, Read, Done
<1>3. MenuTypes => SelectTypeOK
  <2> SUFFICES ASSUME MenuTypes PROVE SelectTypeOK
    OBVIOUS
  <2>1. \A i \in DOMAIN digit_buf : digit_buf[i] \in Digits
    BY DEF MenuTypes
  <2>2. Key("none") \in Results
    BY DEF Results
  <2> QED
    BY <2>1, <2>2 DEF MenuTypes, SelectTypeOK
<1> QED
  BY <1>1, <1>2, <1>3, PTL DEF SelectSpec
=============================================================================
