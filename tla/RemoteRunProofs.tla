-------------------------- MODULE RemoteRunProofs --------------------------
(***************************************************************************)
(* Proofs about RemoteRun, for any cap, window and output and under all    *)
(* conditions: a caller who listens is told of every part that is missing  *)
(* from its result.                                                        *)
(*                                                                         *)
(* The argument: as long as nothing was said both readers have stopped,    *)
(* below the cap, so each has met the end of its stream or the loss of the *)
(* connection; and an exit status that came says that all the output of    *)
(* the command itself came before it.                                      *)
(***************************************************************************)
EXTENDS RemoteRun, TLAPS

\* What has arrived of a stream is in its buffer or unread, until a chunk is dropped
\* at the cap.
Accounted == \A s \in Streams : ~capped[s] => written[s] = kept[s] + buffered[s]

\* A reader that stops below the cap has read all that will ever arrive.
StopsAtEnd ==
  \A s \in Streams :
    reader[s] = "stopped" /\ ~capped[s] => buffered[s] = 0 /\ (eof \/ channel # "open")

\* The output comes before the end of the streams, that of the command itself before
\* its exit status.
EndOfOutput ==
  /\ eof => written = plan.demand
  /\ remote = "exited" /\ ~plan.child => written = plan.demand

\* Who closes the channel says so; who does not had waited for both readers.
CloseIsSaid ==
  listens =>
    /\ channel = "closed" => "closed" \in told
    /\ pc \in {"rejoin", "rejoinErr"} => "closed" \in told
    /\ pc \in {"report", "collect", "collectErr", "done"} /\ told = {}
         => \A s \in Streams : ~Alive(s)

\* Nothing said, nothing capped, and the exit status came.
ReportIsTrue ==
  pc \in {"collect", "collectErr", "done"} /\ listens /\ told = {}
    => remote = "exited" /\ \A s \in Streams : ~capped[s]

ResultIsKept ==
  listens /\ told = {} =>
    /\ pc \in {"collectErr", "done"} => result["stdout"] = kept["stdout"]
    /\ pc = "done" => result["stderr"] = kept["stderr"]

IInv ==
  /\ TypeOK /\ Accounted /\ StopsAtEnd /\ EndOfOutput
  /\ CloseIsSaid /\ ReportIsTrue /\ ResultIsKept

LEMMA InitOK == Init => IInv
<1> SUFFICES ASSUME Init PROVE IInv
  OBVIOUS
<1> USE SizesAssumption DEF Init
<1>1. TypeOK
  <2>1. 0 \in 0 .. MaxOutput /\ 0 \in 0 .. Window /\ 0 \in 0 .. Cap
    OBVIOUS
  <2>2. plan \in Plans /\ pc \in Points
    BY DEF Points
  <2> QED
    BY <2>1, <2>2 DEF TypeOK
<1>2. Accounted /\ StopsAtEnd /\ EndOfOutput
  BY DEF Accounted, StopsAtEnd, EndOfOutput
<1>3. CloseIsSaid /\ ReportIsTrue /\ ResultIsKept
  BY DEF CloseIsSaid, ReportIsTrue, ResultIsKept
<1> QED
  BY <1>1, <1>2, <1>3 DEF IInv

-----------------------------------------------------------------------------
(* The command, the connection, the readers and run() keep the invariant *)

LEMMA CommandStep ==
  ASSUME IInv, (\E s \in Streams : WriteChunk(s)) \/ RemoteExits \/ StreamsClose
               \/ RemoteHangs \/ ConnectionLost
  PROVE  IInv'
<1> USE SizesAssumption
    DEF IInv, TypeOK, Accounted, StopsAtEnd, EndOfOutput, CloseIsSaid, ReportIsTrue,
        ResultIsKept, Alive, readers, caller
<1>1. CASE \E s \in Streams : WriteChunk(s)
  <2> PICK s \in Streams : WriteChunk(s)
    BY <1>1
  <2>1. written[s] < plan.demand[s] /\ ~eof /\ (remote = "exited" => plan.child)
        /\ channel = "open"
    BY DEF WriteChunk
  <2>2. plan.demand[s] \in 0 .. MaxOutput /\ plan \in Plans
    BY DEF Plans
  <2>3. buffered[s] + 1 \in 0 .. Window
    BY DEF WriteChunk, InFlight, Streams
  <2>4. written[s] + 1 \in 0 .. MaxOutput
    BY <2>1, <2>2
  <2>5. TypeOK'
    BY <2>3, <2>4 DEF WriteChunk
  <2>6. (Accounted /\ StopsAtEnd /\ EndOfOutput)'
    BY <2>1 DEF WriteChunk
  <2>7. (CloseIsSaid /\ ReportIsTrue /\ ResultIsKept)'
    BY DEF WriteChunk
  <2> QED
    BY <2>5, <2>6, <2>7
<1>2. CASE RemoteExits
  BY <1>2 DEF RemoteExits
<1>3. CASE StreamsClose
  BY <1>3 DEF StreamsClose
<1>4. CASE RemoteHangs
  BY <1>4 DEF RemoteHangs
<1>5. CASE ConnectionLost
  BY <1>5 DEF ConnectionLost, theCommand
<1> QED
  BY <1>1, <1>2, <1>3, <1>4, <1>5

LEMMA ReaderStep ==
  ASSUME IInv, NEW s \in Streams, Reader(s) \/ ReadTimesOut(s)
  PROVE  IInv'
<1> USE SizesAssumption
    DEF IInv, TypeOK, Accounted, StopsAtEnd, EndOfOutput, CloseIsSaid, ReportIsTrue,
        ResultIsKept, Alive, theCommand, caller, Streams
<1>1. CASE ReadChunk(s)
  BY <1>1 DEF ReadChunk, TooMuch
<1>2. CASE ReadTooMuch(s)
  BY <1>2 DEF ReadTooMuch, NoteCap, Stop
<1>3. CASE ReadEnd(s)
  BY <1>3 DEF ReadEnd, Stop
<1>4. CASE ReadTimesOut(s)
  BY <1>4 DEF ReadTimesOut
<1> QED
  BY <1>1, <1>2, <1>3, <1>4 DEF Reader

\* The steps of run() leave the command and the readers alone.
LEMMA RunStep == ASSUME IInv, Run PROVE IInv'
<1> USE DEF IInv, theCommand, readers, Step, Tell, Close
<1>1. UNCHANGED <<theCommand, buffered, readers, listens>>
  BY DEF Run, ExitStatus, JoinOut, JoinErr, BothStopped, CloseChannel, RejoinOut,
     RejoinErr, Report, Collect
<1>2. channel' = channel \/ (channel = "open" /\ channel' = "closed")
  BY DEF Run, ExitStatus, JoinOut, JoinErr, BothStopped, CloseChannel, RejoinOut,
     RejoinErr, Report, Collect
<1>3. TypeOK'
  <2>1. pc' \in Points
    BY DEF Points, Run, ExitStatus, JoinOut, JoinErr, BothStopped, CloseChannel, RejoinOut,
       RejoinErr, Report, Collect
  <2>2. told' \subseteq News
    BY DEF TypeOK, News, Run, ExitStatus, JoinOut, JoinErr, BothStopped, CloseChannel,
       RejoinOut, RejoinErr, Report, Collect
  <2>3. result' \in [Streams -> 0 .. Cap]
    BY DEF TypeOK, Run, ExitStatus, JoinOut, JoinErr, BothStopped, CloseChannel, RejoinOut,
       RejoinErr, Report, Collect
  <2> QED
    BY <1>1, <1>2, <2>1, <2>2, <2>3 DEF TypeOK
<1>4. (Accounted /\ StopsAtEnd /\ EndOfOutput)'
  BY <1>1, <1>2 DEF Accounted, StopsAtEnd, EndOfOutput
<1>5. CASE ExitStatus \/ JoinOut \/ JoinErr \/ BothStopped \/ RejoinOut \/ RejoinErr
  <2>1. channel' = channel /\ told' = told /\ result' = result
    BY <1>5 DEF ExitStatus, JoinOut, JoinErr, BothStopped, RejoinOut, RejoinErr
  <2>2. \/ pc \in {"wait", "join", "joinErr"} /\ pc' \in {"join", "joinErr", "check"}
        \/ pc = "check" /\ pc' = "report" /\ \A s \in Streams : ~Alive(s)
        \/ pc \in {"rejoin", "rejoinErr"} /\ pc' \in {"rejoinErr", "report"}
    BY <1>5 DEF ExitStatus, JoinOut, JoinErr, BothStopped, RejoinOut, RejoinErr
  <2>3. (CloseIsSaid /\ ReportIsTrue /\ ResultIsKept)'
    BY <1>1, <2>1, <2>2 DEF CloseIsSaid, ReportIsTrue, ResultIsKept, Alive
  <2> QED
    BY <1>3, <1>4, <2>3
<1>6. CASE CloseChannel
  <2>1. (CloseIsSaid /\ ReportIsTrue /\ ResultIsKept)'
    BY <1>6 DEF CloseChannel, CloseIsSaid, ReportIsTrue, ResultIsKept
  <2> QED
    BY <1>3, <1>4, <2>1
<1>7. CASE Report
  <2>1. CloseIsSaid' /\ ResultIsKept'
    BY <1>1, <1>7 DEF Report, CloseIsSaid, ResultIsKept, Alive
  <2>2. ReportIsTrue'
    BY <1>1, <1>7 DEF Report, ReportIsTrue
  <2> QED
    BY <1>3, <1>4, <2>1, <2>2
<1>8. CASE Collect("stdout", "collect", "collectErr")
  <2>1. CloseIsSaid' /\ ReportIsTrue'
    BY <1>1, <1>8 DEF Collect, CloseIsSaid, ReportIsTrue, Alive
  <2>2. ResultIsKept'
    BY <1>1, <1>8 DEF Collect, ResultIsKept, TypeOK, Streams
  <2> QED
    BY <1>3, <1>4, <2>1, <2>2
<1>9. CASE Collect("stderr", "collectErr", "done")
  <2>1. CloseIsSaid' /\ ReportIsTrue'
    BY <1>1, <1>9 DEF Collect, CloseIsSaid, ReportIsTrue, Alive
  <2>2. ResultIsKept'
    BY <1>1, <1>9 DEF Collect, ResultIsKept, TypeOK, Streams
  <2> QED
    BY <1>3, <1>4, <2>1, <2>2
<1> QED
  BY <1>5, <1>6, <1>7, <1>8, <1>9 DEF Run

LEMMA NextOK == IInv /\ [Next]_vars => IInv'
<1> SUFFICES ASSUME IInv, [Next]_vars
             PROVE  IInv'
  OBVIOUS
<1>1. CASE UNCHANGED vars
  BY <1>1 DEF vars, IInv, TypeOK, Accounted, StopsAtEnd, EndOfOutput, CloseIsSaid,
     ReportIsTrue, ResultIsKept, Alive
<1> QED
  BY <1>1, CommandStep, ReaderStep, RunStep DEF Next

-----------------------------------------------------------------------------
(* Theorems *)

\* The values that run() and its surroundings can have, for any cap and window.
THEOREM TypeCorrect == Spec => []TypeOK
<1>1. IInv => TypeOK
  BY DEF IInv
<1> QED
  BY <1>1, InitOK, NextOK, PTL DEF Spec

\* A caller who listens and hears nothing has the whole output, under all conditions:
\* at the cap, with slow readers, with a child on the streams and a connection that
\* goes; but for a reader that gave up in a silence and what a child had still to
\* write when the connection went.
THEOREM CutAlwaysTold == Spec => []CutIsTold
<1>1. IInv => CutIsTold
  <2> SUFFICES ASSUME IInv, pc = "done", listens, told = {}, NEW s \in Streams,
                      reader[s] # "timedOut", ~(plan.child /\ channel = "lost")
               PROVE  result[s] = plan.demand[s]
    BY DEF CutIsTold
  <2> USE DEF IInv
  <2>1. remote = "exited" /\ ~capped[s]
    BY DEF ReportIsTrue
  <2>2. reader[s] = "stopped" /\ channel # "closed"
    BY DEF CloseIsSaid, Alive, TypeOK
  <2>3. result[s] = kept[s]
    BY DEF ResultIsKept, Streams
  <2>4. written[s] = kept[s]
    BY <2>1, <2>2 DEF Accounted, StopsAtEnd, TypeOK
  <2>5. eof \/ channel = "lost"
    BY <2>1, <2>2 DEF StopsAtEnd, TypeOK
  <2>6. eof \/ ~plan.child
    BY <2>5
  <2>7. written = plan.demand
    BY <2>1, <2>6 DEF EndOfOutput
  <2> QED
    BY <2>3, <2>4, <2>7
<1> QED
  BY <1>1, InitOK, NextOK, PTL DEF Spec
=============================================================================
