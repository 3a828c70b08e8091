----------------------------- MODULE RemoteRun ------------------------------
(***************************************************************************)
(* SSHClient.run() of utils/ssh.py: one remote command, the two threads    *)
(* that read its stdout and stderr, and the caller that waits for the exit *)
(* status, joins the threads and puts the result together.                 *)
(*                                                                         *)
(* Output is counted in chunks (one recv(4096)).  The two streams share    *)
(* the receive window of the SSH channel: a chunk that nobody has read     *)
(* takes room in it, and a command that writes into a full window blocks.  *)
(* That is the behaviour of the library and of the remote host which run() *)
(* has to live with; Conditions says how far they go.  The state of the    *)
(* command is what has arrived of it: its chunks and its exit status come  *)
(* in the order they were sent, and with the connection all that is still  *)
(* to come is lost.                                                        *)
(***************************************************************************)
EXTENDS Naturals

CONSTANTS
  Cap,        \* chunks kept per stream (32 MB in the code)
  Window,     \* chunks in flight (2 MB in the library)
  MaxOutput,  \* bound: chunks a command writes to a stream
  Conditions  \* which of AllConditions hold

VARIABLES
  plan,      \* what the command is going to do: the chunks it has for each
             \* stream, and whether it leaves a child behind on the streams
  remote,    \* the command: "running", "hung" or "exited" (with its status)
  written,   \* chunks that have arrived of each stream
  eof,       \* the remote end of the streams is closed
  buffered,  \* chunks that arrived and were not read yet
  channel,   \* "open", "closed" by run() or "lost" with the connection
  kept,      \* output_buf and error_buf
  capped,    \* output_capped and error_capped
  reader,    \* each reader thread: "reading", "stopped" or "timedOut"
  listens,   \* the caller has not asked for silence, or gave a log function
  pc,        \* where run() is
  told,      \* what a caller who listens has been told
  result     \* chunks of each stream in the returned text

Streams == {"stdout", "stderr"}

AllConditions ==
  {"hangs",       \* the command may never end
   "lingers",     \* a child of the command may keep the streams open for ever
   "slowReader",  \* a reader may be busy with its chunks for more than 5 s
   "silence",     \* the command may write nothing for the whole timeout
   "connection"}  \* the connection may be lost

theCommand == <<plan, remote, written, eof>>
readers == <<kept, capped, reader>>
caller  == <<listens, pc, told, result>>
vars == <<plan, remote, written, eof, buffered, channel, kept, capped, reader,
          listens, pc, told, result>>

ASSUME SizesAssumption == Cap \in Nat /\ Window \in Nat /\ MaxOutput \in Nat
ASSUME ConditionsAssumption == Conditions \subseteq AllConditions

Points ==
  {"wait",       \* channel.recv_exit_status()
   "join",       \* t_out.join(timeout=10)
   "joinErr",    \* t_err.join(timeout=10)
   "check",      \* is_alive()
   "rejoin",     \* t_out.join(timeout=5), channel closed
   "rejoinErr",  \* t_err.join(timeout=5)
   "report",     \* the cap warning and the exit code
   "collect",    \* "".join(output_buf)
   "collectErr", \* "".join(error_buf)
   "done"}

News == {"closed", "truncated", "noStatus"}

Plans == [demand : [Streams -> 0 .. MaxOutput], child : BOOLEAN]

TypeOK ==
  /\ plan \in Plans
  /\ remote \in {"running", "hung", "exited"}
  /\ written \in [Streams -> 0 .. MaxOutput]
  /\ eof \in BOOLEAN /\ (eof => remote = "exited")
  /\ buffered \in [Streams -> 0 .. Window]
  /\ channel \in {"open", "closed", "lost"}
  /\ kept \in [Streams -> 0 .. Cap]
  /\ capped \in [Streams -> BOOLEAN]
  /\ reader \in [Streams -> {"reading", "stopped", "timedOut"}]
  /\ listens \in BOOLEAN
  /\ pc \in Points
  /\ told \subseteq News
  /\ result \in [Streams -> 0 .. Cap]

Init ==
  /\ plan \in Plans /\ (plan.child => "lingers" \in Conditions)
  /\ remote = "running" /\ eof = FALSE
  /\ written = [s \in Streams |-> 0]
  /\ buffered = [s \in Streams |-> 0]
  /\ channel = "open"
  /\ kept = [s \in Streams |-> 0]
  /\ capped = [s \in Streams |-> FALSE]
  /\ reader = [s \in Streams |-> "reading"]
  /\ listens \in BOOLEAN
  /\ pc = "wait" /\ told = {}
  /\ result = [s \in Streams |-> 0]

-----------------------------------------------------------------------------
(* Variants: slips that the properties must notice. *)

\* join() without a timeout.
JoinForever(s) == FALSE

\* The warning is given and the channel left open.
LeaveOpen == UNCHANGED channel

\* The flag of the stream that was cut is not set.
ForgetCap(s) == UNCHANGED capped

-----------------------------------------------------------------------------
(* The remote command and the channel *)

InFlight == buffered["stdout"] + buffered["stderr"]

WriteChunk(s) ==
  /\ channel = "open" /\ remote # "hung"
  /\ written[s] < plan.demand[s]
  /\ InFlight < Window
  /\ written' = [written EXCEPT ![s] = @ + 1]
  /\ buffered' = [buffered EXCEPT ![s] = @ + 1]
  /\ UNCHANGED <<plan, remote, eof, channel, readers, caller>>

\* The command ends after it has got rid of its output, or has left that to
\* its child.
RemoteExits ==
  /\ channel # "lost" /\ remote = "running"
  /\ written = plan.demand \/ plan.child
  /\ remote' = "exited"
  /\ UNCHANGED <<plan, written, eof, buffered, channel, readers, caller>>

StreamsClose ==
  /\ channel # "lost" /\ remote = "exited" /\ ~eof /\ written = plan.demand
  /\ eof' = TRUE
  /\ UNCHANGED <<plan, remote, written, buffered, channel, readers, caller>>

RemoteHangs ==
  /\ channel # "lost" /\ remote = "running" /\ "hangs" \in Conditions
  /\ remote' = "hung"
  /\ UNCHANGED <<plan, written, eof, buffered, channel, readers, caller>>

\* The transport thread ends and closes every channel; what has arrived can still be
\* read.
ConnectionLost ==
  /\ "connection" \in Conditions /\ channel = "open" /\ pc # "done"
  /\ channel' = "lost"
  /\ UNCHANGED <<theCommand, buffered, readers, caller>>

-----------------------------------------------------------------------------
(* The reader threads *)

Stop(s) == reader' = [reader EXCEPT ![s] = "stopped"]

TooMuch(s) == kept[s] + 1 > Cap

NoteCap(s) == capped' = [capped EXCEPT ![s] = TRUE]

ReadChunk(s) ==
  /\ reader[s] = "reading" /\ buffered[s] > 0
  /\ ~TooMuch(s)
  /\ buffered' = [buffered EXCEPT ![s] = @ - 1]
  /\ kept' = [kept EXCEPT ![s] = @ + 1]
  /\ UNCHANGED <<theCommand, capped, reader, channel, caller>>

\* The chunk is dropped and the thread ends: nobody empties the stream any more.
ReadTooMuch(s) ==
  /\ reader[s] = "reading" /\ buffered[s] > 0
  /\ TooMuch(s)
  /\ buffered' = [buffered EXCEPT ![s] = @ - 1]
  /\ NoteCap(s)
  /\ Stop(s)
  /\ UNCHANGED <<theCommand, kept, channel, caller>>

\* recv() returns nothing once the buffer is empty and the channel at its end.
ReadEnd(s) ==
  /\ reader[s] = "reading" /\ buffered[s] = 0
  /\ eof \/ channel # "open"
  /\ Stop(s)
  /\ UNCHANGED <<theCommand, buffered, kept, capped, channel, caller>>

\* settimeout(3600): recv() raises, the thread ends without a word.
ReadTimesOut(s) ==
  /\ "silence" \in Conditions
  /\ reader[s] = "reading" /\ buffered[s] = 0
  /\ reader' = [reader EXCEPT ![s] = "timedOut"]
  /\ UNCHANGED <<theCommand, buffered, kept, capped, channel, caller>>

Reader(s) == ReadChunk(s) \/ ReadTooMuch(s) \/ ReadEnd(s)

-----------------------------------------------------------------------------
(* run() *)

Alive(s) == reader[s] = "reading"

Step(from, to) == pc = from /\ pc' = to

\* Printed unless silent, logged where there is a log function.
Tell(news) == told' = IF listens THEN told \union news ELSE told

\* recv_exit_status() has no timeout of its own; it returns -1 when the channel is
\* gone before the status came.
ExitStatus ==
  /\ remote = "exited" \/ channel = "lost"
  /\ Step("wait", "join")
  /\ UNCHANGED <<theCommand, buffered, readers, channel, listens, told, result>>

\* join(timeout=...) returns with the thread ended or not.
JoinTimesOut(s) == Alive(s)

JoinOut ==
  /\ Alive("stdout") => JoinTimesOut("stdout")
  /\ Step("join", "joinErr")
  /\ UNCHANGED <<theCommand, buffered, readers, channel, listens, told, result>>

JoinErr ==
  /\ Alive("stderr") => JoinTimesOut("stderr")
  /\ Step("joinErr", "check")
  /\ UNCHANGED <<theCommand, buffered, readers, channel, listens, told, result>>

BothStopped ==
  /\ \A s \in Streams : ~Alive(s)
  /\ Step("check", "report")
  /\ UNCHANGED <<theCommand, buffered, readers, channel, listens, told, result>>

\* close() of a channel that is lost already does nothing.
Close == channel' = IF channel = "open" THEN "closed" ELSE channel

CloseChannel ==
  /\ \E s \in Streams : Alive(s)
  /\ Step("check", "rejoin")
  /\ Tell({"closed"})
  /\ Close
  /\ UNCHANGED <<theCommand, buffered, readers, listens, result>>

\* On the closed channel the threads soon come to their end.
SlowReader(s) == Alive(s) /\ "slowReader" \in Conditions

RejoinOut ==
  /\ Alive("stdout") => SlowReader("stdout")
  /\ Step("rejoin", "rejoinErr")
  /\ UNCHANGED <<theCommand, buffered, readers, channel, listens, told, result>>

RejoinErr ==
  /\ Alive("stderr") => SlowReader("stderr")
  /\ Step("rejoinErr", "report")
  /\ UNCHANGED <<theCommand, buffered, readers, channel, listens, told, result>>

\* The warning of the cap, and the line with the exit code, in red when it is -1.
Report ==
  /\ Step("report", "collect")
  /\ Tell({n \in {"truncated"} : \E s \in Streams : capped[s]}
          \union {n \in {"noStatus"} : remote # "exited"})
  /\ UNCHANGED <<theCommand, buffered, readers, channel, listens, result>>

\* The buffers are read one after the other, and a reader that is still at work may
\* go on with its own.
Collect(s, from, to) ==
  /\ Step(from, to)
  /\ result' = [result EXCEPT ![s] = kept[s]]
  /\ UNCHANGED <<theCommand, buffered, readers, channel, listens, told>>

Run ==
  \/ ExitStatus \/ JoinOut \/ JoinErr \/ BothStopped \/ CloseChannel
  \/ RejoinOut \/ RejoinErr \/ Report
  \/ Collect("stdout", "collect", "collectErr") \/ Collect("stderr", "collectErr", "done")

-----------------------------------------------------------------------------
Next ==
  \/ \E s \in Streams : WriteChunk(s) \/ Reader(s) \/ ReadTimesOut(s)
  \/ RemoteExits \/ StreamsClose \/ RemoteHangs \/ ConnectionLost
  \/ Run

\* The threads run, and so does the command as long as it is not hung or blocked;
\* its streams close unless it left a child behind.  Nobody counts on the timeout
\* of an hour that ends a reader.
Fairness ==
  /\ WF_vars(Run)
  /\ \A s \in Streams : WF_vars(Reader(s))
  /\ \A s \in Streams : WF_vars(WriteChunk(s))
  /\ WF_vars(RemoteExits)
  /\ WF_vars(StreamsClose /\ ~plan.child)

Spec == Init /\ [][Next]_vars

FairSpec == Spec /\ Fairness

-----------------------------------------------------------------------------
(* Properties *)

\* What a reader leaves behind once it has met the cap.
Leftover(s) ==
  IF plan.demand[s] > Cap + 1 THEN plan.demand[s] - Cap - 1 ELSE 0

\* It leaves room in the window.  A leftover that fills it to the last chunk holds
\* up the other stream, however well that one is read.
FitsWindow == Leftover("stdout") + Leftover("stderr") < Window

ReaderTimedOut == \E s \in Streams : reader[s] = "timedOut"

\* run() comes back, with a child on the streams or without, at the cap or below
\* it: neither the order of the joins nor the shared window can hold it.  It takes
\* a command that hangs, more output than the cap and the window take, or a reader
\* that has given up, to prevent that.
RunReturns ==
  FitsWindow => <>(pc = "done" \/ remote = "hung" \/ ReaderTimedOut)

\* "Tasks that truly hang are bounded by the channel-level timeout inside ssh.py
\* run()" (utils/task_runner.py:12-13): the same without the conditions.
AlwaysReturns == <>(pc = "done")

\* "The channel is closed to unblock recv()" (utils/ssh.py:245-246): after run() no
\* reader is left behind for good, with a child that keeps the streams open either.
ReadersEnd == pc = "done" ~> \A s \in Streams : ~Alive(s)

\* A caller who listens does not take a part of the output for the whole: whatever
\* was dropped at the cap, left in a reader that did not stop or lost with the
\* connection, something was said.  Nothing is said of a stream whose reader gave up
\* in a silence, and of what a child of the command had still to write when the
\* connection went.
CutIsTold ==
  pc = "done" /\ listens /\ told = {} =>
    \A s \in Streams :
      \/ result[s] = plan.demand[s]
      \/ reader[s] = "timedOut"
      \/ plan.child /\ channel = "lost"

\* "The buffer is only read after both threads have definitely stopped"
\* (utils/ssh.py:246-247): not if a reader takes longer than the second join.
BuffersReadAfterStop ==
  pc \in {"collect", "collectErr"} => \A s \in Streams : ~Alive(s)
=============================================================================
