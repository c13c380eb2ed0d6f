---------------------------- MODULE CommandRunner ---------------------------
(***************************************************************************)
(* ProcessCommandRunner::run of src/src/collector.rs: a child process      *)
(* writes into a pipe, a thread of its own reads the pipe to its end, and  *)
(* the runner polls the child until it has ended or the deadline has       *)
(* passed.  The command and the kernel are the environment: the child may  *)
(* write any amount, block on a full pipe, exit at any time with any       *)
(* status, leave a descendant behind that still holds the pipe, or never   *)
(* end.  Bytes are counted in units.                                       *)
(***************************************************************************)
EXTENDS Naturals

CONSTANTS
  MaxOutput,   \* MAX_COMMAND_OUTPUT_BYTES
  BufferSize,  \* the reader's buffer
  PipeSize,    \* capacity of the pipe
  MaxWritten   \* bound: what the command writes in all

ASSUME SizesAssumption ==
  /\ MaxOutput \in Nat /\ MaxWritten \in Nat
  /\ BufferSize \in Nat \ {0} /\ PipeSize \in Nat \ {0}

VARIABLES
  runner,    \* "Idle", "Polling", "Killed", "Joining", "Returned"
  failure,   \* "none", or the CommandFailure to return after the joins
  result,    \* "none", "ok" or a CommandFailure
  child,     \* "none", "running", "zombie", "reaped"
  exit,      \* "none", "success" or "failure": the child's exit status
  expired,   \* the deadline has passed
  holders,   \* who holds the write end of the pipe
  written,   \* units written into the pipe so far
  pipe,      \* units in the pipe
  reader,    \* "none", "Reading", "Done", "Error"
  output,    \* units kept by the reader
  tooLarge   \* the reader saw more than it kept

runnerVars == <<runner, failure, result, expired>>
childVars  == <<child, exit, holders, written>>
readerVars == <<reader, output, tooLarge>>
vars == <<runnerVars, childVars, pipe, readerVars>>

Failures == {"Spawn", "Wait", "TimedOut", "NonZeroExit", "OutputRead",
             "OutputTooLarge", "OutputEncoding"}

Init ==
  /\ runner = "Idle" /\ failure = "none" /\ result = "none" /\ expired = FALSE
  /\ child = "none" /\ exit = "none" /\ holders = {} /\ written = 0
  /\ pipe = 0
  /\ reader = "none" /\ output = 0 /\ tooLarge = FALSE

-----------------------------------------------------------------------------
(***************************************************************************)
(* The calling thread.                                                     *)
(***************************************************************************)
Spawn ==
  /\ runner = "Idle"
  /\ runner' = "Polling"
  /\ child' = "running" /\ holders' = {"child"}
  /\ reader' = "Reading"
  /\ UNCHANGED <<failure, result, expired, exit, written, pipe, output, tooLarge>>

SpawnFails ==
  /\ runner = "Idle"
  /\ runner' = "Returned" /\ result' = "Spawn"
  /\ UNCHANGED <<failure, expired, childVars, pipe, readerVars>>

\* try_wait finds the child ended, and reaps it.
PollExited ==
  /\ runner = "Polling" /\ child = "zombie"
  /\ child' = "reaped"
  /\ runner' = "Joining"
  /\ UNCHANGED <<failure, result, expired, exit, holders, written, pipe, readerVars>>

\* Mutation of PollGivesUp: there is no deadline.
PollWaitsForEver(cause) ==
  /\ runner = "Polling" /\ cause = "Wait"
  /\ failure' = cause
  /\ runner' = "Killed"
  /\ UNCHANGED <<result, expired, childVars, pipe, readerVars>>

\* try_wait finds it running after the deadline, or fails: kill it.
PollGivesUp(cause) ==
  /\ runner = "Polling"
  /\ \/ cause = "TimedOut" /\ child = "running" /\ expired
     \/ cause = "Wait"
  /\ failure' = cause
  /\ runner' = "Killed"
  /\ UNCHANGED <<result, expired, childVars, pipe, readerVars>>

\* wait returns once the child has ended.
Reap ==
  /\ runner = "Killed" /\ child = "zombie"
  /\ child' = "reaped"
  /\ runner' = "Joining"
  /\ UNCHANGED <<failure, result, expired, exit, holders, written, pipe, readerVars>>

\* wait fails as try_wait did; its result is ignored.
WaitFails ==
  /\ runner = "Killed" /\ failure = "Wait"
  /\ runner' = "Joining"
  /\ UNCHANGED <<failure, result, expired, childVars, pipe, readerVars>>

\* Mutation of Outcome: the exit status is not looked at.
OutcomeIgnoresStatus(valid) ==
  CASE failure # "none" -> failure
    [] failure = "none" /\ reader = "Error" -> "OutputRead"
    [] failure = "none" /\ reader = "Done" /\ tooLarge -> "OutputTooLarge"
    [] OTHER -> IF valid THEN "ok" ELSE "OutputEncoding"

\* What is returned once the reader thread has ended; valid says whether the
\* output is UTF-8.
Outcome(valid) ==
  CASE failure # "none" -> failure
    [] failure = "none" /\ reader = "Error" -> "OutputRead"
    [] failure = "none" /\ reader = "Done" /\ tooLarge -> "OutputTooLarge"
    [] failure = "none" /\ reader = "Done" /\ ~tooLarge /\ exit # "success" -> "NonZeroExit"
    [] OTHER -> IF valid THEN "ok" ELSE "OutputEncoding"

\* Mutation of Join: run returns without waiting for the reader after a kill.
JoinOnlyAfterExit ==
  /\ runner = "Joining" /\ (failure # "none" \/ reader \in {"Done", "Error"})
  /\ runner' = "Returned"
  /\ \E valid \in BOOLEAN : result' = Outcome(valid)
  /\ UNCHANGED <<failure, expired, childVars, pipe, readerVars>>

Join ==
  /\ runner = "Joining" /\ reader \in {"Done", "Error"}
  /\ runner' = "Returned"
  /\ \E valid \in BOOLEAN : result' = Outcome(valid)
  /\ UNCHANGED <<failure, expired, childVars, pipe, readerVars>>

DeadlinePasses ==
  /\ runner = "Polling" /\ ~expired
  /\ expired' = TRUE
  /\ UNCHANGED <<runner, failure, result, childVars, pipe, readerVars>>

RunnerStep ==
  \/ Spawn
  \/ SpawnFails
  \/ PollExited
  \/ \E cause \in {"TimedOut", "Wait"} : PollGivesUp(cause)
  \/ Reap
  \/ WaitFails
  \/ Join

-----------------------------------------------------------------------------
(***************************************************************************)
(* The reader thread: read_limited_output.                                 *)
(***************************************************************************)
\* Mutation of Read: what does not fit is cut without a trace.
ReadCuts(count) ==
  /\ reader = "Reading" /\ count <= pipe
  /\ pipe' = pipe - count
  /\ LET remaining == MaxOutput - output IN
       output' = output + (IF count < remaining THEN count ELSE remaining)
  /\ UNCHANGED <<reader, tooLarge, runnerVars, childVars>>

Read(count) ==
  /\ reader = "Reading" /\ count <= pipe
  /\ pipe' = pipe - count
  /\ LET remaining == MaxOutput - output IN
       /\ output' = output + (IF count < remaining THEN count ELSE remaining)
       /\ tooLarge' = (tooLarge \/ count > remaining)
  /\ UNCHANGED <<reader, runnerVars, childVars>>

\* read returns 0: the pipe is empty and nobody can write any more.
ReadEnd ==
  /\ reader = "Reading" /\ pipe = 0 /\ holders = {}
  /\ reader' = "Done"
  /\ UNCHANGED <<output, tooLarge, pipe, runnerVars, childVars>>

ReadFails ==
  /\ reader = "Reading"
  /\ reader' = "Error"
  /\ UNCHANGED <<output, tooLarge, pipe, runnerVars, childVars>>

ReaderStep == ReadEnd \/ ReadFails \/ \E count \in 1..BufferSize : Read(count)

-----------------------------------------------------------------------------
(***************************************************************************)
(* The command and the kernel.                                             *)
(***************************************************************************)
\* A write blocks on a full pipe; after the read end is gone it kills the
\* writer instead (see Ends).
Write ==
  /\ holders # {} /\ reader = "Reading"
  /\ pipe < PipeSize /\ written < MaxWritten
  /\ pipe' = pipe + 1 /\ written' = written + 1
  /\ UNCHANGED <<child, exit, holders, runnerVars, readerVars>>

\* The child hands its end of the pipe to a descendant.
Forks ==
  /\ child = "running" /\ "child" \in holders
  /\ holders' = holders \cup {"descendant"}
  /\ UNCHANGED <<child, exit, written, pipe, runnerVars, readerVars>>

\* The child exits, or is killed by the runner or by a broken pipe.
Ends(status) ==
  /\ child = "running"
  /\ child' = "zombie" /\ exit' = status
  /\ holders' = holders \ {"child"}
  /\ UNCHANGED <<written, pipe, runnerVars, readerVars>>

DescendantEnds ==
  /\ "descendant" \in holders
  /\ holders' = holders \ {"descendant"}
  /\ UNCHANGED <<child, exit, written, pipe, runnerVars, readerVars>>

Returned ==
  /\ runner = "Returned" /\ holders = {} /\ reader # "Reading"
  /\ UNCHANGED vars

Next ==
  \/ RunnerStep
  \/ ReaderStep
  \/ DeadlinePasses
  \/ Write
  \/ Forks
  \/ \E status \in {"success", "failure"} : Ends(status)
  \/ DescendantEnds
  \/ Returned

Spec == Init /\ [][Next]_vars

\* Both threads run, time passes, and the kernel delivers SIGKILL.  That a
\* descendant closes the pipe some day is owed by the command.
Fairness ==
  /\ WF_vars(Spawn)
  /\ WF_vars(PollExited)
  /\ WF_vars(PollGivesUp("TimedOut"))
  /\ WF_vars(Reap)
  /\ WF_vars(Join)
  /\ WF_vars(ReadEnd)
  /\ WF_vars(\E count \in 1..BufferSize : Read(count))
  /\ WF_vars(DeadlinePasses)
  /\ WF_vars(failure # "none" /\ Ends("failure"))
  /\ WF_vars(DescendantEnds)

FairSpec == Spec /\ Fairness

-----------------------------------------------------------------------------
\* What each variable may hold.
TypeOK ==
  /\ runner \in {"Idle", "Polling", "Killed", "Joining", "Returned"}
  /\ failure \in {"none", "TimedOut", "Wait"}
  /\ result \in {"none", "ok"} \cup Failures
  /\ child \in {"none", "running", "zombie", "reaped"}
  /\ exit \in {"none", "success", "failure"}
  /\ expired \in BOOLEAN
  /\ holders \in SUBSET {"child", "descendant"}
  /\ written \in Nat
  /\ pipe \in Nat
  /\ reader \in {"none", "Reading", "Done", "Error"}
  /\ output \in 0..MaxOutput
  /\ tooLarge \in BOOLEAN

\* Output returned as good is all that the command wrote, and within the limit:
\* neither the limit nor an early end of the child cuts it.
OutputIsWhole == result = "ok" => output = written /\ holders = {}

\* When run has returned, the child is reaped, unless the kernel refuses to wait
\* for it, and the reader thread has ended: a daemon that collects for months
\* leaves no zombie and no thread behind.
NothingLeft ==
  runner = "Returned" =>
    /\ child \in {"none", "reaped"} \/ result = "Wait"
    /\ reader \in {"none", "Done", "Error"}

\* A command that exited in time with failure, or was killed, is never a
\* success, and TimedOut is only reported after the deadline.
OutcomeHonest ==
  /\ result = "ok" => child = "reaped" /\ exit = "success"
  /\ result = "TimedOut" => expired
  /\ result = "NonZeroExit" => child = "reaped" /\ exit = "failure"

\* run returns, also when the child never ends, writes without end, or blocks
\* on a full pipe.
RunReturns == child = "running" ~> runner = "Returned"

-----------------------------------------------------------------------------
(***************************************************************************)
(* The inductive invariant behind OutputIsWhole, NothingLeft and           *)
(* OutcomeHonest.                                                          *)
(***************************************************************************)

\* As long as nothing was cut, every unit written is kept or in the pipe.
Accounting == ~tooLarge => output + pipe = written

\* Where the runner is says what became of the child, the reader and the cause.
Progress ==
  /\ runner = "Idle" => child = "none" /\ reader = "none"
  /\ runner \in {"Polling", "Killed", "Joining"} => reader # "none"
  /\ runner \in {"Idle", "Polling"} => failure = "none"
  /\ runner = "Joining" => child = "reaped" \/ failure = "Wait"
  /\ failure = "TimedOut" => expired
  /\ reader = "Done" => pipe = 0 /\ holders = {}
  /\ child \in {"none", "zombie", "reaped"} => "child" \notin holders
  /\ child \in {"zombie", "reaped"} => exit # "none"
  /\ runner # "Returned" => result = "none"

ResultInv ==
  /\ result = "ok" => reader = "Done" /\ ~tooLarge
  /\ NothingLeft
  /\ OutcomeHonest
=============================================================================
