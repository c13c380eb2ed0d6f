------------------------- MODULE CommandRunnerProofs ------------------------
(***************************************************************************)
(* What ProcessCommandRunner::run returns, for every size of the pipe, the *)
(* buffer and the limit and every amount of output.                        *)
(***************************************************************************)
EXTENDS CommandRunner, TLAPS

IInv == TypeOK /\ Accounting /\ Progress /\ ResultInv

\* The initial state satisfies the invariant.
LEMMA InitInv == Init => IInv
<1> SUFFICES ASSUME Init PROVE IInv
  OBVIOUS
<1>1. output \in 0..MaxOutput /\ written \in Nat /\ pipe \in Nat
  BY SizesAssumption DEF Init
<1>2. tooLarge \in BOOLEAN /\ expired \in BOOLEAN
  BY Zenon DEF Init
<1>3. TypeOK
  BY <1>1, <1>2 DEF Init, TypeOK
<1>4. Accounting
  BY DEF Init, Accounting
<1>5. Progress
  BY DEF Init, Progress
<1>6. ResultInv
  BY DEF Init, ResultInv, NothingLeft, OutcomeHonest
<1>7. QED
  BY <1>3, <1>4, <1>5, <1>6 DEF IInv

\* One chunk read: the accounting is kept unless something is cut.
LEMMA ReadInv ==
  ASSUME IInv, NEW count \in 1..BufferSize, Read(count)
  PROVE  IInv'
<1> DEFINE remaining == MaxOutput - output
<1>1. /\ reader = "Reading" /\ count <= pipe /\ pipe' = pipe - count
      /\ output' = output + (IF count < remaining THEN count ELSE remaining)
      /\ tooLarge' = (tooLarge \/ count > remaining)
      /\ UNCHANGED <<reader, runnerVars, childVars>>
  BY DEF Read
<1>2. count \in Nat /\ pipe \in Nat /\ output \in 0..MaxOutput /\ MaxOutput \in Nat
      /\ written \in Nat
  BY SizesAssumption DEF IInv, TypeOK
<1>3. pipe' \in Nat /\ output' \in 0..MaxOutput
  BY <1>1, <1>2
<1>4. tooLarge' \in BOOLEAN
  BY <1>1
<1>5. TypeOK'
  BY <1>1, <1>3, <1>4 DEF IInv, TypeOK, runnerVars, childVars
<1>6. Accounting'
  <2> SUFFICES ASSUME ~tooLarge' PROVE output' + pipe' = written'
    BY DEF Accounting
  <2>1. ~tooLarge /\ ~(count > remaining)
    BY <1>1, Zenon
  <2>2. output + pipe = written
    BY <2>1 DEF IInv, Accounting
  <2>3. QED
    BY <1>1, <1>2, <2>1, <2>2 DEF childVars
<1>7. Progress'
  BY <1>1 DEF IInv, Progress, runnerVars, childVars
<1>8. ResultInv'
  BY <1>1 DEF IInv, ResultInv, Progress, NothingLeft, OutcomeHonest, runnerVars, childVars
<1>9. QED
  BY <1>5, <1>6, <1>7, <1>8 DEF IInv

\* The last join: the result is right for what the threads and the child did.
LEMMA JoinInv ==
  ASSUME IInv, Join
  PROVE  IInv'
<1>1. PICK valid \in BOOLEAN : result' = Outcome(valid)
  BY DEF Join
<1>2. /\ runner = "Joining" /\ reader \in {"Done", "Error"} /\ runner' = "Returned"
      /\ UNCHANGED <<failure, expired, childVars, pipe, readerVars>>
  BY DEF Join
<1>3. \/ /\ failure # "none" /\ result' = failure
      \/ /\ failure = "none" /\ reader = "Error" /\ result' = "OutputRead"
      \/ /\ failure = "none" /\ reader = "Done" /\ tooLarge /\ result' = "OutputTooLarge"
      \/ /\ failure = "none" /\ reader = "Done" /\ ~tooLarge
         /\ exit # "success" /\ result' = "NonZeroExit"
      \/ /\ failure = "none" /\ reader = "Done" /\ ~tooLarge /\ exit = "success"
         /\ result' \in {"ok", "OutputEncoding"}
  BY <1>1, <1>2 DEF Outcome
<1>4. failure \in {"none", "TimedOut", "Wait"} /\ exit \in {"none", "success", "failure"}
  BY DEF IInv, TypeOK
<1>5. TypeOK'
  <2>1. result' \in {"none", "ok"} \cup Failures
    BY <1>3, <1>4 DEF Failures
  <2>2. QED
    BY <1>2, <2>1 DEF IInv, TypeOK, childVars, readerVars
<1>6. Accounting' /\ Progress'
  BY <1>2 DEF IInv, Accounting, Progress, childVars, readerVars
<1>7. (result' = "ok" => reader = "Done" /\ ~tooLarge)
  BY <1>3, <1>4
<1>8. child = "reaped" \/ failure = "Wait"
  BY <1>2 DEF IInv, Progress
<1>9. NothingLeft'
  BY <1>2, <1>3, <1>4, <1>8 DEF NothingLeft, childVars, readerVars
<1>10. OutcomeHonest'
  BY <1>2, <1>3, <1>4, <1>8 DEF IInv, Progress, OutcomeHonest, childVars
<1>11. ResultInv'
  BY <1>2, <1>7, <1>9, <1>10 DEF ResultInv, readerVars
<1>12. QED
  BY <1>5, <1>6, <1>11 DEF IInv

\* Every other step of the three parties.
LEMMA NextInv == IInv /\ [Next]_vars => IInv'
<1> SUFFICES ASSUME IInv, [Next]_vars PROVE IInv'
  OBVIOUS
<1> USE DEF runnerVars, childVars, readerVars
<1>0. written \in Nat /\ pipe \in Nat /\ output \in Nat
  BY SizesAssumption DEF IInv, TypeOK
<1>1. CASE Spawn
  <2>1. TypeOK'
    BY <1>1 DEF Spawn, IInv, TypeOK
  <2>2. Accounting'
    BY <1>1 DEF Spawn, IInv, Accounting
  <2>3. Progress'
    BY <1>1 DEF Spawn, IInv, Progress
  <2>4. ResultInv'
    BY <1>1 DEF Spawn, IInv, Progress, ResultInv, NothingLeft, OutcomeHonest
  <2>5. QED
    BY <2>1, <2>2, <2>3, <2>4 DEF IInv
<1>2. CASE SpawnFails
  BY <1>2 DEF SpawnFails, IInv, TypeOK, Accounting, Progress, ResultInv, NothingLeft, OutcomeHonest,
     Failures
<1>3. CASE PollExited \/ Reap
  <2>1. TypeOK'
    BY <1>3 DEF PollExited, Reap, IInv, TypeOK
  <2>2. Accounting'
    BY <1>3 DEF PollExited, Reap, IInv, Accounting
  <2>3. Progress'
    BY <1>3 DEF PollExited, Reap, IInv, TypeOK, Progress
  <2>4. ResultInv'
    BY <1>3 DEF PollExited, Reap, IInv, Progress, ResultInv, NothingLeft, OutcomeHonest
  <2>5. QED
    BY <2>1, <2>2, <2>3, <2>4 DEF IInv
<1>4. CASE \E cause \in {"TimedOut", "Wait"} : PollGivesUp(cause)
  <2>1. TypeOK'
    BY <1>4 DEF PollGivesUp, IInv, TypeOK
  <2>2. Accounting'
    BY <1>4 DEF PollGivesUp, IInv, Accounting
  <2>3. Progress'
    BY <1>4 DEF PollGivesUp, IInv, TypeOK, Progress
  <2>4. ResultInv'
    BY <1>4 DEF PollGivesUp, IInv, Progress, ResultInv, NothingLeft, OutcomeHonest
  <2>5. QED
    BY <2>1, <2>2, <2>3, <2>4 DEF IInv
<1>5. CASE WaitFails
  <2>1. TypeOK'
    BY <1>5 DEF WaitFails, IInv, TypeOK
  <2>2. Accounting'
    BY <1>5 DEF WaitFails, IInv, Accounting
  <2>3. Progress'
    BY <1>5 DEF WaitFails, IInv, TypeOK, Progress
  <2>4. ResultInv'
    BY <1>5 DEF WaitFails, IInv, Progress, ResultInv, NothingLeft, OutcomeHonest
  <2>5. QED
    BY <2>1, <2>2, <2>3, <2>4 DEF IInv
<1>6. CASE DeadlinePasses
  <2>1. TypeOK'
    BY <1>6 DEF DeadlinePasses, IInv, TypeOK
  <2>2. Accounting'
    BY <1>6 DEF DeadlinePasses, IInv, Accounting
  <2>3. Progress'
    BY <1>6 DEF DeadlinePasses, IInv, TypeOK, Progress
  <2>4. ResultInv'
    BY <1>6 DEF DeadlinePasses, IInv, Progress, ResultInv, NothingLeft, OutcomeHonest
  <2>5. QED
    BY <2>1, <2>2, <2>3, <2>4 DEF IInv
<1>7. CASE ReadEnd \/ ReadFails
  <2>1. TypeOK'
    BY <1>7 DEF ReadEnd, ReadFails, IInv, TypeOK
  <2>2. Accounting'
    BY <1>7 DEF ReadEnd, ReadFails, IInv, Accounting
  <2>3. Progress'
    BY <1>7 DEF ReadEnd, ReadFails, IInv, TypeOK, Progress
  <2>4. ResultInv'
    BY <1>7 DEF ReadEnd, ReadFails, IInv, Progress, ResultInv, NothingLeft, OutcomeHonest
  <2>5. QED
    BY <2>1, <2>2, <2>3, <2>4 DEF IInv
<1>8. CASE Write
  <2>1. TypeOK'
    BY <1>0, <1>8 DEF Write, IInv, TypeOK
  <2>2. Accounting'
    BY <1>0, <1>8 DEF Write, IInv, Accounting
  <2>3. Progress'
    BY <1>8 DEF Write, IInv, TypeOK, Progress
  <2>4. ResultInv'
    BY <1>8 DEF Write, IInv, Progress, ResultInv, NothingLeft, OutcomeHonest
  <2>5. QED
    BY <2>1, <2>2, <2>3, <2>4 DEF IInv
<1>9. CASE Forks \/ DescendantEnds
  <2>1. TypeOK'
    <3>1. holders \in SUBSET {"child", "descendant"}
      BY DEF IInv, TypeOK
    <3>2. holders' \in SUBSET {"child", "descendant"}
      BY <1>9, <3>1 DEF Forks, DescendantEnds
    <3>3. UNCHANGED <<child, exit, written, pipe, runnerVars, readerVars>>
      BY <1>9 DEF Forks, DescendantEnds
    <3>4. QED
      BY <3>2, <3>3 DEF IInv, TypeOK
  <2>2. Accounting'
    BY <1>9 DEF Forks, DescendantEnds, IInv, Accounting
  <2>3. Progress'
    BY <1>9 DEF Forks, DescendantEnds, IInv, TypeOK, Progress
  <2>4. ResultInv'
    BY <1>9 DEF Forks, DescendantEnds, IInv, Progress, ResultInv, NothingLeft, OutcomeHonest
  <2>5. QED
    BY <2>1, <2>2, <2>3, <2>4 DEF IInv
<1>10. CASE \E status \in {"success", "failure"} : Ends(status)
  <2>1. TypeOK'
    BY <1>10 DEF Ends, IInv, TypeOK
  <2>2. Accounting'
    BY <1>10 DEF Ends, IInv, Accounting
  <2>3. Progress'
    BY <1>10 DEF Ends, IInv, TypeOK, Progress
  <2>4. ResultInv'
    BY <1>10 DEF Ends, IInv, Progress, ResultInv, NothingLeft, OutcomeHonest
  <2>5. QED
    BY <2>1, <2>2, <2>3, <2>4 DEF IInv
<1>11. CASE UNCHANGED vars
  BY <1>11 DEF vars, IInv, TypeOK, Accounting, Progress, ResultInv, NothingLeft, OutcomeHonest
<1>12. CASE Returned
  BY <1>11, <1>12 DEF Returned
<1>13. QED
  BY <1>1, <1>2, <1>3, <1>4, <1>5, <1>6, <1>7, <1>8, <1>9, <1>10, <1>11, <1>12, ReadInv, JoinInv
     DEF Next, RunnerStep, ReaderStep

-----------------------------------------------------------------------------
\* For every limit, buffer and pipe, output returned as good by run of
\* src/src/collector.rs is everything the command wrote.
THEOREM OutputNeverCut == Spec => []OutputIsWhole
<1>1. Spec => []IInv
  BY InitInv, NextInv, PTL DEF Spec
<1>2. IInv => OutputIsWhole
  <2> SUFFICES ASSUME IInv, result = "ok" PROVE output = written /\ holders = {}
    BY DEF OutputIsWhole
  <2>1. reader = "Done" /\ ~tooLarge
    BY DEF IInv, ResultInv
  <2>2. pipe = 0 /\ holders = {} /\ output + pipe = written /\ output \in Nat
    BY <2>1, SizesAssumption DEF IInv, TypeOK, Progress, Accounting
  <2>3. QED
    BY <2>2
<1>3. QED
  BY <1>1, <1>2, PTL

\* For every limit, buffer and pipe, run leaves neither a zombie nor a reader
\* thread behind, on any of its error paths.
THEOREM NoLeftovers == Spec => []NothingLeft
<1>1. Spec => []IInv
  BY InitInv, NextInv, PTL DEF Spec
<1>2. IInv => NothingLeft
  BY DEF IInv, ResultInv
<1>3. QED
  BY <1>1, <1>2, PTL

\* For every limit, buffer and pipe, the error run returns names what happened
\* to the command: a time limit that passed, a status that was read, a limit
\* that was exceeded.
THEOREM ErrorsHonest == Spec => []OutcomeHonest
<1>1. Spec => []IInv
  BY InitInv, NextInv, PTL DEF Spec
<1>2. IInv => OutcomeHonest
  BY DEF IInv, ResultInv
<1>3. QED
  BY <1>1, <1>2, PTL
=============================================================================
