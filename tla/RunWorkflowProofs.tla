-------------------------- MODULE RunWorkflowProofs --------------------------
(***************************************************************************)
(* What holds of RunWorkflow for every value of its constants: any number   *)
(* of attempts, episodes, signals, failures and lost acknowledgements.      *)
(***************************************************************************)
EXTENDS RunWorkflow, TLAPS

USE DEF Statuses, TerminalStatuses, CompletedVerdicts, Verdicts, VerdictOrNone

\* Every transition leads to a status.
LEMMA TargetType == \A p \in Transitioning : Target[p] \in Statuses
  BY DEF Target, Transitioning

\* What a place sends as a verdict is one, or none.
LEMMA VerdictSentType == TypeOK => \A p \in Places : VerdictSent(p) \in VerdictOrNone
  BY DEF TypeOK, VerdictSent, Final

\* What the row takes as its verdict is one, or none.
LEMMA ResolvedVerdictType ==
  ASSUME NEW target \in Statuses, NEW v \in VerdictOrNone
  PROVE  ResolvedVerdict(target, v) \in VerdictOrNone
  BY DEF ResolvedVerdict

\* After a place comes a place.
LEMMA PlacesOfAfter ==
  ASSUME TypeOK, NEW p \in Transitioning \cup Learning
  PROVE  After(p) \in Places
  BY DEF TypeOK, After, AfterParking, LoopHead, Places, Transitioning, Learning, Over

\* Going to a place schedules a first attempt.
LEMMA GoToType ==
  ASSUME TypeOK, NEW p \in Places, GoTo(p)
  PROVE  /\ pc' \in Places
         /\ phase' \in {"idle", "scheduled", "read", "committed"}
         /\ attempt' \in 1 .. (MaxAttempts + MaxLearningAttempts)
         /\ read' \in Statuses \cup {"none"}
  BY WorkflowAssumption DEF GoTo, TypeOK

\* A retry stays within the attempts of the policy.
LEMMA RetryType ==
  ASSUME TypeOK, Retry
  PROVE  /\ pc' \in Places
         /\ phase' \in {"idle", "scheduled", "read", "committed"}
         /\ attempt' \in 1 .. (MaxAttempts + MaxLearningAttempts)
         /\ read' \in Statuses \cup {"none"}
<1>1. CASE attempt < Limit(pc)
  BY <1>1, WorkflowAssumption DEF Retry, TypeOK, Limit
<1>2. CASE ~(attempt < Limit(pc))
  BY <1>2 DEF Retry, TypeOK, Places, Over
<1> QED BY <1>1, <1>2

\* Spending a bound keeps the bounds numbers.
LEMMA SpendType ==
  ASSUME TypeOK, NEW b \in {"signals", "failures", "lostAcks", "stragglers"},
         NEW n \in Nat, Spend(b, n)
  PROVE  spent' \in [{"signals", "failures", "lostAcks", "stragglers"} -> Nat]
  BY DEF Spend, TypeOK

\* What a transition writes is a status, a verdict and a journal.
LEMMA WriteType ==
  ASSUME TypeOK, NEW from \in Statuses \cup {"none"}, NEW target \in Statuses,
         NEW v \in VerdictOrNone, Write(from, target, v)
  PROVE  /\ status' \in Statuses
         /\ verdict' \in VerdictOrNone
         /\ journal' \in Seq(Entry)
<1>1. verdict' \in VerdictOrNone
  BY ResolvedVerdictType DEF Write
<1>2. Moved(from, target, verdict') \in Entry
  BY <1>1 DEF Moved, Entry
<1> QED BY <1>1, <1>2 DEF Write, TypeOK

\* Every variable keeps its type.
THEOREM TypeCorrect == Spec => []TypeOK
<1>1. Init => TypeOK
  <2> SUFFICES ASSUME Init PROVE TypeOK
    OBVIOUS
  <2>1. journal \in Seq(Entry)
    BY DEF Init, Moved, Entry
  <2>2. pc \in Places /\ stragglers \subseteq Entry
    BY DEF Init, Places, Transitioning
  <2>3. attempt \in 1 .. (MaxAttempts + MaxLearningAttempts)
    BY WorkflowAssumption DEF Init
  <2>4. spent \in [{"signals", "failures", "lostAcks", "stragglers"} -> Nat]
    BY DEF Init
  <2> QED
    BY <2>1, <2>2, <2>3, <2>4 DEF Init, TypeOK
<1>2. TypeOK /\ [Next]_vars => TypeOK'
  <2> SUFFICES ASSUME TypeOK, [Next]_vars PROVE TypeOK'
    OBVIOUS
  <2>1. CASE AttemptReads
    BY <2>1 DEF AttemptReads, TypeOK, row, flags, history
  <2>2. CASE AttemptCommits
    <3>1. /\ Target[pc] \in Statuses
          /\ VerdictSent(pc) \in VerdictOrNone
          /\ read \in Statuses \cup {"none"}
      BY <2>2, TargetType, VerdictSentType DEF AttemptCommits, TypeOK
    <3>2. /\ status' \in Statuses
          /\ verdict' \in VerdictOrNone
          /\ journal' \in Seq(Entry)
      BY <2>2, <3>1, WriteType DEF AttemptCommits
    <3> QED
      BY <2>2, <3>2 DEF AttemptCommits, TypeOK, flags, history
  <2>3. CASE AttemptRejected
    BY <2>3, RetryType DEF AttemptRejected, TypeOK, row, flags, history
  <2>4. CASE AttemptAcked
    <3>1. After(pc) \in Places
      BY <2>4, PlacesOfAfter DEF AttemptAcked
    <3> QED
      BY <2>4, <3>1, GoToType DEF AttemptAcked, TypeOK, row, flags, history
  <2>5. CASE AttemptDies
    BY <2>5, RetryType, SpendType, WorkflowAssumption
    DEF AttemptDies, TypeOK, row, flags, history
  <2>6. CASE AckLost
    BY <2>6, RetryType, SpendType, WorkflowAssumption
    DEF AckLost, TypeOK, row, flags, history
  <2>7. ASSUME NEW moreWork \in BOOLEAN, NEW v \in EpisodeVerdicts,
               EpisodeEnds(moreWork, v)
        PROVE  TypeOK'
    <3>1. v \in CompletedVerdicts \cup {"none"}
      BY WorkflowAssumption
    <3>2. PICK p \in Places : GoTo(p)
      BY <2>7 DEF EpisodeEnds, LoopHead, Places, Transitioning
    <3>3. /\ found' \in CompletedVerdicts \cup {"none"}
          /\ reported' \in CompletedVerdicts \cup {"none"}
          /\ episode' \in Nat
      <4>1. episode' = episode + 1 /\ reported' \in {reported, v}
        BY <2>7 DEF EpisodeEnds
      <4>2. found' \in {found, v, "none"}
        BY <2>7 DEF EpisodeEnds
      <4> QED BY <3>1, <4>1, <4>2 DEF TypeOK
    <3>6. paused' \in BOOLEAN /\ cancelRequested' \in BOOLEAN
      <4>1. UNCHANGED <<paused, cancelRequested>> \/ (paused' = FALSE /\ cancelRequested' = FALSE)
        BY <2>7, Zenon DEF EpisodeEnds, flags
      <4> QED BY <4>1 DEF TypeOK
    <3>4. UNCHANGED <<status, verdict, journal, stragglers, cancelAsked, spent>>
      BY <2>7 DEF EpisodeEnds, row
    <3>5. /\ pc' \in Places
          /\ phase' \in {"idle", "scheduled", "read", "committed"}
          /\ attempt' \in 1 .. (MaxAttempts + MaxLearningAttempts)
          /\ read' \in Statuses \cup {"none"}
      BY <3>2, GoToType
    <3> QED
      BY <3>3, <3>4, <3>5, <3>6 DEF TypeOK
  <2>8. CASE LearningEnds
    <3>1. After(pc) \in Places
      BY <2>8, PlacesOfAfter DEF LearningEnds
    <3> QED
      BY <2>8, <3>1, GoToType DEF LearningEnds, TypeOK, row, flags, history
  <2>9. CASE LearningDies
    BY <2>9, RetryType, SpendType, WorkflowAssumption
    DEF LearningDies, TypeOK, row, flags, history
  <2>10. CASE Pause
    BY <2>10, SpendType, WorkflowAssumption
    DEF Pause, TypeOK, row, activity, history
  <2>11. CASE Resume
    <3>1. /\ pc' \in Places
          /\ phase' \in {"idle", "scheduled", "read", "committed"}
          /\ attempt' \in 1 .. (MaxAttempts + MaxLearningAttempts)
          /\ read' \in Statuses \cup {"none"}
      <4>1. "resuming" \in Places
        BY DEF Places, Transitioning
      <4> QED BY <2>11, <4>1, GoToType DEF Resume, TypeOK, activity
    <3>2. spent' \in [{"signals", "failures", "lostAcks", "stragglers"} -> Nat]
      BY <2>11, SpendType, WorkflowAssumption DEF Resume
    <3>3. paused' = FALSE /\ UNCHANGED <<status, verdict, journal, stragglers>>
      BY <2>11 DEF Resume, row
    <3>4. UNCHANGED <<cancelRequested, episode, found, cancelAsked, reported>>
      BY <2>11 DEF Resume, history
    <3>5. paused' \in BOOLEAN /\ cancelRequested' \in BOOLEAN /\ cancelAsked' \in BOOLEAN
      BY <3>3, <3>4 DEF TypeOK
    <3> QED
      BY <3>1, <3>2, <3>3, <3>4, <3>5 DEF TypeOK
  <2>12. CASE Cancel
    <3>1. /\ pc' \in Places
          /\ phase' \in {"idle", "scheduled", "read", "committed"}
          /\ attempt' \in 1 .. (MaxAttempts + MaxLearningAttempts)
          /\ read' \in Statuses \cup {"none"}
      <4>1. "cancelling" \in Places
        BY DEF Places, Transitioning
      <4> QED BY <2>12, <4>1, GoToType DEF Cancel, TypeOK, activity
    <3>2. spent' \in [{"signals", "failures", "lostAcks", "stragglers"} -> Nat]
      BY <2>12, SpendType, WorkflowAssumption DEF Cancel
    <3>3. cancelRequested' = TRUE /\ cancelAsked' = TRUE
      BY <2>12 DEF Cancel
    <3>4. UNCHANGED <<status, verdict, journal, stragglers, paused, episode, found, reported>>
      BY <2>12 DEF Cancel, row
    <3>5. paused' \in BOOLEAN /\ cancelRequested' \in BOOLEAN /\ cancelAsked' \in BOOLEAN
      BY <3>3, <3>4 DEF TypeOK
    <3> QED
      BY <3>1, <3>2, <3>4, <3>5 DEF TypeOK
  <2>13. CASE UNCHANGED vars
    BY <2>13 DEF TypeOK, vars, row, activity, flags, history
  <2> QED
    BY <2>1, <2>2, <2>3, <2>4, <2>5, <2>6, <2>7, <2>8, <2>9, <2>10, <2>11, <2>12, <2>13
    DEF Next, Worker, EpisodeReturns, Signal
<1> QED BY <1>1, <1>2, PTL DEF Spec

-----------------------------------------------------------------------------
\* While nothing a worker does escapes its timeout, the attempt that has read the
\* row still sees it, and the one that has committed has left it at its target.
AttemptSeesRow ==
  /\ phase = "read" => pc \in Transitioning /\ read = status
  /\ phase = "committed" => pc \in Transitioning /\ status = Target[pc]

\* Every way into the cancelling half of the workflow starts at the signal.
CancelComesFromSignal ==
  /\ cancelRequested => cancelAsked
  /\ pc \in {"cancelling", "closing"} => cancelAsked

\* RowFollowsWorkflow and CancelledOnlyWhenAsked are not inductive alone: the
\* first needs to know what an acknowledged attempt wrote, the second how the
\* workflow came to await the cancelling transitions.
RowInv ==
  /\ TypeOK
  /\ AttemptSeesRow
  /\ RowFollowsWorkflow
  /\ CancelComesFromSignal
  /\ CancelledOnlyWhenAsked

\* The status that each transition of the workflow asks for.
LEMMA TargetIs ==
  /\ \A p \in {"starting", "resuming"} : Target[p] = "running"
  /\ Target["pausing"] = "pausing"
  /\ Target["parking"] = "paused"
  /\ Target["cancelling"] = "cancelling"
  /\ Target["closing"] = "cancelled"
  /\ Target["completing"] = "completed"
  BY DEF Target, Transitioning

\* Only the places of a cancellation ask for a cancelled status.
LEMMA TargetCancels ==
  ASSUME NEW p \in Transitioning, Target[p] \in {"cancelling", "cancelled"}
  PROVE  p \in {"cancelling", "closing"}
  BY DEF Target, Transitioning

\* A fresh attempt, or none: AttemptSeesRow asks nothing of it.
LEMMA GoToFresh ==
  ASSUME NEW p, GoTo(p)
  PROVE  pc' = p /\ phase' \in {"idle", "scheduled"}
  BY DEF GoTo

\* A retry starts over, or fails the workflow.
LEMMA RetryFresh ==
  ASSUME Retry
  PROVE  pc' \in {pc, "failed"} /\ phase' \in {"idle", "scheduled"}
  BY GoToFresh DEF Retry

\* What the workflow awaits next, by what it awaited.
LEMMA AfterIs ==
  ASSUME TypeOK, NEW p \in Transitioning \cup Learning
  PROVE  /\ After(p) = "episode" => p \in {"starting", "resuming"}
         /\ After(p) = "waiting" => p = "parking"
         /\ After(p) \in Learning => p \in {"completing", "consolidating", "syncing"}
         /\ After(p) = "done" => p \in {"closing", "analysing"}
         /\ After(p) = "cancelling" => cancelRequested
         /\ After(p) = "closing" => p = "cancelling"
  BY DEF TypeOK, After, AfterParking, LoopHead, Transitioning, Learning

\* A step that leaves the row alone and starts a fresh attempt, or none, keeps
\* RowInv if where it goes agrees with the row and with what was asked.
LEMMA MoveKeepsRowInv ==
  ASSUME RowInv, UNCHANGED <<status, cancelAsked>>, cancelRequested' => cancelAsked,
         phase' \in {"idle", "scheduled"}, RowFollowsWorkflow',
         pc' \in {"cancelling", "closing"} => cancelAsked
  PROVE  AttemptSeesRow' /\ CancelComesFromSignal' /\ CancelledOnlyWhenAsked'
<1>1. AttemptSeesRow'
  BY DEF AttemptSeesRow
<1>2. CancelComesFromSignal'
  BY DEF CancelComesFromSignal
<1>3. CancelledOnlyWhenAsked'
  BY DEF CancelledOnlyWhenAsked, RowInv
<1> QED BY <1>1, <1>2, <1>3

\* Every step keeps the invariant of the row.
LEMMA RowInvStep == RowInv /\ TypeOK' /\ [Next]_vars => RowInv'
<1> SUFFICES ASSUME RowInv, TypeOK', [Next]_vars PROVE RowInv'
  OBVIOUS
<1>0. TypeOK /\ AttemptSeesRow /\ RowFollowsWorkflow /\ CancelComesFromSignal
      /\ CancelledOnlyWhenAsked
  BY DEF RowInv
<1>a. ASSUME UNCHANGED <<status, cancelRequested, cancelAsked>>, Retry PROVE RowInv'
  <2>1. pc' \in {pc, "failed"} /\ phase' \in {"idle", "scheduled"}
    BY <1>a, RetryFresh
  <2>2. RowFollowsWorkflow'
    BY <2>1, <1>a, <1>0 DEF RowFollowsWorkflow, Learning
  <2>3. cancelRequested' => cancelAsked
    BY <1>a, <1>0 DEF CancelComesFromSignal
  <2>4. pc' \in {"cancelling", "closing"} => cancelAsked
    BY <2>1, <1>0 DEF CancelComesFromSignal
  <2>5. UNCHANGED <<status, cancelAsked>>
    BY <1>a
  <2> QED BY <2>1, <2>2, <2>3, <2>4, <2>5, MoveKeepsRowInv DEF RowInv
<1>1. CASE AttemptReads
  <2>1. AttemptSeesRow'
    BY <1>1 DEF AttemptReads, AttemptSeesRow, row
  <2>2. UNCHANGED <<status, pc, cancelRequested, cancelAsked>>
    BY <1>1 DEF AttemptReads, row, flags, history
  <2> QED
    BY <2>1, <2>2, <1>0
    DEF RowInv, RowFollowsWorkflow, CancelComesFromSignal, CancelledOnlyWhenAsked
<1>2. CASE AttemptCommits
  <2>1. /\ pc \in Transitioning /\ pc' = pc
        /\ status' = Target[pc] /\ phase' = "committed"
    BY <1>2 DEF AttemptCommits, Write
  <2>2. UNCHANGED <<cancelRequested, cancelAsked>>
    BY <1>2 DEF AttemptCommits, flags, history
  <2>3. AttemptSeesRow'
    BY <2>1 DEF AttemptSeesRow
  <2>4. RowFollowsWorkflow'
    BY <2>1 DEF RowFollowsWorkflow, Transitioning, Learning
  <2>5. CancelComesFromSignal'
    BY <2>1, <2>2, <1>0 DEF CancelComesFromSignal
  <2>6. status' \in {"cancelling", "cancelled"} => cancelAsked
    BY <2>1, <1>0, TargetCancels DEF CancelComesFromSignal
  <2>7. CancelledOnlyWhenAsked'
    BY <2>6, <2>2 DEF CancelledOnlyWhenAsked
  <2> QED BY <2>3, <2>4, <2>5, <2>7 DEF RowInv
<1>3. CASE AttemptRejected
  BY <1>3, <1>a DEF AttemptRejected, row, flags, history
<1>4. CASE AttemptAcked
  <2>1. /\ pc \in Transitioning /\ status = Target[pc]
        /\ pc' = After(pc) /\ phase' \in {"idle", "scheduled"}
    BY <1>4, <1>0, GoToFresh DEF AttemptAcked, AttemptSeesRow
  <2>2. UNCHANGED <<status, cancelRequested, cancelAsked>>
    BY <1>4 DEF AttemptAcked, row, flags, history
  <2>3. RowFollowsWorkflow'
    <3>1. pc' = "episode" => status = "running"
      BY <2>1, <1>0, AfterIs, TargetIs
    <3>2. pc' = "waiting" => status = "paused"
      BY <2>1, <1>0, AfterIs, TargetIs
    <3>3. pc' \in Learning => status = "completed"
      BY <2>1, <1>0, AfterIs, TargetIs DEF Transitioning
    <3>4. pc' = "done" => status = "cancelled"
      BY <2>1, <1>0, AfterIs, TargetIs DEF Transitioning
    <3> QED BY <3>1, <3>2, <3>3, <3>4, <2>2 DEF RowFollowsWorkflow
  <2>4. cancelRequested' => cancelAsked
    BY <2>2, <1>0 DEF CancelComesFromSignal
  <2>5. pc' \in {"cancelling", "closing"} => cancelAsked
    BY <2>1, <1>0, AfterIs DEF CancelComesFromSignal
  <2>6. UNCHANGED <<status, cancelAsked>>
    BY <2>2
  <2> QED BY <2>1, <2>3, <2>4, <2>5, <2>6, MoveKeepsRowInv DEF RowInv
<1>5. CASE AttemptDies
  BY <1>5, <1>a DEF AttemptDies, row, flags, history
<1>6. CASE AckLost
  BY <1>6, <1>a DEF AckLost, row, flags, history
<1>7. ASSUME NEW moreWork \in BOOLEAN, NEW v \in EpisodeVerdicts,
             EpisodeEnds(moreWork, v)
      PROVE  RowInv'
  <2>1. pc = "episode" /\ status = "running"
    BY <1>7, <1>0 DEF EpisodeEnds, RowFollowsWorkflow
  <2>2. UNCHANGED <<status, cancelAsked>>
    BY <1>7 DEF EpisodeEnds, row
  <2>3. /\ \/ UNCHANGED cancelRequested
           \/ cancelRequested' = FALSE
        /\ \/ GoTo("completing")
           \/ GoTo(LoopHead(cancelRequested, paused))
           \/ GoTo("episode")
    BY <1>7, Zenon DEF EpisodeEnds, flags
  <2>4. /\ \/ pc' \in {"completing", "pausing", "episode"}
           \/ pc' = "cancelling" /\ cancelRequested
        /\ phase' \in {"idle", "scheduled"}
    <3>1. CASE GoTo("completing") \/ GoTo("episode")
      <4>1. pc' \in {"completing", "episode"} /\ phase' \in {"idle", "scheduled"}
        BY <3>1, GoToFresh
      <4> QED BY <4>1
    <3>2. CASE GoTo(LoopHead(cancelRequested, paused))
      <4>1. \/ LoopHead(cancelRequested, paused) \in {"pausing", "episode"}
            \/ LoopHead(cancelRequested, paused) = "cancelling" /\ cancelRequested
        BY DEF LoopHead
      <4>2. pc' = LoopHead(cancelRequested, paused) /\ phase' \in {"idle", "scheduled"}
        BY <3>2, GoToFresh
      <4>3. CASE LoopHead(cancelRequested, paused) \in {"pausing", "episode"}
        BY <4>2, <4>3
      <4>4. CASE LoopHead(cancelRequested, paused) = "cancelling" /\ cancelRequested
        BY <4>2, <4>4
      <4> QED BY <4>1, <4>3, <4>4
    <3> QED BY <2>3, <3>1, <3>2
  <2>5. RowFollowsWorkflow'
    BY <2>1, <2>2, <2>4 DEF RowFollowsWorkflow, Learning
  <2>6. cancelRequested' => cancelAsked
    BY <2>3, <1>0 DEF CancelComesFromSignal
  <2>7. pc' \in {"cancelling", "closing"} => cancelAsked
    BY <2>4, <1>0 DEF CancelComesFromSignal
  <2> QED BY <2>2, <2>4, <2>5, <2>6, <2>7, MoveKeepsRowInv DEF RowInv
<1>8. CASE LearningEnds
  <2>1. /\ pc \in Learning /\ status = "completed"
        /\ pc' = After(pc) /\ phase' \in {"idle", "scheduled"}
    BY <1>8, <1>0, GoToFresh DEF LearningEnds, RowFollowsWorkflow
  <2>2. UNCHANGED <<status, cancelRequested, cancelAsked>>
    BY <1>8 DEF LearningEnds, row, flags, history
  <2>3. pc' \in Learning \cup {"done"}
    BY <2>1 DEF After, Learning
  <2>4. RowFollowsWorkflow'
    BY <2>1, <2>2, <2>3 DEF RowFollowsWorkflow, Learning
  <2>5. cancelRequested' => cancelAsked
    BY <2>2, <1>0 DEF CancelComesFromSignal
  <2>6. pc' \notin {"cancelling", "closing"}
    BY <2>3 DEF Learning
  <2>7. UNCHANGED <<status, cancelAsked>>
    BY <2>2
  <2> QED BY <2>1, <2>4, <2>5, <2>6, <2>7, MoveKeepsRowInv DEF RowInv
<1>9. CASE LearningDies
  BY <1>9, <1>a DEF LearningDies, row, flags, history
<1>10. ASSUME UNCHANGED <<status, phase, read, pc>>,
              UNCHANGED cancelRequested \/ cancelRequested' = TRUE,
              cancelAsked' = cancelAsked \/ cancelAsked' = TRUE,
              cancelRequested' => cancelAsked'
       PROVE  RowInv'
  <2>1. AttemptSeesRow' /\ RowFollowsWorkflow'
    BY <1>10, <1>0 DEF AttemptSeesRow, RowFollowsWorkflow
  <2>2. cancelAsked => cancelAsked'
    BY <1>10
  <2>3. CancelComesFromSignal' /\ CancelledOnlyWhenAsked'
    BY <1>10, <2>2, <1>0 DEF CancelComesFromSignal, CancelledOnlyWhenAsked
  <2> QED BY <2>1, <2>3 DEF RowInv
<1>11. CASE Pause
  <2>1. UNCHANGED <<status, phase, read, pc, cancelRequested, cancelAsked>>
    BY <1>11 DEF Pause, row, activity, history
  <2>2. cancelRequested' => cancelAsked'
    BY <2>1, <1>0 DEF CancelComesFromSignal
  <2> QED BY <2>1, <2>2, <1>10
<1>12. CASE Resume
  <2>1. UNCHANGED <<status, cancelRequested, cancelAsked>>
    BY <1>12 DEF Resume, row, history
  <2>2. cancelRequested' => cancelAsked
    BY <2>1, <1>0 DEF CancelComesFromSignal
  <2>3. CASE pc = "waiting"
    <3>1. GoTo("resuming")
      BY <2>3, <1>12 DEF Resume
    <3>2. pc' = "resuming" /\ phase' \in {"idle", "scheduled"}
      BY <3>1, GoToFresh
    <3>3. RowFollowsWorkflow'
      BY <3>2 DEF RowFollowsWorkflow, Learning
    <3> QED BY <3>2, <3>3, <2>1, <2>2, MoveKeepsRowInv DEF RowInv
  <2>4. CASE pc # "waiting"
    <3>1. UNCHANGED <<phase, read, pc>>
      BY <2>4, <1>12 DEF Resume, activity
    <3> QED BY <3>1, <2>1, <2>2, <1>10
  <2> QED BY <2>3, <2>4
<1>13. CASE Cancel
  <2>1. UNCHANGED status /\ cancelRequested' = TRUE /\ cancelAsked' = TRUE
    BY <1>13 DEF Cancel, row
  <2>2. CASE pc = "waiting"
    <3>1. GoTo("cancelling")
      BY <2>2, <1>13 DEF Cancel
    <3>2. pc' = "cancelling" /\ phase' \in {"idle", "scheduled"}
      BY <3>1, GoToFresh
    <3>3. RowFollowsWorkflow' /\ AttemptSeesRow'
      BY <3>2 DEF RowFollowsWorkflow, AttemptSeesRow, Learning
    <3>4. CancelComesFromSignal' /\ CancelledOnlyWhenAsked'
      BY <2>1 DEF CancelComesFromSignal, CancelledOnlyWhenAsked
    <3> QED BY <3>3, <3>4 DEF RowInv
  <2>3. CASE pc # "waiting"
    <3>1. UNCHANGED <<phase, read, pc>>
      BY <2>3, <1>13 DEF Cancel, activity
    <3> QED BY <3>1, <2>1, <1>10
  <2> QED BY <2>2, <2>3
<1>14. CASE UNCHANGED vars
  <2>1. UNCHANGED <<status, phase, read, pc, cancelRequested, cancelAsked>>
    BY <1>14 DEF vars, row, activity, flags, history
  <2>2. cancelRequested' => cancelAsked'
    BY <2>1, <1>0 DEF CancelComesFromSignal
  <2> QED BY <2>1, <2>2, <1>10
<1> QED
  BY <1>1, <1>2, <1>3, <1>4, <1>5, <1>6, <1>7, <1>8, <1>9, <1>11, <1>12, <1>13, <1>14
  DEF Next, Worker, EpisodeReturns, Signal

\* The invariant of the row holds in every state.
LEMMA RowInvariant == Spec => []RowInv
<1>1. Init => AttemptSeesRow /\ RowFollowsWorkflow /\ CancelComesFromSignal
              /\ CancelledOnlyWhenAsked
  BY DEF Init, AttemptSeesRow, RowFollowsWorkflow, CancelComesFromSignal,
         CancelledOnlyWhenAsked, Learning
<1>2. Init /\ TypeOK => RowInv
  BY <1>1 DEF RowInv
<1> QED BY <1>2, TypeCorrect, RowInvStep, PTL DEF Spec

\* Whatever attempts died, were rejected, were repeated or went unacknowledged,
\* the workflow runs an episode only while its row says running, waits for an
\* operator only while it says paused, and returns only once it is terminal.
THEOREM RowFollows == Spec => []RowFollowsWorkflow
<1>1. RowInv => RowFollowsWorkflow
  BY DEF RowInv
<1> QED BY <1>1, RowInvariant, PTL

\* No row is cancelled that nobody asked to cancel.
THEOREM CancelIsAsked == Spec => []CancelledOnlyWhenAsked
<1>1. RowInv => CancelledOnlyWhenAsked
  BY DEF RowInv
<1> QED BY <1>1, RowInvariant, PTL

-----------------------------------------------------------------------------
\* Where the row is rewritten, the attempt that rewrites it judged the move by
\* the status the row still has.
LEMMA RowStep ==
  ASSUME RowInv, [Next]_vars
  PROVE  \/ UNCHANGED row
         \/ /\ pc \in Transitioning
            /\ CanTransition(status, Target[pc], VerdictSent(pc))
            /\ Write(status, Target[pc], VerdictSent(pc))
            /\ Target[pc] \in Statuses
            /\ VerdictSent(pc) \in VerdictOrNone
<1>1. CASE AttemptCommits
  <2>1. read = status
    BY <1>1 DEF AttemptCommits, RowInv, AttemptSeesRow
  <2>2. Target[pc] \in Statuses /\ VerdictSent(pc) \in VerdictOrNone
    BY <1>1, TargetType, VerdictSentType DEF AttemptCommits, RowInv, TypeOK
  <2> QED BY <1>1, <2>1, <2>2 DEF AttemptCommits
<1>2. CASE AttemptReads \/ AttemptRejected \/ AttemptAcked \/ AttemptDies \/ AckLost
  BY <1>2, Zenon DEF AttemptReads, AttemptRejected, AttemptAcked, AttemptDies, AckLost
<1>3. CASE EpisodeReturns \/ LearningEnds \/ LearningDies
  BY <1>3, Zenon DEF EpisodeReturns, EpisodeEnds, LearningEnds, LearningDies
<1>4. CASE Signal
  BY <1>4, Zenon DEF Signal, Pause, Resume, Cancel
<1>5. CASE UNCHANGED vars
  BY <1>5, Zenon DEF vars
<1> QED BY <1>1, <1>2, <1>3, <1>4, <1>5 DEF Next, Worker

\* The state machine reads the aggregate's rules as the workflow does.
LEMMA SameRules ==
  ASSUME NEW s, NEW target, NEW v
  PROVE  /\ Machine!CanTransition(s, target, v) <=> CanTransition(s, target, v)
         /\ Machine!ResolvedVerdict(target, v) = ResolvedVerdict(target, v)
  BY DEF CanTransition, AllowedTargets, Transitions, VerdictAccepted, ResolvedVerdict,
         Machine!CanTransition, Machine!AllowedTargets, Machine!Transitions,
         Machine!VerdictAccepted, Machine!ResolvedVerdict, Machine!TerminalStatuses,
         Machine!Statuses, Machine!CompletedVerdicts

\* Seen alone, the durable row never makes a move the aggregate rejects: every
\* behaviour of the workflow is one of RunStateMachine.
THEOREM RowImplementsStateMachine == Spec => RowIsStateMachine
<1>1. Init => Machine!Init
  BY DEF Init, Machine!Init
<1>2. RowInv /\ [Next]_vars => [Machine!Next]_(Machine!row)
  <2> SUFFICES ASSUME RowInv, [Next]_vars PROVE [Machine!Next]_(Machine!row)
    OBVIOUS
  <2>1. CASE UNCHANGED row
    BY <2>1 DEF row, Machine!row
  <2>2. CASE /\ CanTransition(status, Target[pc], VerdictSent(pc))
             /\ Write(status, Target[pc], VerdictSent(pc))
             /\ Target[pc] \in Statuses
             /\ VerdictSent(pc) \in VerdictOrNone
    <3>1. /\ status' = Target[pc]
          /\ verdict' = ResolvedVerdict(Target[pc], VerdictSent(pc))
      BY <2>2 DEF Write
    <3>2. Machine!TransitionTo(Target[pc], VerdictSent(pc))
      BY <2>2, <3>1, SameRules DEF Machine!TransitionTo
    <3> QED
      BY <2>2, <3>2 DEF Machine!Next, Machine!Statuses, Machine!TerminalStatuses,
         Machine!VerdictOrNone, Machine!Verdicts, Machine!CompletedVerdicts
  <2> QED BY <2>1, <2>2, RowStep
<1> QED BY <1>1, <1>2, RowInvariant, PTL DEF Spec, RowIsStateMachine, Machine!Spec

\* The event log is one unbroken chain of allowed moves from run.created to the
\* row, however many attempts each move took.
THEOREM JournalExplains == Spec => []JournalExplainsRow
<1>1. Init => JournalExplainsRow
  BY DEF Init, JournalExplainsRow, Moved
<1>2. RowInv /\ JournalExplainsRow /\ [Next]_vars => JournalExplainsRow'
  <2> SUFFICES ASSUME RowInv, JournalExplainsRow, [Next]_vars PROVE JournalExplainsRow'
    OBVIOUS
  <2>1. CASE UNCHANGED row
    BY <2>1 DEF row, JournalExplainsRow
  <2>2. CASE /\ CanTransition(status, Target[pc], VerdictSent(pc))
             /\ Write(status, Target[pc], VerdictSent(pc))
    <3> DEFINE new == Moved(status, Target[pc], verdict')
    <3>1. /\ journal \in Seq(Entry) /\ Len(journal) \in Nat \ {0}
          /\ journal[1] = Moved("none", "queued", "none")
          /\ journal[Len(journal)].to = status
          /\ \A i \in 2 .. Len(journal) :
               /\ journal[i].from = journal[i - 1].to
               /\ journal[i].to \in AllowedTargets(journal[i].from)
      BY DEF RowInv, TypeOK, JournalExplainsRow
    <3>2. /\ status' = Target[pc]
          /\ journal' = Append(journal, new)
          /\ Target[pc] \in AllowedTargets(status)
      BY <2>2 DEF Write, CanTransition
    <3>3. new.from = status /\ new.to = status' /\ new.verdict = verdict'
      BY <3>2 DEF Moved
    <3> HIDE DEF new
    <3>4. /\ Len(journal') = Len(journal) + 1
          /\ journal'[Len(journal) + 1] = new
          /\ \A i \in 1 .. Len(journal) : journal'[i] = journal[i]
      BY <3>1, <3>2
    <3>5. ASSUME NEW i \in 2 .. Len(journal')
          PROVE  /\ journal'[i].from = journal'[i - 1].to
                 /\ journal'[i].to \in AllowedTargets(journal'[i].from)
      <4>1. CASE i = Len(journal) + 1
        <5>1. journal'[i] = new /\ journal'[i - 1] = journal[Len(journal)]
          BY <4>1, <3>1, <3>4
        <5> QED BY <5>1, <3>1, <3>2, <3>3
      <4>2. CASE i # Len(journal) + 1
        <5>1. i \in 2 .. Len(journal)
          BY <4>2, <3>1, <3>4
        <5>2. journal'[i] = journal[i] /\ journal'[i - 1] = journal[i - 1]
          BY <5>1, <3>1, <3>4
        <5> QED BY <5>1, <5>2, <3>1
      <4> QED BY <4>1, <4>2
    <3>6. /\ journal'[1] = Moved("none", "queued", "none")
          /\ journal' # << >>
          /\ journal'[Len(journal')].to = status'
          /\ journal'[Len(journal')].verdict = verdict'
      BY <3>1, <3>3, <3>4
    <3> QED BY <3>5, <3>6 DEF JournalExplainsRow
  <2> QED BY <2>1, <2>2, RowStep
<1> QED BY <1>1, <1>2, RowInvariant, PTL DEF Spec

-----------------------------------------------------------------------------
\* In the first history, what the workflow has found is what episodes reported;
\* continue_as_new forgets it on the way into an episode of the second.
FoundIsReported ==
  episode < EpisodesPerHistory \/ (episode = EpisodesPerHistory /\ pc # "episode")
    => found = reported

\* A completed run carries the verdict made of what was found: no episode follows.
CompletedHasFound == status = "completed" => verdict = Final(found)

\* What was found, and how many episodes there were, change only when one returns.
LEMMA OnlyEpisodesFind ==
  ASSUME RowInv, [Next]_vars, ~EpisodeReturns
  PROVE  UNCHANGED <<episode, found, reported>>
<1>1. CASE AttemptReads \/ AttemptCommits \/ AttemptRejected \/ AttemptAcked
  BY <1>1, Zenon DEF AttemptReads, AttemptCommits, AttemptRejected, AttemptAcked, history
<1>2. CASE AttemptDies \/ AckLost \/ LearningEnds \/ LearningDies
  BY <1>2, Zenon DEF AttemptDies, AckLost, LearningEnds, LearningDies, history
<1>3. CASE Signal
  BY <1>3, Zenon DEF Signal, Pause, Resume, Cancel, history
<1>4. CASE UNCHANGED vars
  BY <1>4, Zenon DEF vars, history
<1> QED BY <1>1, <1>2, <1>3, <1>4 DEF Next, Worker

\* An episode is left only by its return.
LEMMA OnlyEpisodesEnd ==
  ASSUME [Next]_vars, pc = "episode", ~EpisodeReturns
  PROVE  pc' = "episode"
<1>1. pc \notin Transitioning /\ pc \notin Learning
  BY DEF Transitioning, Learning
<1>2. CASE Worker \/ AttemptDies \/ AckLost \/ LearningEnds \/ LearningDies
  BY <1>1, <1>2, Zenon DEF Worker, AttemptReads, AttemptCommits, AttemptRejected,
     AttemptAcked, AttemptDies, AckLost, LearningEnds, LearningDies
<1>3. CASE Signal
  BY <1>3 DEF Signal, Pause, Resume, Cancel
<1>4. CASE UNCHANGED vars
  BY <1>4, Zenon DEF vars
<1> QED BY <1>2, <1>3, <1>4 DEF Next

\* Every step keeps both.
LEMMA FoundStep ==
  RowInv /\ RowInv' /\ FoundIsReported /\ CompletedHasFound /\ [Next]_vars
    => FoundIsReported' /\ CompletedHasFound'
<1> SUFFICES ASSUME RowInv, RowInv', FoundIsReported, CompletedHasFound, [Next]_vars
             PROVE  FoundIsReported' /\ CompletedHasFound'
  OBVIOUS
<1>1. CASE EpisodeReturns
  <2> PICK moreWork \in BOOLEAN, v \in EpisodeVerdicts : EpisodeEnds(moreWork, v)
    BY <1>1 DEF EpisodeReturns
  <2>1. /\ pc = "episode" /\ episode' = episode + 1 /\ episode \in Nat
        /\ reported' = IF v = "none" THEN reported ELSE v
        /\ UNCHANGED status
    BY DEF EpisodeEnds, RowInv, TypeOK, row
  <2>2. \/ found' = IF v = "none" THEN found ELSE v
        \/ episode' >= EpisodesPerHistory /\ pc' = "episode"
    BY DEF EpisodeEnds, GoTo
  <2>3. FoundIsReported'
    BY <2>1, <2>2, WorkflowAssumption DEF FoundIsReported
  <2>4. status' # "completed"
    BY <2>1 DEF RowInv, RowFollowsWorkflow
  <2> QED BY <2>3, <2>4 DEF CompletedHasFound
<1>2. CASE ~EpisodeReturns
  <2>1. UNCHANGED <<episode, found, reported>>
    BY <1>2, OnlyEpisodesFind
  <2>2. pc = "episode" => pc' = "episode"
    BY <1>2, OnlyEpisodesEnd
  <2>3. FoundIsReported'
    BY <2>1, <2>2 DEF FoundIsReported
  <2>4. CompletedHasFound'
    <3>1. CASE UNCHANGED row
      BY <3>1, <2>1 DEF row, CompletedHasFound, Final
    <3>2. CASE /\ Write(status, Target[pc], VerdictSent(pc))
               /\ pc \in Transitioning
      <4>1. status' = "completed" => pc = "completing"
        BY <3>2, TargetIs DEF Write, Transitioning
      <4>2. pc = "completing" => verdict' = Final(found)
        BY <3>2, TargetIs DEF Write, VerdictSent, ResolvedVerdict
      <4> QED BY <4>1, <4>2, <2>1 DEF CompletedHasFound, Final
    <3> QED BY <3>1, <3>2, RowStep
  <2> QED BY <2>3, <2>4
<1> QED BY <1>1, <1>2

\* However many attempts its transitions took and whatever was signalled meanwhile, a
\* run that completes within one history carries the last verdict an episode reported,
\* and inconclusive when none did.
THEOREM VerdictIsReported == Spec => []VerdictIsLastReported
<1>1. Init => FoundIsReported /\ CompletedHasFound
  BY DEF Init, FoundIsReported, CompletedHasFound
<1>2. RowInv /\ FoundIsReported /\ CompletedHasFound => VerdictIsLastReported
  <2> SUFFICES ASSUME RowInv, FoundIsReported, CompletedHasFound, status = "completed",
                      episode <= EpisodesPerHistory
               PROVE  verdict = IF reported = "none" THEN "inconclusive" ELSE reported
    BY DEF VerdictIsLastReported
  <2>1. pc # "episode"
    BY DEF RowInv, RowFollowsWorkflow
  <2>2. found = reported
    BY <2>1, WorkflowAssumption DEF FoundIsReported, RowInv, TypeOK
  <2> QED BY <2>2 DEF CompletedHasFound, Final
<1> QED BY <1>1, <1>2, FoundStep, RowInvariant, PTL DEF Spec
=============================================================================
