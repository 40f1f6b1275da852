---------------------------- MODULE RunWorkflow ----------------------------
(***************************************************************************)
(* One run from the moment its workflow starts: AgentRunWorkflow            *)
(* (infrastructure/workflows/temporal/workflows.py), the activity attempts  *)
(* that write its row and its event log (activities.py, transition_run.py), *)
(* and the signals the API sends it (gateway.py, routers/runs.py).  Runs    *)
(* share nothing, so one run is the whole component.                        *)
(*                                                                          *)
(* Workflow code runs atomically between two awaits: pc is the await it     *)
(* stands at, and every decision it takes on the way to the next await is   *)
(* part of the step that ends the previous one.  What can fail is the       *)
(* activity: an attempt may die before its commit, may commit and lose its  *)
(* acknowledgement, or may be timed out by Temporal while it still runs.    *)
(***************************************************************************)
EXTENDS RunStatus, Naturals, Sequences

CONSTANTS
  MaxAttempts,          \* _STATUS_ACTIVITY_RETRY.maximum_attempts (5)
  MaxLearningAttempts,  \* _CONSOLIDATION_RETRY.maximum_attempts (2)
  EpisodesPerHistory,   \* EPISODES_BEFORE_CONTINUE_AS_NEW (200)
  MaxEpisodes,          \* bound: episodes a run may take
  EpisodeVerdicts,      \* what an episode may report, "none" without a plan
  MaxSignals,           \* bound: signals delivered to the workflow
  MaxFailures,          \* bound: attempts that die before their commit
  MaxLostAcks,          \* bound: commits whose acknowledgement is lost
  MaxStragglers         \* bound: timed-out attempts that still write

ASSUME WorkflowAssumption ==
  /\ MaxAttempts \in Nat \ {0}
  /\ MaxLearningAttempts \in Nat \ {0}
  /\ EpisodesPerHistory \in Nat \ {0}
  /\ MaxEpisodes \in Nat \ {0}
  /\ EpisodeVerdicts \subseteq CompletedVerdicts \cup {"none"}
  /\ MaxSignals \in Nat
  /\ MaxFailures \in Nat
  /\ MaxLostAcks \in Nat
  /\ MaxStragglers \in Nat

VARIABLES
  status, verdict,      \* the row of the run
  journal,              \* run_events of the run, in sequence order
  pc,                   \* the await the workflow stands at
  phase,                \* the current attempt of the awaited activity
  attempt,              \* its number, from 1
  read,                 \* the status that attempt read, before it writes
  stragglers,           \* timed-out attempts that have read and not yet written
  paused, cancelRequested, episode, found,  \* the workflow's own fields
  cancelAsked,          \* history: a cancel reached the live workflow
  reported,             \* history: the last verdict any episode reported
  spent                 \* how much of each bound is used up

row == <<status, verdict, journal>>
activity == <<phase, attempt, read>>
flags == <<paused, cancelRequested>>
history == <<cancelAsked, reported>>
vars == <<row, pc, activity, stragglers, flags, episode, found, history, spent>>

-----------------------------------------------------------------------------
\* The awaits of run() and _finish_cancelled(), named for what they wait for.
Transitioning == {"starting", "pausing", "parking", "resuming", "cancelling",
                  "closing", "completing"}
Learning == {"consolidating", "syncing", "analysing"}
Over == {"done", "failed"}
Places == Transitioning \cup Learning \cup Over \cup {"episode", "waiting"}

Target == [p \in Transitioning |->
  CASE p \in {"starting", "resuming"} -> "running"
    [] p = "pausing"    -> "pausing"
    [] p = "parking"    -> "paused"
    [] p = "cancelling" -> "cancelling"
    [] p = "closing"    -> "cancelled"
    [] OTHER            -> "completed"]

\* A bug of the workflow: a run that verified nothing is reported as passed.
Final_PassesByDefault(v) == IF v = "none" THEN "passed" ELSE v

\* verdict or "inconclusive": a run that verified nothing never passes.
Final(v) == IF v = "none" THEN "inconclusive" ELSE v

VerdictSent(p) ==
  CASE p = "completing" -> Final(found)
    [] p = "closing"    -> "cancelled"
    [] OTHER            -> "none"

\* Bugs of the loop: a pause that parks the workflow before the row says so, one
\* that ends the run.
LoopHead_SkipsPausing(cancel, pause) ==
  IF cancel THEN "cancelling" ELSE IF pause THEN "waiting" ELSE "episode"
LoopHead_CancelsOnPause(cancel, pause) ==
  IF cancel \/ pause THEN "cancelling" ELSE "episode"

\* The top of the while loop, given the two flags.
LoopHead(cancel, pause) ==
  IF cancel THEN "cancelling" ELSE IF pause THEN "pausing" ELSE "episode"

\* A bug of the loop: waiting without looking at the condition first.
AfterParking_MissesWakeup == "waiting"

\* wait_condition returns at once when the pause was taken back meanwhile.
AfterParking ==
  IF cancelRequested THEN "cancelling" ELSE IF paused THEN "waiting" ELSE "resuming"

\* Where run() awaits next once the activity it awaits at p has returned.
After(p) ==
  CASE p = "starting"      -> LoopHead(cancelRequested, paused)
    [] p = "pausing"       -> "parking"
    [] p = "parking"       -> AfterParking
    [] p = "resuming"      -> "episode"
    [] p = "cancelling"    -> "closing"
    [] p = "completing"    -> "consolidating"
    [] p = "consolidating" -> "syncing"
    [] p = "syncing"       -> "analysing"
    [] OTHER               -> "done"

\* Awaiting an activity schedules its first attempt.
GoTo(p) ==
  /\ pc' = p
  /\ phase' = IF p \in Over \cup {"waiting"} THEN "idle" ELSE "scheduled"
  /\ attempt' = 1
  /\ read' = "none"

Limit(p) == IF p \in Learning THEN MaxLearningAttempts ELSE MaxAttempts

\* A bug of the retry policy: no second attempt.
Retry_Never == GoTo("failed")

\* Temporal's retry policy: another attempt, or the workflow itself fails.
Retry ==
  IF attempt < Limit(pc)
  THEN /\ phase' = "scheduled"
       /\ attempt' = attempt + 1
       /\ read' = "none"
       /\ UNCHANGED pc
  ELSE /\ pc' = "failed"
       /\ phase' = "idle"
       /\ read' = "none"
       /\ UNCHANGED attempt  \* the number of the last one

Spend(bound, limit) ==
  /\ spent[bound] < limit
  /\ spent' = [spent EXCEPT ![bound] = @ + 1]

-----------------------------------------------------------------------------
Moved(from, to, v) == [from |-> from, to |-> to, verdict |-> v]

Init ==
  /\ status = "queued"
  /\ verdict = "none"
  /\ journal = << Moved("none", "queued", "none") >>  \* run.created
  /\ pc = "starting"
  /\ phase = "scheduled"
  /\ attempt = 1
  /\ read = "none"
  /\ stragglers = {}
  /\ paused = FALSE
  /\ cancelRequested = FALSE
  /\ episode = 0
  /\ found = "none"
  /\ cancelAsked = FALSE
  /\ reported = "none"
  /\ spent = [b \in {"signals", "failures", "lostAcks", "stragglers"} |-> 0]

-----------------------------------------------------------------------------
\* transition_run, in the worker.  The row is read without a lock.
AttemptReads ==
  /\ pc \in Transitioning
  /\ phase = "scheduled"
  /\ phase' = "read"
  /\ read' = status
  /\ UNCHANGED <<row, pc, attempt, stragglers, flags, episode, found, history, spent>>

\* A bug of the use case: the verdict is left out of the row it belongs to.
Write_ForgetsVerdict(from, target, v) ==
  /\ status' = target
  /\ UNCHANGED verdict
  /\ journal' = Append(journal, Moved(from, target, ResolvedVerdict(target, v)))

\* A bug of the use case: the event is appended only for terminal moves.
Write_SkipsEvent(from, target, v) ==
  /\ status' = target
  /\ verdict' = ResolvedVerdict(target, v)
  /\ journal' = IF target \in TerminalStatuses
                THEN Append(journal, Moved(from, target, verdict')) ELSE journal

\* The status, its verdict and its event commit together: from is the status the
\* attempt read, which is what it judged the move by.
Write(from, target, v) ==
  /\ status' = target
  /\ verdict' = ResolvedVerdict(target, v)
  /\ journal' = Append(journal, Moved(from, target, verdict'))

AttemptCommits ==
  /\ pc \in Transitioning
  /\ phase = "read"
  /\ CanTransition(read, Target[pc], VerdictSent(pc))
  /\ Write(read, Target[pc], VerdictSent(pc))
  /\ phase' = "committed"
  /\ UNCHANGED <<pc, attempt, read, stragglers, flags, episode, found, history, spent>>

\* RunTransitionError is an exception like any other to the retry policy.
AttemptRejected ==
  /\ pc \in Transitioning
  /\ phase = "read"
  /\ ~CanTransition(read, Target[pc], VerdictSent(pc))
  /\ Retry
  /\ UNCHANGED <<row, stragglers, flags, episode, found, history, spent>>

\* The worker dies, or PostgreSQL refuses, before the commit: all rolled back.
AttemptDies ==
  /\ pc \in Transitioning
  /\ phase \in {"scheduled", "read"}
  /\ Spend("failures", MaxFailures)
  /\ Retry
  /\ UNCHANGED <<row, stragglers, flags, episode, found, history>>

\* The worker dies, or the commit's outcome is lost, after the commit.
AckLost ==
  /\ pc \in Transitioning
  /\ phase = "committed"
  /\ Spend("lostAcks", MaxLostAcks)
  /\ Retry
  /\ UNCHANGED <<row, stragglers, flags, episode, found, history>>

AttemptAcked ==
  /\ pc \in Transitioning
  /\ phase = "committed"
  /\ GoTo(After(pc))
  /\ UNCHANGED <<row, stragglers, flags, episode, found, history, spent>>

\* The 30 s start_to_close_timeout fires while the attempt, stalled between its
\* read and its write, is still alive in a worker.
AttemptOutlivesTimeout ==
  /\ pc \in Transitioning
  /\ phase = "read"
  /\ CanTransition(read, Target[pc], VerdictSent(pc))
  /\ Spend("stragglers", MaxStragglers)
  /\ stragglers' = stragglers \cup {Moved(read, Target[pc], VerdictSent(pc))}
  /\ Retry
  /\ UNCHANGED <<row, flags, episode, found, history>>

\* save() writes the attributes it holds: no version, no lock, no second look.
StragglerWrites == \E s \in stragglers :
  /\ Write(s.from, s.to, s.verdict)
  /\ stragglers' = stragglers \ {s}
  /\ UNCHANGED <<pc, activity, flags, episode, found, history, spent>>

-----------------------------------------------------------------------------
\* run_episode returns.  Its own retries are unlimited and change nothing here.
EpisodeEnds(moreWork, v) ==
  /\ pc = "episode"
  /\ episode' = episode + 1
  /\ reported' = IF v = "none" THEN reported ELSE v
  /\ LET seen == IF v = "none" THEN found ELSE v IN
     \/ /\ ~moreWork
        /\ found' = seen
        /\ GoTo("completing")
        /\ UNCHANGED flags
     \/ /\ moreWork
        /\ episode' < EpisodesPerHistory
        /\ found' = seen
        /\ GoTo(LoopHead(cancelRequested, paused))
        /\ UNCHANGED flags
     \/ \* continue_as_new carries RunParams and nothing else.
        /\ moreWork
        /\ episode' >= EpisodesPerHistory
        /\ found' = "none"
        /\ paused' = FALSE
        /\ cancelRequested' = FALSE
        /\ GoTo("episode")
  /\ UNCHANGED <<row, stragglers, cancelAsked, spent>>

\* The learning activities swallow their own failures: they return or they die.
LearningEnds ==
  /\ pc \in Learning
  /\ GoTo(After(pc))
  /\ UNCHANGED <<row, stragglers, flags, episode, found, history, spent>>

LearningDies ==
  /\ pc \in Learning
  /\ Spend("failures", MaxFailures)
  /\ Retry
  /\ UNCHANGED <<row, stragglers, flags, episode, found, history>>

-----------------------------------------------------------------------------
\* Signals reach a live workflow; to one that is over the gateway sends a no-op.
Pause ==
  /\ pc \notin Over
  /\ Spend("signals", MaxSignals)
  /\ paused' = TRUE
  /\ UNCHANGED <<row, pc, activity, stragglers, cancelRequested, episode, found, history>>

Resume ==
  /\ pc \notin Over
  /\ Spend("signals", MaxSignals)
  /\ paused' = FALSE
  /\ IF pc = "waiting" THEN GoTo("resuming") ELSE UNCHANGED <<pc, activity>>
  /\ UNCHANGED <<row, stragglers, cancelRequested, episode, found, history>>

\* A bug of the workflow: wait_condition watches the pause flag alone.
Cancel_LeavesWaiting ==
  /\ pc \notin Over
  /\ Spend("signals", MaxSignals)
  /\ cancelRequested' = TRUE
  /\ cancelAsked' = TRUE
  /\ UNCHANGED <<row, pc, activity, stragglers, paused, episode, found, reported>>

Cancel ==
  /\ pc \notin Over
  /\ Spend("signals", MaxSignals)
  /\ cancelRequested' = TRUE
  /\ cancelAsked' = TRUE
  /\ IF pc = "waiting" THEN GoTo("cancelling") ELSE UNCHANGED <<pc, activity>>
  /\ UNCHANGED <<row, stragglers, paused, episode, found, reported>>

-----------------------------------------------------------------------------
Worker == AttemptReads \/ AttemptCommits \/ AttemptRejected \/ AttemptAcked

EpisodeReturns ==
  \E moreWork \in BOOLEAN, v \in EpisodeVerdicts :
    /\ moreWork => episode + 1 < MaxEpisodes
    /\ EpisodeEnds(moreWork, v)

Signal == Pause \/ Resume \/ Cancel

Next ==
  \/ Worker
  \/ AttemptDies
  \/ AckLost
  \/ EpisodeReturns
  \/ LearningEnds
  \/ LearningDies
  \/ Signal

\* Every attempt Temporal gives up on is dead.
Spec == Init /\ [][Next]_vars

\* Workers keep polling and activities come back; operators owe nothing.
Fairness == WF_vars(Worker) /\ WF_vars(EpisodeReturns) /\ WF_vars(LearningEnds)

FairSpec == Spec /\ Fairness

\* What start_to_close_timeout really guarantees: a new attempt, not a dead old one.
StragglerSpec == Init /\ [][Next \/ AttemptOutlivesTimeout \/ StragglerWrites]_vars
-----------------------------------------------------------------------------
Entry == [from : Statuses \cup {"none"}, to : Statuses, verdict : VerdictOrNone]

TypeOK ==
  /\ status \in Statuses
  /\ verdict \in VerdictOrNone
  /\ journal \in Seq(Entry)
  /\ pc \in Places
  /\ phase \in {"idle", "scheduled", "read", "committed"}
  /\ attempt \in 1 .. (MaxAttempts + MaxLearningAttempts)
  /\ read \in Statuses \cup {"none"}
  /\ stragglers \subseteq Entry
  /\ paused \in BOOLEAN
  /\ cancelRequested \in BOOLEAN
  /\ episode \in Nat
  /\ found \in CompletedVerdicts \cup {"none"}
  /\ cancelAsked \in BOOLEAN
  /\ reported \in CompletedVerdicts \cup {"none"}
  /\ spent \in [{"signals", "failures", "lostAcks", "stragglers"} -> Nat]

\* The durable status and the workflow never drift apart: the agent works only
\* while the row says running, the workflow waits for an operator only while it
\* says paused, learns only from a completed run and returns only once the row
\* is terminal, whatever attempts died or were repeated on the way.
RowFollowsWorkflow ==
  /\ pc = "episode" => status = "running"
  /\ pc = "waiting" => status = "paused"
  /\ pc \in Learning => status = "completed"
  /\ pc = "done" => status \in {"completed", "cancelled"}

\* The event log explains the row: read in sequence order it is one unbroken
\* chain of moves the aggregate allows, from run.created to the status and
\* verdict the row holds now.  A retried attempt adds no second event.
JournalExplainsRow ==
  /\ journal # << >>
  /\ journal[1] = Moved("none", "queued", "none")
  /\ journal[Len(journal)].to = status
  /\ journal[Len(journal)].verdict = verdict
  /\ \A i \in 2 .. Len(journal) :
       /\ journal[i].from = journal[i - 1].to
       /\ journal[i].to \in AllowedTargets(journal[i].from)

\* Cancelling is never inferred from a failure, a disconnect or a finished run.
CancelledOnlyWhenAsked ==
  status \in {"cancelling", "cancelled"} => cancelAsked

\* A completed run carries the verdict of the last episode that reported one, and
\* inconclusive when none did (workflows.py:99, "Last episode wins"), as long as it
\* took a single workflow history: continue_as_new drops what was found before.
VerdictIsLastReported ==
  status = "completed" /\ episode <= EpisodesPerHistory =>
    verdict = IF reported = "none" THEN "inconclusive" ELSE reported

\* The row of the run, seen alone, behaves as its state machine says.
Machine == INSTANCE RunStateMachine WITH status <- status, verdict <- verdict
RowIsStateMachine == Machine!Spec

\* While the run has a live workflow, an accepted cancel is not forgotten.
CancelNotForgotten == cancelAsked /\ pc \notin Over => cancelRequested

\* "pause/cancel apply between episodes" (workflows.py:5): once the workflow
\* holds a cancel, no further episode begins.
NoEpisodeAfterCancel ==
  [][cancelRequested /\ pc # "episode" => pc' # "episode"]_vars

\* The workflow has failed because a transition was attempted as often as its retry
\* policy allows and none of the attempts was acknowledged: they died, committed and
\* lost the answer, or were refused because an earlier one had committed.  Nothing
\* else ends a workflow early, and nobody moves the row after it.
AttemptsExhausted == pc = "failed" /\ attempt = MaxAttempts

\* A cancel that reached the workflow ends the run, one way or the other, unless the
\* attempts of one of its transitions are exhausted: fewer failures never do it.
CancelSettles == cancelAsked ~> (status \in TerminalStatuses \/ AttemptsExhausted)

\* A resume is not missed, whenever it arrives: a run parked with its pause taken
\* back does not stay parked, unless it is paused again or the attempts of the
\* transition that would wake it are exhausted.
ResumeWakes ==
  (status = "paused" /\ ~paused) ~> (status # "paused" \/ paused \/ AttemptsExhausted)

\* A run whose workflow started ends or is parked waiting for an operator, unless the
\* attempts of one of its transitions are exhausted: EveryRunSettles is what that costs.
RunSettles ==
  (pc = "starting") ~> (status \in TerminalStatuses \cup {"paused"} \/ AttemptsExhausted)

\* "La operacion en curso, y nada mas ... el reintento deja exactamente una transicion
\* y un evento" (RECOVERY_MATRIX.md:27): an outage of PostgreSQL costs the operation in
\* flight, so whatever attempts it takes down the run still settles.
EveryRunSettles == (pc = "starting") ~> (status \in TerminalStatuses \cup {"paused"})
=============================================================================
