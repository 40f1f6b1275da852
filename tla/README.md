# RoveQA: a TLA+ verification

RoveQA runs user stories against a web application: a model plans browser
actions, a guard refuses what the run's policy forbids, and the acceptance
criteria are judged on what the browser shows.  This directory keeps the TLA+
modules of its backend and of the screen that watches a run, the TLC configurations
that check them on small instances, and the proofs TLAPS checks for every instance.  Paths below are
relative to `src/backend/src/agentic_qa` unless they begin with `src/`.

## The system

A run is created by `POST /runs`, by a rerun or by a schedule firing
(`application/commands/start_run.py`).  One transaction inserts the run, its
first event and its idempotency record; the workflow is started after it.  The
workflow (`infrastructure/workflows/temporal/workflows.py`) moves the run's row
through its status machine with one retried activity per move, runs *episodes*,
obeys pause, resume and cancel signals between them, and after completion runs
three learning activities.  An episode is itself an activity: it drives a
LangGraph graph that checkpoints after every node, in a fresh browser, and
commits one result per acceptance criterion before it returns the verdict.
What completed runs teach is consolidated into knowledge candidates and
projected into a graph database.  Clients follow a run over a websocket fed by
Redis streams.

| Component | State it keeps | Operations | What is hard | Correct when |
|---|---|---|---|---|
| Run aggregate `domain/runs/run.py` | status, verdict | `transition_to` | two writers of one row | only allowed moves, a verdict only where it belongs |
| Run workflow `workflows.py`, `transition_run.py` | pc, pause/cancel flags, episode, verdict found, retry attempt; row; `run_events` | status moves, episode, signals, continue-as-new, learning | lost acknowledgements, late attempts, signals mid-activity | row and workflow agree, the log explains the row, signals are honoured, runs settle |
| Run creation `start_run.py`, `routers/runs.py` | runs, idempotency records, workflows | create, rerun, scheduled firing, retry | concurrent requests on a key, a crash between commit and start | one run per key, no workflow without a row, pinned versions |
| Criterion verification `domain/qa/verification.py`, `services/criterion_verification.py` | results | deterministic and semantic check, `derive_verdict` | criteria met earlier, a stop before the goal | accuse the product only with reason, report what was seen |
| Agent episode `langgraph/graph.py`, `episode_runner.py`, `activities.py` | graph channels, checkpoint, browser page, results | nine graph nodes, resume, commit | a crash between any two nodes, checkpoints that lag, two attempts on one thread | side effects not repeated, budget kept, verdict re-derivable |
| Policy guard `domain/browser/policy_guard.py`, `guarded_browser.py` | none | allow, deny, redirect check | redirects seen only after the fact | what policy forbids is not executed |
| Exploration `domain/exploration/`, `graph.py` explore branch, `exploration_report.py` | frontier, visited states, counters, the stored map | record, take, stop, store, compare | loops, shorter ways found later, failed steps, budget, resume | each affordance once, no unexplained hole in a complete map, every page counted once, ends |
| Knowledge candidates `domain/knowledge/`, `consolidate_experience.py`, `record_memory_feedback.py` | candidate status and counters, feedback rows, idempotency record | consolidate, vote, contradict, report | two runs at once, reads without a lock, long histories | every count has its evidence, trust is earned, withdrawn stays withdrawn |
| Memory retrieval `compatibility.py`, `memory_context.py` | none | judge, offer | what a run does not know | nobody is offered both sides of a dispute |
| Knowledge graph projection `sync_knowledge_graph.py` | `graph_sync` backlog, the graph | enqueue, sync pass, rebuild, outage | stale reads, crash between project and mark | a synced entry is what PostgreSQL says, the backlog drains |
| Failure analysis `analyze_failures.py`, `domain/triage/` | clusters and members, hypotheses, idempotency record | group, store, ask, record | crash between two commits, an attempt that outlives its timeout, results that change | an analysed run is grouped, a replay adds nothing |
| Inference `infrastructure/inference/`, `cache/redis/semaphores.py` | breaker per process and endpoint, leases in Redis | route, reserve, post, retry, release, trip, probe | half-open races, leases that run out, holders that die | leases and calls agree, every call returns, no breaker stays open |
| Realtime events `event_publishing.py`, `streams.py`, `routers/realtime.py`, `src/frontend/.../run-events.ts`, `watch-run.ts` | log, stream, last sequence, client timeline and run | publish, replay, relay, reconnect, refresh | publication lost or overtaken, overlapping refreshes | the timeline is the log in its order, holes only where something was not published in order |
| Plans `compile_plan.py`, `import_plan.py`, `routers/plans.py` | stories, plan versions | create, compile, import | two requests that number or look up at once | an answered version is what was published |
| Schedules `temporal/schedules.py`, `routers/schedules.py`, `start_scheduled_run` | kept by Temporal | create, list, pause, resume, delete, fire, retry a firing | the look and the act are two calls; an attempt outlives its timeout | a call changes what it looked at, a firing makes one run |

The parts left out are listed with their reasons under *Not modelled*, and in
`PROJECT.json` under `components`.

## The modules

| Module | Models | Correspondence |
|---|---|---|
| `RunStatus` | `run.py` statuses, transitions, verdict rules | pure operators, shared by the next two |
| `RunStateMachine` | `Run.transition_to` seen from outside | the abstract specification of a run's row |
| `RunWorkflow` | `AgentRunWorkflow`, its status activities, signals | `pc` is the await the coroutine stands at; a step runs to the next await, because workflow code is deterministic between two.  `phase`, `attempt`, `read` are the activity attempt: it reads the row, commits the move and its event, is acknowledged.  `spent` counts what the bounds allow |
| `RunWorkflowProofs` | | its proofs |
| `RunStart` | `start_run`, `rerun_run`, firings | `pc[r]` is how far a request is: looked up, resolved, committed, workflow started |
| `Schedules` | `routers/schedules.py`, the schedule gateway, `ScheduledRunWorkflow` | `schedules` is what Temporal holds, `calls[c]` what a request saw and is about to do, `firings` the executions; it extends `RunStart`: an attempt of a firing is one of its requests, the firing its key |
| `Verification` | results, failure kinds, `derive_verdict` | pure operators |
| `AgentEpisode` | `run_episode` and the planned branch of the graph | `node[a]` is the node attempt `a` runs next, `g[a]` the graph's channels, `saved` the newest checkpoint of the thread, `stored` the `criterion_results` |
| `AgentEpisodeProofs` | | its proofs |
| `PolicyGuard` | `policy_guard.py`, `run_policy.py`, the redirect check | pure operators, used by the next but one |
| `ExplorationMap` | page states, their signatures, `comparison.py` | pure operators; the digests that order signatures are a constant, so that what is proved holds for any of them |
| `Exploration` | the exploring branch of the graph, `frontier.py`, the stored map, `exploration_report.py` | `g.frontier` is the frontier's snapshot in the graph's channels, `stored` what `explored_states` and `exploration_runs` hold; an application is a record of what its pages offer and where its links and buttons lead |
| `StartsExplorationProofs` | | the proofs of `RunStart`, `Schedules` and `Exploration` |
| `MemoryRetrieval` | `compatibility.py` | pure operators, used by the next |
| `KnowledgeCandidate` | `consolidate_experience.py`, `record_memory_feedback.py`, `experience.py`, `feedback.py`, `reconciliation.py` | a transaction is a session with its row locks: `draft[w]` is what it has written and not committed, `read[q]` what a report read before it wrote, `claimed` the idempotency records |
| `KnowledgeCandidateProofs` | | its proofs |
| `KnowledgeSync` | `sync_knowledge_graph.py`, the `graph_sync_state` repository, the projection | `state`, `attempts`, `queue` are the columns of an entry (`queue` orders them by `updated_at`); `work[p]` is what pass `p` has read and not yet handled, `outcome[p]` what it is about to mark |
| `KnowledgeSyncProofs` | | its proofs |
| `FailureAnalysis` | `analyze_failures.py`, `deep_analysis.py`, `domain/triage/` | `pass[p]` is what an attempt of the activity holds between its three transactions; `clusters` and `hypotheses` are the tables, `Triage` the set of clusters a pass makes of what it read |
| `Inference` | `router.py`, `vllm/client.py`, `circuit.py`, `semaphores.py`, both gateways | `call[c]` is the await a coroutine stands at with the time left to it, `breaker` the breakers of the processes, `leases` the sorted set of Redis; `Tick` lets a unit of time pass |
| `InferenceProofs` | | its proofs |
| `RunView` | `timeline.ts` and what it promises | the abstract specification of a screen |
| `RealtimeEvents` | publication, stream, socket, client and screen | `socket` is the connection and its handler, `tab` the screen, `refreshes` the re-reads on their way |
| `RealtimeEventsProofs` | | its proofs |
| `Plans` | stories, `compile_story`, `import_plan`, the plan repository, `routers/plans.py` | `plans` is the table, `request[q]` what a request holds between its statements, `clock` the `now()` of its transaction |
| `PlansFailuresProofs` | | the proofs of `Plans` and `FailureAnalysis` |
| `MC...` | definitions the configurations give to the constants | |

**Atomicity.**  A transaction is one step, and so is a stretch of code without an
await on anything shared.  Where the code reads in one statement and writes in a
later one, the module has two steps with the value read in between in a
variable: `read` in `RunWorkflow`, `pinned` in `RunStart`, `g` against `saved`
in `AgentEpisode`, the batch of a pass in `KnowledgeSync`, `read` in
`KnowledgeCandidate`, `pass` in `FailureAnalysis`, `request` in `Plans`, `calls` in
`Schedules`.  Where a row is
locked by what a transaction wrote (a merge in `KnowledgeCandidate`), the lock is a guard
of the others' steps, and two that wait for each other are a deadlock with a victim.

**Refinement.**  Two specifications are shown to implement an abstract one: the row
of `RunWorkflow` implements `RunStateMachine` (checked and proved), and the screen of
`RealtimeEvents`, with `log <- durable` and `view <- tab.timeline`, implements `RunView`
(checked and proved): nobody who watches sees an event out of order, twice, or one that is not durable.

**Checkpoints.**  `checkpointer.py` leaves LangGraph's default durability: the
checkpoint of a node is written while the next one runs.  `Reach` therefore
either moves `saved` with the graph or leaves it where it was; only the end of
the graph waits.  A later write may overtake, never an earlier one.

**Stragglers.**  Temporal starts a new attempt when the old one times out; it
does not kill the old one.  `Spec` assumes dead means dead, and everything is
proved of it.  `StragglerSpec` and `HeartbeatSpec` add attempts that live on;
what then breaks is listed under *Disagreements*.

## What is checked

Each component has one passing run; a run that shows a disagreement checks one
property only.  Deadlock is checked in `inference` only: everywhere else a run that is
over, a client that has its answer and a backlog that is empty really do stop.

| Run | Instance | Shows |
|---|---|---|
| `run_workflow` | 5 status attempts, 2 learning attempts, 2 episodes per history, 3 episodes, 3 signals, 6 dying attempts, 1 lost acknowledgement | everything about one run, safety and liveness (59,501 states) |
| `run_start` | 3 requests, 2 keys, 2 plan versions | races, retries, reruns and crashes in run creation |
| `episode` | plans of two assertions (one storable, one not), 2 pages, 2 actions, 3 model calls, 1 recovery, 1 crash of worker or browser | an episode and its results (801,795 states) |
| `exploration` | 4 sites (cycles, buttons, a redirect out, a blank start), 3 policies, 3 earlier maps, 1 dead worker or failed page | an exploration, its map and the comparison (160,518 states) |
| `candidate` | 4 runs that agree, disagree or were judged by a model, 5 attempts, 1 failure, 1 report on the disputed fact | consolidation and feedback (167,111 states) |
| `knowledge_sync` | 2 candidates (one no node can be made of) in 2 environments, 2 passes, 2 changes, 1 rebuild, 1 failure, 2 attempts per entry, pages of 2 | the queue and the projection (116,706 states) |
| `failures` | 2 runs of 2 criteria, 2 attempts each, 1 crash, 1 attempt given up on, 1 cluster asked about | grouping and its two commits (938,487 states) |
| `inference` | 3 calls of one process, 2 endpoints, 1 slot, 2 attempts, breaker of 2 failures, 2 faults: the process dies, an await raises, Redis does not answer, loses its answer or is flushed | a model server that comes and goes, and so does Redis (104,204 states) |
| `realtime` | 4 events, 1 lost publish, 1 fault | watching a run (243,903 states) |
| `plans` | 3 requests on one plan id, 2 stories, 5 documents, compiled plans of at most 4 steps | publishing at once (1,032,856 states) |
| `schedules` | one schedule id, 2 projects, 4 calls, 2 firings of 2 attempts, 1 publication; 4 calls without a firing, 3 with one, 1 with two | calls that race on an id, firings that are retried (563,516 states) |
| `run_lost_ack` | | a disagreement, below |

The properties of a passing run, and why they are worth a run:

* `RunWorkflow`: `RowFollowsWorkflow` relates the coroutine's place to the row it
  wrote through retried activities; `JournalExplainsRow` says that retries leave
  no second event and no gap; `CancelledOnlyWhenAsked` and
  `VerdictIsLastReported` relate the row to the history of signals and episodes;
  `RowIsStateMachine` is the refinement of `RunStateMachine`;
  `CancelSettles`, `ResumeWakes`, `RunSettles` are about
  signals that arrive at any moment, above all while `paused` is being written.
* `RunStart`: `OneRunPerKey`, `SameKeySameRun` under concurrent requests,
  `WorkflowHasRow` across crashes, `RerunKeepsVersion` while versions are published.
* `AgentEpisode`: `VerdictRederivable` (with one row per criterion) across crashes and
  resumed attempts; `OneDecisionOneWrite`: a decision of the planner is at most one write on
  a page, wherever the worker dies around it (the same write decided again is another
  matter: `SideEffectNotRepeated` is refuted); `BlameIsEarned` on whom a failure is blamed:
  the product only at a reached goal, a known stop is blocked, the environment only if the
  last action failed and needs nothing of the page, after any sequence of proposals,
  refusals, denials, failures and recoveries; `WitnessedIsMet`; `DenialEndsEpisode`; `EpisodeReturns`.
* `Exploration`: `OfferedOnce` and `FrontierBalances` across crashes that lose a
  checkpoint; `HolesAreExplained` compares a map that calls itself complete with what the
  site and the budget allow to reach (a reference definition of reachability, `Within`),
  and what the comparison calls gone with it; `DeltaAccounts`; `ExplorationEnds`.
* `KnowledgeCandidate`: `CountersHaveEvidence` relates counters to feedback rows and
  idempotency records through lost updates; `TrustIsEarned`; `NeverBothBelieved`, which
  holds because a merge waits for the other belief's row lock before it scans for what it
  contradicts; `NoWayBack`, which names the one way back there is.
* `FailureAnalysis`: `AnalysedIsGrouped` while passes of two runs and two attempts of
  one interleave; `ReplayAddsNothing` for attempts that come back late from the model.
* `Inference`: `LeasesMatchCalls` across deaths, leases that run out, acquires and releases
  that fail or lose their answer, and flushes of Redis; `EveryCallReturns`,
  `NoBreakerStaysOpen` with probes, late failures and rejected requests.
* `RealtimeEvents`: `TimelineIsTheLog` (the refinement), `HolesWereMissed` (no handover
  between REST, replay and relay, and no reconnect, loses an event), `NobodyListensInVain`.
* `Plans`: `AnsweredIsStored` while requests compute one number, or find one missing.
* `Schedules`: `ActsOnWhatItSaw` relates a change to the look that allowed it, while others
  delete and create under the same id; a pause reads the schedule again and writes the
  whole of it back, two calls of Temporal and so two steps; `OneRunPerFiring` while attempts of two firings
  time out, go on, lose their acknowledgement and are retried.
* `KnowledgeSync`: `SyncedIsProjected` relates queue, graph and PostgreSQL and says
  exactly which overlaps are harmless; its history variable `raced` is set when
  a candidate is changed, read by a second pass or cleared while a pass holds
  it, and forgotten when the candidate is queued anew.  `EntryLeavesBacklog` is
  the draining of the queue that remains true: attempts are used up, and a page
  full of entries without any left starves the others.

`TypeOK` is not among the properties of the runs, which are kept for what could break; it
holds on the same instances, those of `RunWorkflow` and `RunStart` are proved, and the
invariants of the other proofs begin with types of their own.  The typing that another
property needs is a conjunct of that property (`FrontierBalances`, `LeasesMatchCalls`).

**Bounds.**  The real retry limits (5 and 2) are used as they are, because a run
whose attempts are exhausted is one of the interesting cases: 6 dying attempts
exhaust those of one transition, alone or together with a lost acknowledgement and the
refusals that follow, and leave one for another place.  `EPISODES_BEFORE_CONTINUE_AS_NEW`
is 2 instead of 200, and a third episode crosses the history boundary.  Three
signals are enough for pause, resume and cancel in any order.  Three requests
are two that race on a key and one that reruns or reuses it.  In the episode the planner may propose any kind of
action, one of each: `navigate`, `back`, what asserts or captures the page as it is (`check`), a
key (`press`, a write that needs no element), what reads an element (`look`), a write on one
(`click`), and one the policy refuses (`leave`); a navigation or a write may land outside it.  Two
actions are a navigation and a write, or the same write decided twice; three model calls
are those and the decision that nothing is left, one recovery is one repaired failure and one
given up on, and a policy's budget is reached from both sides.  Two
passes are one that overlaps another or a rebuild, and the attempts of an entry
are scaled down to 2 so that the entry of the unwritable candidate uses them up.
In the exploration a budget of 8 actions is
more than the sites offer and one of 3 is less, depths 1, 2 and the default 3 cut the
site in different places, and 4 affordances per page make the page that offers 6 lose
some.  Three supporting runs reach trust, a fourth disagrees, and r3's second attempt is
Temporal's retry.  One lost publish beside one reconnect is the
smallest history in which a client asks again for less than it misses; four events
leave room for one before, one between and one after.  Time is scaled down in `Inference`
with its order kept: a lease of 2 units, attempts of 1, a backoff of 1, a cooldown of 1, so
that two attempts and the backoff outlast the lease as they do in the code.  Two faults are
two deaths, a flush between two calls, or an acquire and a release that both fail.
Pages of 100 and 500 events are used as they are and not filled, and neither is the batch
of failures an analysis reads: a run has a handful.
A call on a schedule, its rival's deletion and re-creation and the creation before them are
four calls; two firings beside one call are enough for a key to be mistaken.
History variables that would grow saturate one above the limit they are compared with.

**Fairness.**  `WF_vars(Worker)`, `WF_vars(EpisodeReturns)` and
`WF_vars(LearningEnds)` in `RunWorkflow`: workers poll their queue for as long
as they live, Temporal re-dispatches an activity whose worker died, and each
call inside has its own timeout.  Signals are an operator's choice and are never
fair; neither are failures.  `WF_vars(Activity(a))` in `AgentEpisode` for the
same reason; failures are finite there (`MaxFailures`), and so are they in every
bounded liveness property.  `KnowledgeSync` assumes less: `WF_vars(\E p : Drain(p))`, some pass is
alive, because every completed run starts one; a given pass may stand still for
ever.  In `Inference`, `WF_vars(Tick)` and `WF_vars(Asking(c) \/ Progress(c))`: time
passes, a process that is alive goes on, and there is always another run that asks.
`Exploration` needs no `FairSpec` of its own: weak fairness of the episode's steps is part
of its `ExplorationSpec`.  `CancelSettles`, `ResumeWakes` and `RunSettles` except a
workflow one of whose transitions used up its five attempts (`AttemptsExhausted`), whatever
took them: an outage, or a commit whose acknowledgement was lost and whose retries are
refused.  They say that nothing less does it; `EveryRunSettles` leaves the exception out,
and is refuted both ways.

## What is proved

For every value of the constants that their assumptions allow.

* `RunWorkflowProofs`: `TypeCorrect`; then the inductive invariant
  `RowInv` = `TypeOK`, `AttemptSeesRow` (an attempt that has read and not written
  holds the row's status, since it is the only writer), `RowFollowsWorkflow`
  (extended to the places where an activity is in flight: the row is where the
  workflow left it, or already where it is going), `CancelComesFromSignal` (a
  cancel flag, and every place of the cancelling branch, has a signal behind it)
  and `CancelledOnlyWhenAsked`.  `RowFollowsWorkflow` alone is not inductive: a
  step out of a transition needs to know what the attempt had read.  From
  `RowInv`: `RowFollows`, `CancelIsAsked`, `RowImplementsStateMachine` (each step
  is a `TransitionTo` or a stutter) and `JournalExplains` (every write appends
  one legal move from what the row held).  `VerdictIsReported` adds `FoundIsReported`
  (what the first history has found is what was reported, until continue-as-new forgets it
  on the way into a later episode) and `CompletedHasFound`.
* `StartsExplorationProofs`, of run creation: `StartTypeCorrect`; `StartInv` = `TypeOK`, `StagesAgree`
  (what each stage of a request implies for rows, claims and answers),
  `OneRunPerKey`, workflows belong to rows, `AnswersRest` (an answer is given by
  a request that is over), `PinsAgree` (a rerun copied its source's pin, and
  pins of committed runs no longer change).  From it: `OneRun`,
  `WorkflowsHaveRows`, `SameKey`, `RerunIsPinned`.

  Of schedules: `SchedulesChangeOwned` (`ActsOnWhatItSaw`), from `Provenance`: a schedule
  bears the name of the call that created it and is of the project that call was for, what a
  pause holds to write back was there and vouched for in the same way, and a
  call that may act saw one that was its own project's.  `FiringsAreRequests`: a
  behaviour of `Schedules` is one of `RunStart`, so that all of the above holds of firings
  too; with `FiringsAgree` (an attempt that was sent asks for its firing's key and plan) and
  `FiringsTyped`, `FiringsMakeOneRun` (`OneRunPerFiring`) follows from one run per key.

  Of explorations: `OffersAreTakenOnce` (`OfferedOnce`), `FrontiersBalance` and
  `DeltasAccount`, from `EpisodeInv`.  It says what the graph's channels are worth
  (`ChannelsOK`, above all `FrontierOK`: taken and queued entries together are as many as
  were ever offered, no key is queued twice, the queue is in its order and nothing in it is
  deeper than the policy goes), of the attempt **and** of its newest checkpoint, since the
  next worker starts from there; and that every affordance that was executed, unless a
  lost checkpoint excuses it, is one the channels know to be taken (`SettledIn`).
  `FrontierBalances` alone says nothing of a checkpoint, and a resumed attempt would break
  it.  The operators have lemmas of their own: where an insertion by priority puts an entry
  (`InsertPlaces`), that offering, recording and taking keep the books (`OfferKeeps`,
  `EnqueueKeeps`, `RecordKeeps`, `TakeKeeps`), that an application is closed as it is read
  (`ReadSitesAreOK`), and that the greedy pairing of two maps pairs no state twice and
  leaves none that has a partner (`ChangedAccounts`).  Assumed are finite sites whose
  links and buttons lead to pages of theirs (`ExplorationAssumption`), and digests that tell
  signatures apart (`MapAssumption`).

  `CompleteMapsAreWhole` (`HolesAreExplained`) says that the exploration is a complete
  search, from `SearchInv`.  As long as no page was missed, whatever a page on the map offers
  and the run may take is in the queue, on its way in the browser, just reached, or leads to
  a page on the map that is no farther than one step more (`AllFollowed`); nothing in the
  queue is nearer than where the search is (`Walked`), so that a page is met by a shortest way
  first and what `Record` does for a shorter one is never needed; and a worker that dies
  after the end of the graph starts over with that graph's frontier.  When the queue is
  empty, what is in reach is on the map by induction over the steps (`ClosedIsWhole`).  Every
  node that leaves a page unseen sets `gap`, and so does a death in the middle of the graph.
  The theorem is about applications whose pages look the same only if they offer the same and
  their buttons lead to the same places (`PagesAgree`): two pages of one signature are one
  state of the map (`state.py`), and what lies behind the second is never looked for.
  `MCExploration` assumes the same of its applications, so that TLC evaluates it.
* `PlansFailuresProofs`, of plans: `AnsweredStays`, from `PlansInv` = every request holds what its place
  needs (a plan whose keys are the ones it was written with, and a version once it has
  one) and `AnsweredIsStored`.  The argument is that rows are only added (`RowsStay`) and
  that what a row gives back hashes like what was put into it (`StoredIsSame`), which
  rests on `PlansAssumption`: JSONB reorders keys, it neither drops nor invents one.

  Of failure analysis: `ReplaysAddNothing` (`ReplayAddsNothing`), from `AnswersInv`: what a
  pass holds are answers of its own run, which the transaction that stores them appends
  only while the run has no idempotency record.  `AnalysedStaysGrouped` (`AnalysedIsGrouped`), from
  `GroupedInv`: between its transactions a pass carries every failure of its run from the
  results to the signals and from there to the clusters (`PassesCarry`), and a run that is
  done has all of them stored (`DoneStored`), which a later merge keeps.  It is proved for
  batches that hold every report (`Cardinality(Runs) * Longest <= BatchLimit`): beyond
  `FAILURE_BATCH_LIMIT` failures a pass reads the newest runs only.

* `AgentEpisodeProofs`: `EpisodeInv` says what the graph's channels are worth at each of
  its nodes (`Sound`: a refusal is pending only where it is looked at, an episode that goes
  to be judged stopped or arrived, the kind of a failure belongs to the last step, the
  results answer the plan and say no more than the run did), of the attempt **and** of its
  newest checkpoint, since a resumed attempt starts from there; and that what is stored is
  what the attempt returns.  From it `RederivedVerdict`, `WitnessedStaysMet`,
  `DeniedIsOver` and the three parts of `EarnedBlame`, for every kind of action.  `OneWritePerDecision`
  (`OneDecisionOneWrite`) needs one more conjunct, `WriteIsBehind`: an attempt that is to act
  on a decision whose write was done already was resumed there, and holds a blank page or
  none.  It is an action property: the invariant makes its step impossible.  It does not
  reach beyond the decision: what fails on the blank page may be planned again.
* `KnowledgeSyncProofs`: `SyncedStaysProjected`, from `SyncInv`: what a working pass has
  read is what PostgreSQL says, and what it is about to call synced is in the graph, each
  unless the candidate is marked `raced`.  `SyncedIsProjected` alone says nothing of a pass
  between its read and its mark.  It assumes that the candidates are finitely many.
* `KnowledgeCandidateProofs`: three layers of one invariant.  `WorkInv`: what a transaction
  holds at each of its places, that one attempt claims a run, that nobody writes a row
  another has written and not committed.  `CountInv`: not only the rows are justified by
  the evidence on record, but also every draft by that evidence and the ballot it would
  commit with it, and every read by evidence that does not go away; hence `CountsAreEvidence`
  and `TrustHasItsRuns`.  `BeliefInv`: of two workers that would believe opposed facts, the
  one that scanned second withdraws the other's; hence `BeliefsAgree`.  `WithdrawnIsNotRevived`
  is the action property.  It assumes that reporters are no workers.
* `InferenceProofs`: `LeasesAreCalls`, from `SlotInv`: a call on a server has a lease under its token
  until that runs out or Redis is flushed, a lease is that of a call on its way or one whose
  token is lost (its process died, or its acquire or release raised), and Redis has no
  more leases of an endpoint than slots.
  The bound on calls whose lease is still good follows because different holders have different leases
  (an injection of finite sets).  It assumes that the endpoints are a finite list.
* `RealtimeEventsProofs`: `StoryIsTheLog`, the refinement of `RunView`: `ApplyIs` shows that
  merging a page into a timeline sorts it (`OrderedIs`: a finite set of numbers, ranked, is
  its ordered sequence).  `SocketsEnd`.  `NoHandoverLoses` (`HolesWereMissed`), from `RelayInv`:
  every event below the screen's newest, or below the handler's place, is shown, on its
  way on the wire, or gone for good.  It is proved under `Total <= SocketPage`: a replay is
  one page of 500 events (`routers/realtime.py`) and nothing asks for the next, so that a
  client that reconnects more than a page behind misses the rest of the backlog until it
  is reloaded (last line of `RealtimeRefuted.cfg`).

Proved of each module's specification without stragglers (`Spec`, `ExplorationSpec`,
`SchedulesSpec`, `FailuresSpec`), in which an attempt that was given up on is dead; in
`KnowledgeCandidate`, `KnowledgeSync`, `RunStart`, `Schedules` and `FailureAnalysis` these
already have attempts that overlap.

Recursive functions (the triage, the frontier's insertions, the pairing of maps) are
reasoned about by an induction that is stated without a predicate as a parameter: a set of
numbers that holds 0 and the successor of each of its members up to a bound holds all of
them (`Climb`).  Each such function first gets a lemma that says what it is at its base and at
a step (`EnqueueSteps`, `ParseSteps`, `AmongSteps`, `ChangedSteps`, `WithinSteps`).

What stays with TLC:

* Liveness under fairness, and everything that asks for `ENABLED`: `CancelSettles`,
  `ResumeWakes`, `RunSettles`, `EpisodeReturns`, `EntryLeavesBacklog`, `EveryCallReturns`,
  `NoBreakerStaysOpen`, `ExplorationEnds`.  The prover has no rule for fairness.  Every other
  property of a passing run is stated by a theorem.

## Disagreements between the code and what it says

Each has a property that states the claim, quoted there with its place, and a
configuration in which TLC finds it violated.  `RunLostAck.cfg` is a run of its own; a
`...Refuted.cfg` holds all of a module's, one of them active and the others commented out
beside the constants they need; those of `Plans` and `Schedules` are commented out at the
end of the configuration of their run.  The findings in `PROJECT.json`
tell each story with its lines.

| Configuration | Property | What happens |
|---|---|---|
| `RunLostAck` | `EveryRunSettles` | the retry of a committed move is refused by the aggregate five times; the workflow fails and the row says running for ever |
| `RunLostAck`, with `MaxLostAcks = 0` and `MaxFailures = 5` | `EveryRunSettles` | PostgreSQL away for five attempts of one move: the workflow fails and the row stays queued, running, paused or cancelling |
| `RunRefuted` | `RowIsStateMachine` | a timed-out attempt writes over a row that has moved on |
| | `CancelNotForgotten` | continue-as-new drops a pending cancel |
| | `NoEpisodeAfterCancel` | a cancel during the resume move does not stop the next episode |
| `RunStartRefuted` | `AnsweredRunHasWorkflow` | a crash before the workflow start leaves a queued run nothing starts |
| | `RetryIsNoConflict` | a retry that overlaps its first request is answered 409 |
| | `RerunKeepsMode` | the rerun of an exploration does not explore |
| `EpisodeRefuted` | `FinishedNotRepeated` | a finished graph is started over when its results were not committed |
| | `AccusedOnlyOnServedPage` | a resumed judge looks at about:blank |
| | `ActionsWithinPolicy` | actions whose checkpoint was lost are not counted |
| | `ModelCallsWithinPolicy` | the judge's calls are not counted |
| | `EveryEpisodeReturns` | results that cannot be stored are retried for ever |
| | `SideEffectNotRepeated` | a write that was done and whose checkpoint was lost fails on the blank page of the resumed attempt, is planned again and done again; nothing calls `perform_once` |
| | `StalledIsNotDenied` | a navigation that times out leaves the browser where it was, and the redirect check calls that a denial |
| | `EnvironmentIsNavigation` | any failed action that needs no element is blamed on the environment |
| | `VerdictRederivable` | the attempt given up on replaces the stored results |
| `ExplorationRefuted` | `ExhaustedIsWhole` | what lies behind a failed step is missing from a map that says complete |
| | `ReturnedIsMapped` | a denial or three failed steps end the episode without storing its map |
| `CandidateRefuted` | `WithdrawnStaysWithdrawn` | a report read before a withdrawal is saved over it |
| | `ContradictedInContext` | a run under another policy withdraws what was learned under this one |
| | `OfferedIsReliable` | a sighting promotes again what failed more often than it worked |
| | `ExactWhenKnownMatches` | a verdict is exact only for a run that knows every dimension |
| `KnowledgeRefuted` | `QueueNamesWhatIsMissing` | a change made while a pass holds the old content is marked synced |
| | `QueueNamesWhatIsMissing` | a rebuild, or a clear whose answer was lost, leaves synced entries over an empty graph |
| | `QueueDrains` | an outage uses up the attempts of entries nothing is wrong with |
| `FailuresRefuted` | `OutageIsOneProblem` | an outage is one independent problem per criterion |
| | `GrownIsAskedAgain` | growth is measured against the last pass, not the last explanation |
| | `RetryAsksAgain` | to the retry the clusters its predecessor stored have not grown |
| | `MembersAreFailures` | a member points at a result that an episode run again has replaced |
| `InferenceRefuted` | `LeaseOutlastsCall` | two attempts and a backoff outlast the lease of their slot; a flush ends it at once |
| | `NothingIsRaised` | a release that fails raises out of the gateway instead of the typed answer |
| | `HalfOpenLetsOneThrough` | the probe closes the breaker for everybody |
| | `NothingIsSentWhileOpen` | the breaker is not asked after the wait for a slot or between attempts |
| | `AnsweringIsNoFailure` | a rejected request or a body that is not JSON counts as a transport failure |
| `RealtimeRefuted` | `DroppedIsRepaired` | a connected client never reads what was not published, or overtaken |
| | `SettledIsCurrent`, `ShownNeverOlder` | the answer that arrives last wins, not the newest |
| | `HolesWereMissed` | with more events than a page: the rest of a replay is never asked for |
| `Plans` | `ResubmittedIsSame` | an identical document is refused as different content |
| | `NextVersionIsFree` | after two overlapping compiles every later number is taken |
| `Schedules` | `ActsWithinProject` | a schedule deleted and created anew by another project, between the look and the act, is paused or deleted; one changed while a pause holds it is written over |
| | `CompletedFiringRuns` | a crash before the workflow start, and the retry of the firing finds its key and completes without a workflow |
| | `ListingIsAnswered` | a schedule that was not created here makes every listing fail |

Two facts the modules make visible without a property: nothing navigates an exploring
browser, which starts on about:blank, so that as it is deployed an exploration maps
nothing and says complete; and the exploration's clock restarts with every resume.

## Not modelled

* Redaction, prompts, schemas, the text of observations, reports and hypotheses: text.
* Artifacts and evidence files: named by their digest, written before the index row; the
  browser's pages: what an action does to a page is a choice of the environment.
* Recovery points, `perform_once` and the Redis lock manager: nothing in the repository
  reads the first or calls the others.
* Queries, HTTP schemas, error mapping, wiring, observability, migrations, the views of
  the frontend and the CLI's output: they read and render, or run once.
* The search and the ranking of the knowledge graph: external.
* The Redis stream loses nothing it was given in `RealtimeEvents`: that it is trimmed at
  about 1000 entries (`streams.py`) and may be flushed is left out; what was never published
  stands for what a relay misses.
* A model server that sends its answer byte by byte: the timeout of the HTTP client bounds
  each read and not the call, while `Phases` bounds the call.

## Plan

What is left: the composition of `RunWorkflow` with `AgentEpisode` over one run's results, if
a question arises that neither answers alone.
