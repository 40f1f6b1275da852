---------------------------- MODULE AgentEpisode ----------------------------
(***************************************************************************)
(* One planned episode of a run: the activity run_episode (activities.py),  *)
(* the graph it drives (langgraph/graph.py), the checkpoints the graph      *)
(* leaves on its thread (episode_runner.py), the browser it acts on and the *)
(* criterion results it finally commits.                                    *)
(*                                                                          *)
(* A node of the graph is one atomic step.  The worker may die between any  *)
(* two, the browser may die under it, and Temporal may give up on an        *)
(* attempt that still runs and start another beside it: both then work on   *)
(* the same thread.  Temporal retries the activity without limit.           *)
(*                                                                          *)
(* A page is what it shows of the criteria that have a literal.  An action  *)
(* is one of the kinds that the graph, the policy and the browser tell      *)
(* apart; each stands for every action of its kind.                         *)
(***************************************************************************)
EXTENDS Verification, FiniteSets

CONSTANTS
  Plans,         \* the plans a run may be pinned to: the criterion of each assertion
  Hinted,        \* the criteria that have a literal to look for
  Pages,         \* pages of the application
  Shows,         \* which hinted criteria each page shows
  Writes,        \* RunPolicy.destructive_actions
  MaxActions,    \* RunPolicy.max_actions
  MaxModelCalls, \* RunPolicy.max_model_calls
  MaxRecoveries, \* MAX_RECOVERY_ATTEMPTS (2)
  MaxFailures     \* bound: workers and browsers that die

Criteria == UNION { { p[i] : i \in DOMAIN p } : p \in Plans }

ASSUME EpisodeAssumption ==
  /\ Plans \subseteq Seq(Criteria)
  /\ Hinted \subseteq Criteria
  /\ Shows \in [Pages -> SUBSET Hinted]
  /\ Pages \cap {"about:blank", "outside", "gone"} = {}
  /\ Writes \in BOOLEAN
  /\ MaxActions \in Nat \ {0}
  /\ MaxModelCalls \in Nat
  /\ MaxRecoveries \in Nat
  /\ MaxFailures \in Nat

VARIABLES
  plan,       \* the plan the run is pinned to
  node,       \* the node each attempt is about to run
  g,          \* the channels of each attempt's graph
  page,       \* the page in each attempt's browser
  awaited,    \* the attempt Temporal waits for
  saved,      \* the newest checkpoint of the run's thread
  stored,     \* criterion_results of the run
  verdict,    \* what the activity returned to the workflow
  executed,   \* history: actions sent to a browser, up to MaxActions + 1
  performed,  \* history: the write done since the planner was last asked
  lost,       \* history: the write an attempt died on before a checkpoint told of it
  failures    \* how much of MaxFailures is used up

attempts == <<node, g, page, awaited>>
history == <<executed, performed, lost>>
vars == <<plan, attempts, saved, stored, verdict, history, failures>>

-----------------------------------------------------------------------------
\* An attempt that Temporal gave up on takes the slot the next one leaves free.
Attempts == {1, 2}
Other(a) == 3 - a

Nodes == {"observe", "plan", "act", "verify", "checkpoint", "recover",
          "verify_criteria", "close_episode"}

\* By kind: "navigate" to an allowed origin; "leave", what the policy refuses whatever
\* it says of writes; "back" in the history; "click", "fill" and the other writes on an
\* element; "look", what reads an element; "press", a key; "check", what asserts or
\* captures the page as it is.
Actions == {"navigate", "leave", "back", "click", "look", "press", "check"}
NeedsTarget == {"click", "look"}
WriteActions == {"click", "press"}
Navigations == {"navigate", "back"}
Types == {"navigation", "element", "page"}

Steps == {"none", "succeeded", "failed", "refused", "denied"}

\* What GraphState carries from node to node; the first three are in AgentState.
\* A step whose proposal was refused is recorded as failed, and says so.
Fresh == [goal |-> FALSE, failed |-> FALSE, last |-> "none",
          pending |-> "none", ok |-> FALSE, denied |-> FALSE, rejected |-> FALSE,
          type |-> "none", recoveries |-> 0, actions |-> 0, calls |-> 0,
          kind |-> "none", seen |-> {}, results |-> << >>]

\* AgentState starts over; every other channel of the thread keeps its value.
NewEpisode(old) == [old EXCEPT !.goal = FALSE, !.failed = FALSE, !.last = "none"]

\* The runner resumes a thread that has a next node, and otherwise starts over.
Resuming == saved.node \in Nodes

\* A bug of the runner: the browser comes back on the page the last one held.
Landing_SamePage(a) == page[a]

\* A new attempt has a new browser, and nothing takes it anywhere.
Landing(a) == "about:blank"

Begin(a) ==
  /\ node' = [node EXCEPT ![a] = IF Resuming THEN saved.node ELSE "observe"]
  /\ g' = [g EXCEPT ![a] = IF Resuming THEN saved.g ELSE NewEpisode(saved.g)]
  /\ page' = [page EXCEPT ![a] = Landing(a)]

\* An attempt nobody waits for ends, and leaves nothing behind.
Vanish(a) ==
  /\ node' = [node EXCEPT ![a] = "none"]
  /\ g' = [g EXCEPT ![a] = Fresh]
  /\ page' = [page EXCEPT ![a] = "about:blank"]

\* A node returns.  Its checkpoint is written while the next node already runs;
\* only the end of the graph waits for it.
Reach(a, next, channels) ==
  /\ node' = [node EXCEPT ![a] = next]
  /\ g' = [g EXCEPT ![a] = channels]
  /\ \/ saved' = [node |-> next, g |-> channels]
     \/ next # "end" /\ UNCHANGED saved

\* The histories count up to one more than the policy allows.
UpTo(n, limit) == IF n > limit THEN limit + 1 ELSE n

Shown(p) == IF p \in Pages THEN Shows[p] ELSE {}

-----------------------------------------------------------------------------
Init ==
  /\ plan \in Plans
  /\ node = [a \in Attempts |-> IF a = 1 THEN "observe" ELSE "none"]
  /\ g = [a \in Attempts |-> Fresh]
  /\ page = [a \in Attempts |-> "about:blank"]
  /\ awaited = 1
  /\ saved = [node |-> "start", g |-> Fresh]
  /\ stored = << >>
  /\ verdict = "none"
  /\ executed = 0
  /\ performed = "none"
  /\ lost = "none"
  /\ failures = 0

\* A criterion seen once stays seen.
Sightings(seen, p) == seen \cup Shown(p)

Observe(a) ==
  /\ node[a] = "observe"
  /\ Reach(a, "plan", [g[a] EXCEPT !.seen = Sightings(@, page[a])])
  /\ UNCHANGED <<plan, page, awaited, stored, verdict, history, failures>>

-----------------------------------------------------------------------------
Exhausted(channels) == channels.actions >= MaxActions \/ channels.calls >= MaxModelCalls

\* The duration is spent at whatever moment the clock says so.
StopOnBudget(channels) ==
  [channels EXCEPT !.failed = TRUE, !.goal = FALSE, !.pending = "none",
                   !.kind = "agent_budget"]

PlanStops(a) ==
  /\ node[a] = "plan"
  /\ Reach(a, "act", StopOnBudget(g[a]))
  /\ UNCHANGED <<plan, page, awaited, stored, verdict, history, failures>>

\* The channels after the model answered, by what it answered.
Proposed(channels, action) ==
  [channels EXCEPT !.pending = action, !.calls = @ + 1, !.kind = "none", !.rejected = FALSE]

Refused(channels) ==
  [channels EXCEPT !.pending = "none", !.calls = @ + 1, !.kind = "none",
                   !.rejected = TRUE, !.last = "refused"]

NoDecision(channels) ==
  [channels EXCEPT !.pending = "none", !.calls = @ + 1, !.kind = "model",
                   !.rejected = FALSE, !.failed = TRUE, !.goal = FALSE]

\* Nothing left to do: the goal is met, unless the last step failed.
NothingLeft(channels) ==
  LET unresolved == channels.last \in {"failed", "refused"} IN
  [channels EXCEPT !.pending = "none", !.calls = @ + 1, !.kind = "none",
                   !.rejected = FALSE, !.goal = ~unresolved,
                   !.failed = @ \/ unresolved]

PlanAsks(a) ==
  /\ node[a] = "plan"
  /\ ~Exhausted(g[a])
  /\ \E after \in { Proposed(g[a], action) : action \in Actions } \cup
                  { Refused(g[a]), NoDecision(g[a]), NothingLeft(g[a]) } :
       Reach(a, "act", after)
  /\ performed' = "none"
  /\ UNCHANGED <<plan, page, awaited, stored, verdict, executed, lost, failures>>

-----------------------------------------------------------------------------
\* No action: a refused proposal leaves everything as it is for Recover to read.
ActNothing(a) ==
  /\ node[a] = "act"
  /\ g[a].pending = "none"
  /\ Reach(a, "verify",
           IF g[a].rejected THEN g[a] ELSE [g[a] EXCEPT !.ok = TRUE, !.denied = FALSE])
  /\ UNCHANGED <<plan, page, awaited, stored, verdict, history, failures>>

\* last_action_type, as far as a failure is told apart by it.
TypeOf(action) ==
  CASE action \in Navigations -> "navigation"
    [] action \in NeedsTarget -> "element"
    [] OTHER -> "page"

\* Counted before the attempt: an action the page refused still cost a turn.
Acted(channels, ok, denied) ==
  [channels EXCEPT !.actions = @ + 1, !.ok = ok, !.denied = denied,
                   !.type = TypeOf(channels.pending)]

\* GuardedBrowserGateway refuses before anything is sent.
Forbidden(action) == action = "leave" \/ (action \in WriteActions /\ ~Writes)

ActDenied(a) ==
  /\ node[a] = "act"
  /\ Forbidden(g[a].pending)
  /\ Reach(a, "verify", Acted(g[a], FALSE, TRUE))
  /\ UNCHANGED <<plan, page, awaited, stored, verdict, history, failures>>

\* Where an action that works can lead: an element has to be on the page, a key goes to
\* whatever page there is, and history begins at about:blank.
LeadsTo(action, p) ==
  CASE p = "gone" -> {}
    [] p # "gone" /\ action = "navigate" -> Pages \cup {"outside"}
    [] p # "gone" /\ action = "back" -> Pages \cup {"outside", "about:blank"}
    [] p \notin {"gone", "about:blank"} /\ action \in WriteActions -> Pages \cup {"outside"}
    [] p = "about:blank" /\ action \in NeedsTarget -> {}
    [] OTHER -> {p}

\* A navigation is refused after the fact by where the browser is then.
LandedOutside(action, p) == action \in Navigations /\ p \notin Pages

\* An action reaches the browser; a write on a page is remembered.
Sent(a, ok, denied) ==
  /\ Reach(a, "verify", Acted(g[a], ok, denied))
  /\ executed' = UpTo(executed + 1, MaxActions)
  /\ performed' = IF ok /\ g[a].pending \in WriteActions /\ page[a] # "about:blank"
                  THEN g[a].pending ELSE performed

ActSucceeds(a) ==
  /\ node[a] = "act"
  /\ g[a].pending # "none"
  /\ ~Forbidden(g[a].pending)
  /\ \E p \in LeadsTo(g[a].pending, page[a]) :
       LET outside == LandedOutside(g[a].pending, p) IN
       /\ page' = [page EXCEPT ![a] = p]
       /\ Sent(a, ~outside, outside)
  /\ UNCHANGED <<plan, awaited, stored, verdict, lost, failures>>

\* A browser error, or an action the page cannot perform.  A navigation that fails may
\* leave an error page, and where it failed is checked like where it would have led; of
\* a browser that died nobody may know.
ActFails(a) ==
  /\ node[a] = "act"
  /\ g[a].pending # "none"
  /\ ~Forbidden(g[a].pending)
  /\ \E p \in {page[a]} \cup (IF g[a].pending \in Navigations /\ page[a] # "gone"
                              THEN {"outside"} ELSE {}) :
       \E denied \in IF p = "gone" /\ g[a].pending \in Navigations THEN BOOLEAN
                    ELSE {LandedOutside(g[a].pending, p)} :
         /\ page' = [page EXCEPT ![a] = p]
         /\ Sent(a, FALSE, denied)
  /\ UNCHANGED <<plan, awaited, stored, verdict, lost, failures>>

-----------------------------------------------------------------------------
\* The channels once the step is recorded.
Recorded(channels) ==
  IF channels.pending = "none" THEN channels
  ELSE IF channels.denied
  THEN [channels EXCEPT !.last = "denied", !.failed = TRUE, !.goal = FALSE, !.kind = "policy"]
  ELSE [channels EXCEPT !.last = IF channels.ok THEN "succeeded" ELSE "failed"]

\* Bugs of the graph: a denial is recovered from like any other failure, and an
\* episode that stopped short of its goal goes on.
AfterVerify_ReplansDenied(channels) ==
  IF ~channels.rejected /\ channels.pending = "none" THEN "verify_criteria"
  ELSE IF ~channels.rejected /\ channels.ok THEN "checkpoint" ELSE "recover"
AfterVerify_GoesOn(channels) ==
  IF ~channels.rejected /\ (channels.goal \/ channels.denied) THEN "verify_criteria"
  ELSE IF ~channels.rejected /\ channels.ok THEN "checkpoint" ELSE "recover"

AfterVerify(channels) ==
  IF ~channels.rejected /\ (channels.pending = "none" \/ channels.denied)
  THEN "verify_criteria"
  ELSE IF ~channels.rejected /\ channels.ok THEN "checkpoint" ELSE "recover"

Verify(a) ==
  /\ node[a] = "verify"
  /\ LET after == Recorded(g[a]) IN Reach(a, AfterVerify(after), after)
  /\ UNCHANGED <<plan, page, awaited, stored, verdict, history, failures>>

\* No goal is reached here: after_checkpoint always goes on to observe.
Checkpoint(a) ==
  /\ node[a] = "checkpoint"
  /\ Reach(a, IF g[a].goal THEN "verify_criteria" ELSE "observe",
           [g[a] EXCEPT !.recoveries = 0])
  /\ UNCHANGED <<plan, page, awaited, stored, verdict, history, failures>>

\* failure_kind_for_action.
KindForAction(type) ==
  CASE type = "none" -> "none" [] type = "element" -> "model" [] OTHER -> "environment"

\* A bug the graph once had: a refused proposal is classified by the last action
\* that did reach the browser.
GiveUpKind_ByLastAction(channels) == KindForAction(channels.type)

GiveUpKind(channels) ==
  IF channels.rejected THEN "model" ELSE KindForAction(channels.type)

Recover(a) ==
  /\ node[a] = "recover"
  /\ LET givesUp == g[a].recoveries + 1 > MaxRecoveries
         tried == [g[a] EXCEPT !.recoveries = @ + 1, !.rejected = FALSE]
     IN  IF givesUp
         THEN Reach(a, "verify_criteria",
                    [tried EXCEPT !.failed = TRUE, !.goal = FALSE, !.kind = GiveUpKind(g[a])])
         ELSE Reach(a, IF g[a].failed THEN "verify_criteria" ELSE "plan", tried)
  /\ UNCHANGED <<plan, page, awaited, stored, verdict, history, failures>>

-----------------------------------------------------------------------------
Unreached(c, kind) ==
  IF kind = "none" THEN Result(c, "unverified", "none") ELSE Result(c, "not_met", kind)

\* A bug of the verification: only the page the run ended on counts.
Checked_LastPageOnly(c, shown, seen) ==
  IF c \in shown THEN Result(c, "met", "none") ELSE Result(c, "not_met", "product")

\* The literal is on the page, or was on an earlier one, or the product lacks it.
Checked(c, shown, seen) ==
  IF c \in shown \cup seen THEN Result(c, "met", "none") ELSE Result(c, "not_met", "product")

\* What the model may make of a criterion: yes, cannot tell, no, no answer.
Judgements(c) == { Result(c, "met", "none"), Result(c, "unverified", "none"),
                   Result(c, "not_met", "unknown"), Result(c, "not_met", "model") }

Semantic(channels) ==
  IF channels.failed THEN {} ELSE { i \in DOMAIN plan : plan[i] \notin Hinted }

ResultsOf(channels, p, judged) == [i \in DOMAIN plan |->
  LET c == plan[i] IN
  CASE channels.failed ->
         IF c \in channels.seen THEN Result(c, "met", "none") ELSE Unreached(c, channels.kind)
    [] ~channels.failed /\ c \in Hinted -> Checked(c, Shown(p), channels.seen)
    [] OTHER -> judged[i]]

\* Judged on the page the browser holds; each semantic criterion asks the model.
VerifyCriteria(a) ==
  /\ node[a] = "verify_criteria"
  /\ \E judged \in [Semantic(g[a]) -> UNION { Judgements(c) : c \in Criteria }] :
       /\ \A i \in Semantic(g[a]) : judged[i] \in Judgements(plan[i])
       /\ Reach(a, "close_episode",
                [g[a] EXCEPT !.results = ResultsOf(g[a], page[a], judged)])
  /\ UNCHANGED <<plan, page, awaited, stored, verdict, executed, performed, lost, failures>>

CloseEpisode(a) ==
  /\ node[a] = "close_episode"
  /\ Reach(a, "end", [g[a] EXCEPT !.last = "none"])
  /\ UNCHANGED <<plan, page, awaited, stored, verdict, history, failures>>

-----------------------------------------------------------------------------
\* A bug of the repository: results that are there already are kept.
Replaced_KeepsFirst(results) == IF stored = << >> THEN results ELSE stored

\* Replace, not append: the plan is pinned, so every criterion is replaced.
Replaced(results) == results

\* uq_criterion_results_run_criterion, and derive_verdict's expected criteria.
Recordable(results) ==
  /\ results # << >>
  /\ \A i, j \in DOMAIN results : i # j => results[i].criterion # results[j].criterion

\* One commit, then the return.  Of an attempt Temporal has given up on only the
\* commit is left: nobody takes its answer.
RecordResults(a) ==
  /\ node[a] = "end"
  /\ Recordable(g[a].results)
  /\ stored' = Replaced(g[a].results)
  /\ node' = [node EXCEPT ![a] = "recorded"]
  /\ UNCHANGED <<plan, g, page, awaited, saved, verdict, history, failures>>

Return(a) ==
  /\ node[a] = "recorded"
  /\ IF a = awaited
     THEN /\ verdict' = DeriveVerdict(g[a].results, plan)
          /\ node' = [node EXCEPT ![a] = "returned"]
          /\ UNCHANGED <<g, page>>
     ELSE Vanish(a) /\ UNCHANGED verdict
  /\ UNCHANGED <<plan, awaited, saved, stored, history, failures>>

\* The commit or derive_verdict raises: rolled back, and the activity is retried.
RecordRaises(a) ==
  /\ node[a] = "end"
  /\ ~Recordable(g[a].results)
  /\ IF a = awaited THEN Begin(a) ELSE Vanish(a)
  /\ UNCHANGED <<plan, awaited, saved, stored, verdict, history, failures>>

-----------------------------------------------------------------------------
Running(a) == node[a] \notin {"none", "returned"}

\* The worker dies, or a node raises: Temporal starts another attempt.  A write no
\* checkpoint tells of is lost on it.
AttemptDies(a) ==
  /\ Running(a)
  /\ failures < MaxFailures
  /\ failures' = failures + 1
  /\ IF a = awaited THEN Begin(a) ELSE Vanish(a)
  /\ lost' = IF performed # "none" /\ saved.g.actions < g[a].actions THEN performed ELSE lost
  /\ UNCHANGED <<plan, awaited, saved, stored, verdict, executed, performed>>

\* Nothing rebuilds the browser of a running attempt: actions fail from here on.
BrowserDies(a) ==
  /\ node[a] \in Nodes
  /\ page[a] # "gone"
  /\ failures < MaxFailures
  /\ failures' = failures + 1
  /\ page' = [page EXCEPT ![a] = "gone"]
  /\ UNCHANGED <<plan, node, g, awaited, saved, stored, verdict, history>>

\* run_episode heartbeats before the graph starts and after it ends, and never in
\* between: after heartbeat_timeout (2 min) Temporal starts an attempt beside it.
HeartbeatExpires ==
  /\ node[awaited] \in Nodes
  /\ node[Other(awaited)] = "none"
  /\ failures < MaxFailures
  /\ failures' = failures + 1
  /\ awaited' = Other(awaited)
  /\ Begin(Other(awaited))
  /\ UNCHANGED <<plan, saved, stored, verdict, history>>

\* The heartbeat it sends once its graph has ended tells an attempt that it was
\* given up on, sooner or later than it commits.
AttemptCancelled(a) ==
  /\ a # awaited
  /\ node[a] \in {"end", "recorded"}
  /\ Vanish(a)
  /\ UNCHANGED <<plan, awaited, saved, stored, verdict, history, failures>>

-----------------------------------------------------------------------------
GraphStep(a) ==
  \/ Observe(a)
  \/ PlanStops(a)
  \/ PlanAsks(a)
  \/ ActNothing(a)
  \/ ActDenied(a)
  \/ ActSucceeds(a)
  \/ ActFails(a)
  \/ Verify(a)
  \/ Checkpoint(a)
  \/ Recover(a)
  \/ VerifyCriteria(a)
  \/ CloseEpisode(a)

Activity(a) == GraphStep(a) \/ RecordResults(a) \/ Return(a) \/ RecordRaises(a)

Next == \E a \in Attempts : Activity(a) \/ AttemptDies(a) \/ BrowserDies(a)

\* Every attempt Temporal gives up on is dead.
Spec == Init /\ [][Next]_vars

\* A worker that is alive goes on: every node's I/O has its own timeout.
FairSpec == Spec /\ \A a \in Attempts : WF_vars(Activity(a))

\* What heartbeat_timeout really does to an episode of more than two minutes.
HeartbeatSpec ==
  Init /\ [][Next \/ HeartbeatExpires \/ \E a \in Attempts : AttemptCancelled(a)]_vars

-----------------------------------------------------------------------------
Channels ==
  [goal : BOOLEAN, failed : BOOLEAN, last : Steps, pending : Actions \cup {"none"},
   ok : BOOLEAN, denied : BOOLEAN, rejected : BOOLEAN,
   type : Types \cup {"none"}, recoveries : Nat,
   actions : 0 .. MaxActions, calls : 0 .. MaxModelCalls,
   kind : FailureKinds \cup {"none"}, seen : SUBSET Hinted,
   results : Seq(Results(Criteria))]

TypeOK ==
  /\ plan \in Plans
  /\ node \in [Attempts -> Nodes \cup {"none", "end", "recorded", "returned"}]
  /\ g \in [Attempts -> Channels]
  /\ page \in [Attempts -> Pages \cup {"about:blank", "outside", "gone"}]
  /\ awaited \in Attempts
  /\ saved \in [node : Nodes \cup {"start", "end"}, g : Channels]
  /\ stored \in Seq(Results(Criteria))
  /\ verdict \in {"none", "passed", "failed", "blocked", "inconclusive"}
  /\ executed \in 0 .. MaxActions + 1
  /\ performed \in WriteActions \cup {"none"}
  /\ lost \in WriteActions \cup {"none"}
  /\ failures \in 0 .. MaxFailures

\* The criteria the run is asked about.
Asked == { plan[i] : i \in DOMAIN plan }

Judged(a) == node[a] \in {"close_episode", "end", "recorded", "returned"}

\* The stored results answer the whole plan, one row per criterion, never a mix of
\* two answers: a plan whose results cannot be stored so leaves nothing behind.
OneRowPerCriterion ==
  stored # << >> =>
    /\ { stored[i].criterion : i \in DOMAIN stored } = Asked
    /\ \A i, j \in DOMAIN stored : i # j => stored[i].criterion # stored[j].criterion

\* The verdict the workflow was given can be derived again from what is stored,
\* whatever died and was run again before it was given (activities.py:381), and
\* what is stored is one whole answer.
VerdictRederivable ==
  /\ verdict # "none" => verdict = DeriveVerdict(stored, plan)
  /\ OneRowPerCriterion

\* A product is only accused by an episode that reached its goal with nothing left
\* to repair: one that stopped on a budget, a denial, a failed step nobody repaired
\* or a dead model never says "product".
AccusedOnlyAtGoal ==
  \A a \in Attempts, i \in DOMAIN plan :
    Judged(a) /\ IsProductDefect(g[a].results[i]) =>
      /\ g[a].goal /\ ~g[a].failed
      /\ g[a].last \notin {"failed", "refused", "denied"}

\* What the run watched come true is reported as met, however the run went on and
\* wherever it ended (criterion_verification.py:63-67, 81-86).
WitnessedIsMet ==
  \A a \in Attempts, i \in DOMAIN plan :
    Judged(a) /\ plan[i] \in g[a].seen => g[a].results[i].outcome = "met"

\* An episode that stopped for a known reason reports blocked, unless it had seen
\* every criterion come true: never a defect, never inconclusive.
KnownStopIsBlocked ==
  verdict # "none" /\ g[awaited].failed /\ g[awaited].kind # "none" =>
    verdict = IF Asked \subseteq g[awaited].seen THEN "passed" ELSE "blocked"

\* The environment is blamed only for an action that needs nothing of the page and
\* failed as the last step: never for an element the planner named wrongly, nor for a
\* proposal it got wrong after an action that worked (graph.py:484-493,
\* verification.py:171-173).
EnvironmentFailed ==
  \A a \in Attempts :
    node[a] \in Nodes /\ g[a].kind = "environment" =>
      g[a].type \in {"navigation", "page"} /\ g[a].last \notin {"refused", "succeeded", "denied"}

\* Whom a failure is blamed on is earned by what the run did, after any sequence of
\* proposals, refusals, denials, failures, recoveries and deaths
\* (graph.py:484-493, criterion_verification.py:63-86).
BlameIsEarned == AccusedOnlyAtGoal /\ KnownStopIsBlocked /\ EnvironmentFailed

\* Once the policy denied an action, the attempt only judges and closes: it looks
\* for no other way to do what was denied, by recovering, planning or acting.
DenialEndsEpisode ==
  \A a \in Attempts : node[a] \in Nodes /\ g[a].last = "denied" =>
    node[a] \in {"verify_criteria", "close_episode"}

\* With a plan whose results can be stored, the activity returns a verdict, after
\* finitely many attempts.
EpisodeReturns ==
  (plan # << >> /\ \A i, j \in DOMAIN plan : i # j => plan[i] # plan[j]) ~> verdict # "none"

\* "Temporal reintenta unicamente fallos de infraestructura" (ADR 0009:14): whatever
\* the plan, finitely many failures leave a verdict.
EveryEpisodeReturns == <>(verdict # "none")

\* A write is done on a page.
Writing(a) ==
  /\ node[a] = "act" /\ node'[a] = "verify"
  /\ g[a].pending \in WriteActions /\ g'[a].ok
  /\ page[a] # "about:blank"

\* One decision of the planner is at most one write on a page, however often the worker
\* dies before a checkpoint tells of it: an attempt that resumes with the decision in
\* hand holds no page to do it on (episode_runner.py:59-99), and what fails there is
\* planned again, never sent again (graph.py:504-512, 594-601).
OneDecisionOneWrite == [][\A a \in Attempts : Writing(a) => performed = "none"]_vars

\* "un side effect dentro de la ventana de crash no se repite (verify-before-retry)"
\* (RECOVERY_MATRIX.md:18): what an attempt did and died on is not done again.
SideEffectNotRepeated == [][\A a \in Attempts : Writing(a) => g[a].pending # lost]_vars

\* "A navigation that will not complete is the environment" (verification.py:161-163):
\* one that fails and moves nothing is not the policy's doing.
StalledIsNotDenied ==
  [][\A a \in Attempts :
       node[a] = "act" /\ node'[a] = "verify" /\ g[a].pending = "navigate" /\ page'[a] = page[a] =>
         g'[a].ok \/ ~g'[a].denied]_vars

\* "An action that failed on the page could be a broken environment or a broken product,
\* and guessing between them is exactly the guess that makes a report untrustworthy"
\* (graph.py:311-313): the environment is blamed for a navigation only.
EnvironmentIsNavigation ==
  \A a \in Attempts :
    node[a] \in Nodes /\ g[a].kind = "environment" => g[a].type = "navigation"

\* A retry "siempre reanuda a traves del ultimo checkpoint" (ADR 0009): once the
\* checkpoint says the episode is over, no further action is executed.
FinishedNotRepeated == [][saved.node = "end" => executed' = executed]_vars

\* "The system under test did not do what the story promised" (verification.py:37):
\* a defect is only claimed about a page the application served.
AccusedOnlyOnServedPage ==
  \A a \in Attempts, i \in DOMAIN plan :
    node[a] = "close_episode" /\ IsProductDefect(g[a].results[i]) => page[a] \in Pages

\* The RunPolicy promises a bound on the actions (graph.py:96-98).
ActionsWithinPolicy == executed <= MaxActions

\* "toda RunPolicy acota max_model_calls" (docs/13-security.md:22).
ModelCallsWithinPolicy ==
  [][\A a \in Attempts : node[a] = "verify_criteria" /\ node'[a] = "close_episode" =>
       g[a].calls + Cardinality(Semantic(g[a])) <= MaxModelCalls]_vars
=============================================================================
